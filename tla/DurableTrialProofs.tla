------------------------- MODULE DurableTrialProofs -------------------------
(***************************************************************************)
(* Theorems of DurableTrial, for every number of workers and signers, every *)
(* retry budget, every script and every bound on faults.                   *)
(*                                                                         *)
(* The argument: a process holds a token exactly while it has a job        *)
(* (WorkerTokens, SignerTokens), the job row does not exist before the     *)
(* web process has queued it (NotYetQueued), and everything has its type.  *)
(* With those, every step of a worker is one of four things to the job     *)
(* row: a claim, a finish by the holder, a drop of the token, or nothing   *)
(* (KeepsLease); the same holds of a signer and the signing job.  The two  *)
(* tables therefore implement FencedLease, and inherit what is proved of   *)
(* it in FencedLeaseProofs.                                                *)
(* A save that passes its fence because it waits belongs to a holder of    *)
(* the last attempt of a job that stays cancelled (WaitsClosed), so the    *)
(* order of the attempts survives it.                                      *)
(***************************************************************************)
EXTENDS DurableTrial, SequenceTheorems, TLAPS

\* A process presents a token exactly while it works on a claimed job.
WorkerTokens == \A w \in Worker : worker[w].pc = "idle" <=> worker[w].token = 0
SignerTokens == \A s \in Signer : signer[s].pc = "idle" <=> signer[s].token = 0
\* The job row is inserted by enqueueRun and by nothing else.
NotYetQueued == enqueueing => job = NoJob

IInv == TypeOK /\ WorkerTokens /\ SignerTokens /\ NotYetQueued

\* The run as created is a snapshot.
LEMMA CreatedType == Created \in Snapshot /\ NoRow \in Snapshot
  BY DEF Created, NoRow, Snapshot, PipelineState

\* Publishing a state yields a snapshot.
LEMMA EmitType ==
    ASSUME NEW run \in Snapshot, NEW state \in PipelineState
    PROVE  Emit(run, state) \in Snapshot
  <1>1. run.rev + 1 \in Nat
    BY DEF Snapshot
  <1>2. Emit(run, state) = [run EXCEPT !.state = state, !.rev = run.rev + 1]
    BY DEF Emit, Snapshot
  <1>3. QED
    BY <1>1, <1>2 DEF Snapshot

\* A job row has its type before it is inserted and when it is queued.
LEMMA NewJobTypes == NoJob \in JobRow /\ Queued \in JobRow
  <1>1. 0 \in 0..MaxAttempts
    BY DurableTrialAssumption
  <1>2. QED
    BY <1>1 DEF NoJob, Queued, JobRow

\* A claim keeps the type of a job row and issues an attempt within the budget.
LEMMA ClaimedType ==
    ASSUME NEW j \in JobRow, Claimable(j)
    PROVE  Claimed(j) \in JobRow /\ Claimed(j).attempts \in 1..MaxAttempts
  <1>1. j.attempts + 1 \in 1..MaxAttempts
    BY DurableTrialAssumption DEF JobRow, Claimable
  <1>2. QED
    BY <1>1, DurableTrialAssumption DEF Claimed, JobRow

\* Finishing, failing and cancelling keep the type of a job row.
LEMMA CloseType ==
    ASSUME NEW j \in JobRow, NEW status \in {"completed", "failed", "cancelled"}
    PROVE  Close(j, status) \in JobRow /\ CancelledJob(j) \in JobRow
  <1>1. ASSUME NEW s \in {"completed", "failed", "cancelled"} PROVE Close(j, s) \in JobRow
    BY DEF Close, JobRow
  <1>2. QED
    BY <1>1 DEF CancelledJob

\* A process without a job has the type of its memory.
LEMMA IdleTypes == IdleWorker \in WorkerRecord /\ IdleSigner \in SignerRecord
  BY DurableTrialAssumption, CreatedType, EmptySeq DEF IdleWorker, IdleSigner, WorkerRecord, SignerRecord

\* The catch block of an executor keeps the token and queues one save.
LEMMA BailType ==
    ASSUME NEW r \in WorkerRecord, r.token # 0, NEW state \in {"FAILED", "CANCELLED"}
    PROVE  /\ Bail(r, state) \in WorkerRecord
           /\ Bail(r, state).pc = "close"
           /\ Bail(r, state).token = r.token
  <1> DEFINE run == Emit(r.run, state)
  <1>1. run \in Snapshot
    BY EmitType DEF WorkerRecord, PipelineState
  <1>2. Append(r.chain, run) \in Seq(Snapshot)
    BY <1>1, AppendProperties DEF WorkerRecord
  <1>3. Bail(r, state) = [r EXCEPT !.pc = "close", !.run = run, !.chain = Append(r.chain, run)]
    BY DEF Bail, WorkerRecord
  <1> HIDE DEF run
  <1>4. QED
    BY <1>1, <1>2, <1>3 DEF WorkerRecord

-----------------------------------------------------------------------------
\* What a step of worker w does: its record becomes r, the run it may store
\* is well-formed, and the token it holds is the attempt it claimed.
WorkerMove(w, r) ==
    /\ Set(w, r)
    /\ r \in WorkerRecord
    /\ r.pc = "idle" <=> r.token = 0
    /\ row' \in Snapshot
    /\ writer' \in 0..MaxAttempts

\* Every step of a worker but a claim, a finish and a crash.
KeepsLease(w) == \E r : WorkerMove(w, r) /\ r.token = worker[w].token

\* A worker's move preserves the invariant when the rows it leaves have theirs.
LEMMA WorkerMoveInvariant ==
    ASSUME IInv, NEW w \in Worker, NEW r, WorkerMove(w, r),
           job' \in JobRow, sig' \in JobRow, faults' \in 0..MaxFaults,
           ~enqueueing \/ job' = job, waiting' \subseteq waiting,
           UNCHANGED <<enqueueing, upserts, signer, acked, signedBy>>
    PROVE  IInv'
  <1>1. worker' = [worker EXCEPT ![w] = r]
    BY DEF WorkerMove, Set
  <1>2. TypeOK'
    BY <1>1 DEF IInv, TypeOK, WorkerMove
  <1>3. WorkerTokens'
    BY <1>1 DEF IInv, TypeOK, WorkerTokens, WorkerMove
  <1>4. SignerTokens' /\ NotYetQueued'
    BY DEF IInv, SignerTokens, NotYetQueued
  <1>5. QED
    BY <1>2, <1>3, <1>4 DEF IInv

\* The entries of a script that are not checks are pipeline states.
LEMMA ScriptEntry ==
    ASSUME NEW i \in 1..Len(Script), Script[i] # Check
    PROVE  Script[i] \in PipelineState
  <1>1. Script[i] \in {Check} \cup PipelineState
    BY DurableTrialAssumption, ElementOfSeq
  <1>2. QED
    BY <1>1

\* A segment of the executor keeps the lease.
LEMMA AdvanceKeeps ==
    ASSUME IInv, NEW w \in Worker, Advance(w) PROVE KeepsLease(w)
  <1> DEFINE run == Emit(worker[w].run, Script[worker[w].at])
             r == [worker[w] EXCEPT !.at = worker[w].at + 1, !.run = run,
                                    !.chain = Append(worker[w].chain, run)]
  <1>0. worker[w] \in WorkerRecord
    BY DEF IInv, TypeOK
  <1>1. worker[w].at \in 1..Len(Script) /\ worker[w].at + 1 \in 1..Len(Script) + 1
    BY <1>0, DurableTrialAssumption, LenProperties DEF Advance, Executing, WorkerRecord
  <1>2. run \in Snapshot
    BY <1>0, <1>1, ScriptEntry, EmitType DEF Advance, WorkerRecord
  <1>3. Append(worker[w].chain, run) \in Seq(Snapshot)
    BY <1>0, <1>2, AppendProperties DEF WorkerRecord
  <1>4. Set(w, r)
    BY <1>0 DEF Advance, WorkerRecord
  <1>5. r \in WorkerRecord /\ r.pc = worker[w].pc /\ r.token = worker[w].token
    <2> HIDE DEF run
    <2> QED
      BY <1>0, <1>1, <1>2, <1>3 DEF WorkerRecord
  <1>6. WorkerMove(w, r)
    BY <1>4, <1>5 DEF WorkerMove, Advance, NoWrite, IInv, TypeOK, WorkerTokens
  <1>7. QED
    BY <1>5, <1>6 DEF KeepsLease

\* A worker that bails out of its executor keeps its lease.
LEMMA BailKeeps ==
    ASSUME IInv, NEW w \in Worker, worker[w].pc # "idle",
           NEW state \in {"FAILED", "CANCELLED"}, Set(w, Bail(worker[w], state)), NoWrite
    PROVE  KeepsLease(w)
  <1> DEFINE r == Bail(worker[w], state)
  <1>1. worker[w] \in WorkerRecord /\ worker[w].token # 0
    BY DEF IInv, TypeOK, WorkerTokens
  <1>2. r \in WorkerRecord /\ r.pc = "close" /\ r.token = worker[w].token
    BY <1>1, BailType
  <1>3. WorkerMove(w, r)
    BY <1>1, <1>2 DEF WorkerMove, NoWrite, IInv, TypeOK
  <1>4. QED
    BY <1>2, <1>3 DEF KeepsLease

\* A step that leaves the run, the chain and the token alone keeps the lease.
LEMMA PcKeeps ==
    ASSUME IInv, NEW w \in Worker, worker[w].pc # "idle",
           NEW pc \in {"execute", "save", "finish", "fail"},
           NEW at \in 1..Len(Script) + 1, NEW lost \in BOOLEAN,
           Set(w, [worker[w] EXCEPT !.pc = pc, !.at = at, !.lost = lost]),
           row' \in Snapshot, writer' \in 0..MaxAttempts
    PROVE  KeepsLease(w)
  <1> DEFINE r == [worker[w] EXCEPT !.pc = pc, !.at = at, !.lost = lost]
  <1>1. worker[w] \in WorkerRecord /\ worker[w].token # 0
    BY DEF IInv, TypeOK, WorkerTokens
  <1>2. r \in WorkerRecord /\ r.pc = pc /\ r.token = worker[w].token
    BY <1>1 DEF WorkerRecord
  <1>3. WorkerMove(w, r)
    BY <1>1, <1>2 DEF WorkerMove
  <1>4. QED
    BY <1>2, <1>3 DEF KeepsLease

\* Loading the run, on a first attempt or a retry, keeps the lease.
LEMMA LoadKeeps == ASSUME IInv, NEW w \in Worker, Load(w) PROVE KeepsLease(w)
  <1> DEFINE first == worker[w].token = 1
             run == IF first THEN row ELSE Emit(Created, "CREATED")
             chain == IF first THEN <<>> ELSE <<run>>
             r == [worker[w] EXCEPT !.pc = "execute", !.run = run, !.chain = chain]
  <1>1. worker[w] \in WorkerRecord /\ worker[w].token # 0
    BY DEF IInv, TypeOK, WorkerTokens, Load
  <1>2. run \in Snapshot
    <2>1. Emit(Created, "CREATED") \in Snapshot
      BY CreatedType, EmitType DEF PipelineState
    <2>2. QED
      BY <2>1 DEF IInv, TypeOK
  <1>3. chain \in Seq(Snapshot)
    <2>1. <<run>> \in Seq(Snapshot) /\ <<>> \in Seq(Snapshot)
      BY <1>2
    <2>2. QED
      BY <2>1
  <1>4. Set(w, r) /\ NoWrite
    BY DEF Load
  <1>5. r \in WorkerRecord /\ r.pc = "execute" /\ r.token = worker[w].token
    <2> HIDE DEF run, chain
    <2> QED
      BY <1>1, <1>2, <1>3 DEF WorkerRecord
  <1>6. WorkerMove(w, r)
    BY <1>1, <1>4, <1>5 DEF WorkerMove, NoWrite, IInv, TypeOK
  <1>7. QED
    BY <1>5, <1>6 DEF KeepsLease

\* Losing the lease in the executor keeps the token until the job is finished.
LEMMA LoseLeaseKeeps ==
    ASSUME IInv, NEW w \in Worker, worker[w].pc # "idle",
           Set(w, LoseLease(worker[w])), NoWrite
    PROVE  KeepsLease(w)
  <1>1. CASE Rethrows
    <2>1. worker[w] \in WorkerRecord
      BY DEF IInv, TypeOK
    <2>2. [worker[w] EXCEPT !.pc = "fail"]
            = [worker[w] EXCEPT !.pc = "fail", !.at = worker[w].at, !.lost = worker[w].lost]
      BY <2>1 DEF WorkerRecord
    <2>3. QED
      BY <1>1, <2>1, <2>2, PcKeeps DEF LoseLease, NoWrite, IInv, TypeOK, WorkerRecord
  <1>2. CASE ~Rethrows
    BY <1>2, BailKeeps DEF LoseLease
  <1>3. QED
    BY <1>1, <1>2

\* The check for a cancellation keeps the lease, whatever it finds.
LEMMA EnsureActiveKeeps == ASSUME IInv, NEW w \in Worker, EnsureActive(w) PROVE KeepsLease(w)
  <1> DEFINE cancelled == worker[w].run.cancelled \/ row.cancelled \/ row.state = "CANCELLED"
  <1>1. worker[w] \in WorkerRecord /\ worker[w].pc = "execute"
    BY DEF IInv, TypeOK, EnsureActive, Executing
  <1>2. CASE worker[w].lost
    BY <1>1, <1>2, LoseLeaseKeeps DEF EnsureActive
  <1>3. CASE ~worker[w].lost /\ cancelled
    BY <1>1, <1>3, BailKeeps DEF EnsureActive
  <1>4. CASE ~worker[w].lost /\ ~cancelled
    <2>1. worker[w].at + 1 \in 1..Len(Script) + 1
      BY <1>1, DurableTrialAssumption, LenProperties DEF EnsureActive, Executing, WorkerRecord
    <2>2. [worker[w] EXCEPT !.at = worker[w].at + 1]
            = [worker[w] EXCEPT !.pc = "execute", !.at = worker[w].at + 1, !.lost = worker[w].lost]
      BY <1>1 DEF WorkerRecord
    <2>3. Set(w, [worker[w] EXCEPT !.at = worker[w].at + 1])
      BY <1>1, <1>4 DEF EnsureActive, WorkerRecord
    <2>4. QED
      BY <1>1, <2>1, <2>2, <2>3, PcKeeps DEF EnsureActive, NoWrite, IInv, TypeOK, WorkerRecord
  <1>5. QED
    BY <1>2, <1>3, <1>4

\* An executor that throws keeps the lease until it has saved its failure.
LEMMA ThrowKeeps == ASSUME IInv, NEW w \in Worker, Throw(w) PROVE KeepsLease(w)
  BY BailKeeps, LoseLeaseKeeps DEF Throw, Executing

\* Signing in the worker keeps the lease.
LEMMA SignKeeps == ASSUME IInv, NEW w \in Worker, Sign(w) PROVE KeepsLease(w)
  <1> DEFINE run == Emit(worker[w].run, "COMPLETED")
             r == [worker[w] EXCEPT !.pc = "persist", !.run = [run EXCEPT !.bundle = TRUE],
                                    !.chain = Append(worker[w].chain, run)]
  <1>1. worker[w] \in WorkerRecord /\ worker[w].token # 0
    BY DEF IInv, TypeOK, WorkerTokens, Sign, Finished
  <1>2. run \in Snapshot
    BY <1>1, EmitType DEF WorkerRecord, PipelineState
  <1>3. [run EXCEPT !.bundle = TRUE] \in Snapshot
    <2> HIDE DEF run
    <2> QED
      BY <1>2 DEF Snapshot
  <1>4. Append(worker[w].chain, run) \in Seq(Snapshot)
    BY <1>1, <1>2, AppendProperties DEF WorkerRecord
  <1>5. Set(w, r) /\ NoWrite
    BY <1>1 DEF Sign, WorkerRecord
  <1>6. r \in WorkerRecord /\ r.pc = "persist" /\ r.token = worker[w].token
    <2> HIDE DEF run
    <2> QED
      BY <1>1, <1>3, <1>4 DEF WorkerRecord
  <1>7. WorkerMove(w, r)
    BY <1>1, <1>5, <1>6 DEF WorkerMove, NoWrite, IInv, TypeOK
  <1>8. QED
    BY <1>6, <1>7 DEF KeepsLease

\* Storing the unsigned report keeps the lease.
LEMMA HandOffKeeps == ASSUME IInv, NEW w \in Worker, HandOff(w) PROVE KeepsLease(w)
  <1> DEFINE run == [worker[w].run EXCEPT !.state = "SCORING", !.pend = TRUE]
             r == [worker[w] EXCEPT !.pc = "insert", !.run = run]
  <1>1. worker[w] \in WorkerRecord /\ worker[w].token # 0
    BY DEF IInv, TypeOK, WorkerTokens, HandOff, Finished
  <1>2. run \in Snapshot
    BY <1>1 DEF WorkerRecord, Snapshot, PipelineState
  <1>3. Set(w, r) /\ row' = run /\ writer' = worker[w].token
    BY DEF HandOff, Write
  <1>4. r \in WorkerRecord /\ r.pc = "insert" /\ r.token = worker[w].token
    <2> HIDE DEF run
    <2> QED
      BY <1>1, <1>2 DEF WorkerRecord
  <1>5. WorkerMove(w, r)
    BY <1>1, <1>2, <1>3, <1>4 DEF WorkerMove, WorkerRecord
  <1>6. QED
    BY <1>4, <1>5 DEF KeepsLease

\* Queueing the signing job keeps the evaluation lease.
LEMMA InsertKeeps == ASSUME IInv, NEW w \in Worker, InsertSigningJob(w) PROVE KeepsLease(w)
  <1>1. worker[w] \in WorkerRecord /\ worker[w].pc = "insert"
    BY DEF IInv, TypeOK, InsertSigningJob
  <1>2. [worker[w] EXCEPT !.pc = "save"]
          = [worker[w] EXCEPT !.pc = "save", !.at = worker[w].at, !.lost = worker[w].lost]
    BY <1>1 DEF WorkerRecord
  <1>3. QED
    BY <1>1, <1>2, PcKeeps DEF InsertSigningJob, NoWrite, IInv, TypeOK, WorkerRecord

\* A hand-off whose statement fails keeps the lease.
LEMMA HandOffFailsKeeps == ASSUME IInv, NEW w \in Worker, HandOffFails(w) PROVE KeepsLease(w)
  <1> DEFINE q == [worker[w] EXCEPT !.run.state = "SCORING", !.run.pend = TRUE]
             r == Bail(q, "FAILED")
  <1>1. worker[w] \in WorkerRecord /\ worker[w].token # 0
    BY DEF IInv, TypeOK, WorkerTokens, HandOffFails, Finished
  <1>2. q \in WorkerRecord /\ q.token = worker[w].token
    <2>1. [worker[w].run EXCEPT !.state = "SCORING", !.pend = TRUE] \in Snapshot
      BY <1>1 DEF WorkerRecord, Snapshot, PipelineState
    <2>2. q = [worker[w] EXCEPT !.run = [worker[w].run EXCEPT !.state = "SCORING", !.pend = TRUE]]
      BY <1>1 DEF WorkerRecord, Snapshot
    <2>3. QED
      BY <1>1, <2>1, <2>2 DEF WorkerRecord
  <1>3. r \in WorkerRecord /\ r.pc = "close" /\ r.token = worker[w].token
    <2> HIDE DEF q
    <2> QED
      BY <1>1, <1>2, BailType
  <1>4. Set(w, r) /\ NoWrite
    BY DEF HandOffFails
  <1>5. WorkerMove(w, r)
    <2> HIDE DEF r
    <2> QED
      BY <1>1, <1>3, <1>4 DEF WorkerMove, NoWrite, IInv, TypeOK
  <1>6. QED
    BY <1>3, <1>5 DEF KeepsLease

\* A checkpoint keeps the token, whether it lands or marks the lease as lost.
LEMMA CheckpointKeeps == ASSUME IInv, NEW w \in Worker, Checkpoint(w) PROVE KeepsLease(w)
  <1> DEFINE snapshot == Head(worker[w].chain)
             lost == worker[w].lost \/ ~Lands(w, snapshot)
             r == [worker[w] EXCEPT !.chain = Tail(worker[w].chain), !.lost = lost]
  <1>1. worker[w] \in WorkerRecord
    BY DEF IInv, TypeOK
  <1>2. snapshot \in Snapshot /\ Tail(worker[w].chain) \in Seq(Snapshot)
    BY <1>1, HeadTailProperties DEF Checkpoint, WorkerRecord
  <1>3. row' \in Snapshot /\ writer' \in 0..MaxAttempts
    BY <1>1, <1>2 DEF Checkpoint, Write, NoWrite, IInv, TypeOK, WorkerRecord
  <1>4. Set(w, r)
    BY <1>1 DEF Checkpoint, WorkerRecord
  <1>5. r \in WorkerRecord /\ r.pc = worker[w].pc /\ r.token = worker[w].token
    <2>1. lost \in BOOLEAN
      OBVIOUS
    <2> HIDE DEF lost
    <2> QED
      BY <1>1, <1>2, <2>1 DEF WorkerRecord
  <1>6. WorkerMove(w, r)
    <2> HIDE DEF r
    <2> QED
      BY <1>3, <1>4, <1>5 DEF WorkerMove, IInv, WorkerTokens
  <1>7. QED
    BY <1>5, <1>6 DEF KeepsLease

\* What a save outside the checkpoint chain stores is a run it already has.
LEMMA SaveTypes ==
    ASSUME IInv, NEW w \in Worker, Write(w, worker[w].run) \/ NoWrite
    PROVE  row' \in Snapshot /\ writer' \in 0..MaxAttempts
  BY DEF IInv, TypeOK, Write, NoWrite, WorkerRecord

\* A step that changes nothing but the program counter keeps the lease.
LEMMA JumpKeeps ==
    ASSUME IInv, NEW w \in Worker, worker[w].pc # "idle",
           NEW pc \in {"save", "finish", "fail"}, Set(w, [worker[w] EXCEPT !.pc = pc]),
           row' \in Snapshot, writer' \in 0..MaxAttempts
    PROVE  KeepsLease(w)
  <1>1. worker[w] \in WorkerRecord
    BY DEF IInv, TypeOK
  <1>2. [worker[w] EXCEPT !.pc = pc]
          = [worker[w] EXCEPT !.pc = pc, !.at = worker[w].at, !.lost = worker[w].lost]
    BY <1>1 DEF WorkerRecord
  <1>3. QED
    BY <1>1, <1>2, PcKeeps DEF WorkerRecord

\* A step that only marks the lease as lost keeps the token.
LEMMA LostKeeps ==
    ASSUME IInv, NEW w \in Worker, worker[w].pc # "idle",
           Set(w, [worker[w] EXCEPT !.lost = TRUE]), NoWrite
    PROVE  KeepsLease(w)
  <1> DEFINE r == [worker[w] EXCEPT !.lost = TRUE]
  <1>1. worker[w] \in WorkerRecord /\ worker[w].token # 0
    BY DEF IInv, TypeOK, WorkerTokens
  <1>2. r \in WorkerRecord /\ r.pc = worker[w].pc /\ r.token = worker[w].token
    BY <1>1 DEF WorkerRecord
  <1>3. WorkerMove(w, r)
    <2>1. Set(w, r)
      OBVIOUS
    <2> HIDE DEF r
    <2>2. QED
      BY <1>1, <1>2, <2>1 DEF WorkerMove, NoWrite, IInv, TypeOK, WorkerTokens
  <1>4. QED
    BY <1>2, <1>3 DEF KeepsLease

\* The executor's own save keeps the lease, whether it lands or not.
LEMMA PersistKeeps == ASSUME IInv, NEW w \in Worker, Persist(w) PROVE KeepsLease(w)
  <1> DEFINE saved == Lands(w, worker[w].run)
  <1>1. worker[w].pc # "idle" /\ (Write(w, worker[w].run) \/ NoWrite)
    BY DEF Persist
  <1>2. CASE saved
    BY <1>1, <1>2, SaveTypes, JumpKeeps DEF Persist
  <1>3. CASE ~saved /\ worker[w].pc = "persist"
    BY <1>1, <1>3, LoseLeaseKeeps DEF Persist
  <1>4. CASE ~saved /\ worker[w].pc # "persist"
    BY <1>1, <1>4, SaveTypes, JumpKeeps DEF Persist
  <1>5. QED
    BY <1>2, <1>3, <1>4

\* The last save of a job keeps the lease until the job is finished.
LEMMA SaveKeeps == ASSUME IInv, NEW w \in Worker, Save(w) PROVE KeepsLease(w)
  <1>1. worker[w].pc # "idle" /\ (Write(w, worker[w].run) \/ NoWrite)
    BY DEF Save
  <1>2. PICK pc \in {"finish", "fail"} : Set(w, [worker[w] EXCEPT !.pc = pc])
    BY DEF Save
  <1>3. QED
    BY <1>1, <1>2, SaveTypes, JumpKeeps

\* A save whose statement fails keeps the lease.
LEMMA SaveFailsKeeps == ASSUME IInv, NEW w \in Worker, SaveFails(w) PROVE KeepsLease(w)
  <1>1. worker[w].pc # "idle" /\ NoWrite
    BY DEF SaveFails
  <1>2. CASE worker[w].pc = "persist"
    BY <1>1, <1>2, BailKeeps DEF SaveFails
  <1>3. CASE worker[w].pc # "persist"
    BY <1>1, <1>3, SaveTypes, JumpKeeps DEF SaveFails
  <1>4. QED
    BY <1>2, <1>3

\* Every step of a worker but a claim, a finish and a crash keeps the lease and
\* leaves the job row alone.
LEMMA KeepingSteps ==
    ASSUME IInv, NEW w \in Worker, WorkerStep(w) \/ WorkerFault(w),
           ~Finish(w), ~WorkerCrash(w)
    PROVE  /\ KeepsLease(w)
           /\ job' = job /\ sig' \in {sig, Queued} /\ faults' \in 0..MaxFaults
           /\ sig' = sig \/ sig.status = "absent"
           /\ waiting' \subseteq waiting
           /\ UNCHANGED <<enqueueing, upserts, signer, acked, signedBy>>
  <1>1. KeepsLease(w)
    <2>1. ASSUME RenewalRefused(w) \/ StatementFails(w) PROVE KeepsLease(w)
      BY <2>1, LostKeeps DEF RenewalRefused, StatementFails
    <2>2. QED
      BY <2>1, LoadKeeps, AdvanceKeeps, EnsureActiveKeeps, ThrowKeeps, SignKeeps, HandOffKeeps,
         InsertKeeps, HandOffFailsKeeps, CheckpointKeeps, PersistKeeps, SaveKeeps, SaveFailsKeeps
      DEF WorkerStep, WorkerFault
  <1>2. faults \in 0..MaxFaults /\ (Fault => faults' \in 0..MaxFaults)
    BY DurableTrialAssumption DEF IInv, TypeOK, Fault
  <1>3. job' = job /\ sig' \in {sig, Queued} /\ faults' \in 0..MaxFaults
    BY <1>2 DEF WorkerStep, WorkerFault, Load, Advance, EnsureActive, Throw, Sign, HandOff,
       InsertSigningJob, Checkpoint, Persist, Save, RenewalRefused, HandOffFails,
       StatementFails, SaveFails
  <1>4. sig' = sig \/ sig.status = "absent"
    BY DEF WorkerStep, WorkerFault, Load, Advance, EnsureActive, Throw, Sign, HandOff,
       InsertSigningJob, Checkpoint, Persist, Save, RenewalRefused, HandOffFails,
       StatementFails, SaveFails
  <1>5. UNCHANGED <<enqueueing, upserts, signer, acked, signedBy>>
    BY DEF WorkerStep, WorkerFault, Load, Advance, EnsureActive, Throw, Sign, HandOff,
       InsertSigningJob, Checkpoint, Persist, Save, RenewalRefused, HandOffFails,
       StatementFails, SaveFails
  <1>6. waiting' \subseteq waiting
    BY DEF WorkerStep, WorkerFault, Load, Advance, EnsureActive, Throw, Sign, HandOff,
       InsertSigningJob, Checkpoint, Persist, Save, RenewalRefused, HandOffFails,
       StatementFails, SaveFails, Answered
  <1>7. QED
    BY <1>1, <1>3, <1>4, <1>5, <1>6

\* A claim issues the attempt it counts.
LEMMA ClaimMoves ==
    ASSUME IInv, NEW w \in Worker, Claim(w)
    PROVE  /\ \E r : WorkerMove(w, r) /\ r.token = Claimed(job).attempts
           /\ job' \in JobRow
  <1> DEFINE r == [IdleWorker EXCEPT !.pc = "load", !.token = Claimed(job).attempts]
  <1>1. job' \in JobRow /\ Claimed(job).attempts \in 1..MaxAttempts
    BY ClaimedType DEF Claim, IInv, TypeOK
  <1>2. r \in WorkerRecord /\ r.pc = "load" /\ r.token = Claimed(job).attempts
    <2>1. IdleWorker \in WorkerRecord
      BY IdleTypes
    <2>2. Claimed(job).attempts \in 0..MaxAttempts
      BY <1>1, DurableTrialAssumption
    <2>3. QED
      BY <2>1, <2>2 DEF WorkerRecord
  <1>3. WorkerMove(w, r)
    <2> HIDE DEF r
    <2>1. Set(w, r)
      BY DEF Claim, r
    <2>2. r.token # 0
      BY <1>1, <1>2, DurableTrialAssumption
    <2>3. QED
      BY <1>2, <2>1, <2>2 DEF Claim, WorkerMove, NoWrite, IInv, TypeOK
  <1>4. QED
    BY <1>1, <1>2, <1>3

\* A worker that becomes idle gives up its token.
LEMMA IdleMove ==
    ASSUME IInv, NEW w \in Worker, Set(w, IdleWorker), NoWrite
    PROVE  WorkerMove(w, IdleWorker)
  BY IdleTypes DEF WorkerMove, NoWrite, IInv, TypeOK, IdleWorker

\* A finish closes the job only for the holder of its lease; a worker that is
\* refused twice goes idle and leaves the job as it is.
LEMMA FinishMoves ==
    ASSUME IInv, NEW w \in Worker, Finish(w)
    PROVE  /\ job' \in JobRow
           /\ \/ KeepsLease(w) /\ job' = job
              \/ WorkerMove(w, IdleWorker) /\ job' = job /\ worker[w].token # 0
              \/ /\ WorkerMove(w, IdleWorker)
                 /\ Holds(job, worker[w].token)
                 /\ \E status \in {"completed", "failed"} : job' = Close(job, status)
  <1>1. worker[w].pc # "idle" /\ worker[w].token # 0 /\ NoWrite
    BY DEF Finish, IInv, WorkerTokens
  <1>2. CASE Holds(job, worker[w].token)
    <2>1. Set(w, IdleWorker)
      BY <1>2 DEF Finish
    <2>2. PICK status \in {"completed", "failed"} : job' = Close(job, status)
      BY <1>2 DEF Finish
    <2>3. job' \in JobRow
      BY <2>2, CloseType DEF IInv, TypeOK
    <2>4. QED
      BY <1>1, <1>2, <2>1, <2>2, <2>3, IdleMove
  <1>3. CASE ~Holds(job, worker[w].token) /\ worker[w].pc = "fail"
    BY <1>1, <1>3, IdleMove DEF Finish, IInv, TypeOK
  <1>4. CASE ~Holds(job, worker[w].token) /\ worker[w].pc # "fail"
    <2>1. Set(w, [worker[w] EXCEPT !.pc = "fail"]) /\ job' = job
      BY <1>4 DEF Finish
    <2>2. QED
      BY <1>1, <2>1, SaveTypes, JumpKeeps DEF IInv, TypeOK
  <1>5. QED
    BY <1>2, <1>3, <1>4

-----------------------------------------------------------------------------
\* What a step of signer s does, like WorkerMove.
SignerMove(s, r) ==
    /\ SetSigner(s, r)
    /\ r \in SignerRecord
    /\ r.pc = "idle" <=> r.token = 0
    /\ row' \in Snapshot
    /\ signedBy' \in 0..MaxAttempts

KeepsSigning(s) == \E r : SignerMove(s, r) /\ r.token = signer[s].token

\* A signer's move preserves the invariant when the rows it leaves have theirs.
LEMMA SignerMoveInvariant ==
    ASSUME IInv, NEW s \in Signer, NEW r, SignerMove(s, r),
           sig' \in JobRow, faults' \in 0..MaxFaults, waiting' \subseteq waiting,
           UNCHANGED <<job, enqueueing, upserts, worker, acked, writer>>
    PROVE  IInv'
  <1>1. signer' = [signer EXCEPT ![s] = r]
    BY DEF SignerMove, SetSigner
  <1>2. TypeOK'
    BY <1>1 DEF IInv, TypeOK, SignerMove
  <1>3. SignerTokens'
    BY <1>1 DEF IInv, TypeOK, SignerTokens, SignerMove
  <1>4. WorkerTokens' /\ NotYetQueued'
    BY DEF IInv, WorkerTokens, NotYetQueued
  <1>5. QED
    BY <1>2, <1>3, <1>4 DEF IInv

\* A signed and a rejected run are snapshots.
LEMMA SignedTypes ==
    ASSUME NEW run \in Snapshot
    PROVE  Signed(run) \in Snapshot /\ Rejected(run) \in Snapshot
  <1>1. Emit(run, "COMPLETED") \in Snapshot /\ Emit(run, "FAILED") \in Snapshot
    BY EmitType DEF PipelineState
  <1>2. QED
    BY <1>1 DEF Signed, Rejected, Snapshot

\* A step that moves the signer to another statement of the same job.
LEMMA SignerKeeps ==
    ASSUME IInv, NEW s \in Signer, signer[s].pc # "idle",
           NEW pc \in {"save", "finish", "reject", "fail"}, NEW run \in Snapshot,
           SetSigner(s, [signer[s] EXCEPT !.pc = pc, !.run = run]),
           row' \in Snapshot, signedBy' \in 0..MaxAttempts
    PROVE  KeepsSigning(s)
  <1> DEFINE r == [signer[s] EXCEPT !.pc = pc, !.run = run]
  <1>1. signer[s] \in SignerRecord /\ signer[s].token # 0
    BY DEF IInv, TypeOK, SignerTokens
  <1>2. r \in SignerRecord /\ r.pc = pc /\ r.token = signer[s].token
    BY <1>1 DEF SignerRecord
  <1>3. SignerMove(s, r)
    BY <1>1, <1>2 DEF SignerMove
  <1>4. QED
    BY <1>2, <1>3 DEF KeepsSigning

\* saveSignedRun stores a snapshot or nothing.
LEMMA WriteSignedTypes ==
    ASSUME IInv, NEW s \in Signer, WriteSigned(s)
    PROVE  row' \in Snapshot /\ signedBy' \in 0..MaxAttempts
  BY DEF IInv, TypeOK, WriteSigned, SignerRecord

\* The steps of a signer that leave the signing job alone and keep its token.
LEMMA SigningSteps ==
    ASSUME IInv, NEW s \in Signer,
           Finalize(s) \/ SaveSigned(s) \/ SaveRejected(s) \/ SigningFails(s)
    PROVE  KeepsSigning(s)
  <1>1. signer[s] \in SignerRecord /\ row \in Snapshot /\ signedBy \in 0..MaxAttempts
    BY DEF IInv, TypeOK
  <1>2. /\ signer[s].run \in Snapshot
        /\ Signed(row) \in Snapshot /\ Rejected(row) \in Snapshot
        /\ Rejected(signer[s].run) \in Snapshot
    BY <1>1, SignedTypes DEF SignerRecord
  <1>3. signer[s].pc # "idle"
    BY DEF Finalize, SaveSigned, SaveRejected, SigningFails
  <1>4. row' \in Snapshot /\ signedBy' \in 0..MaxAttempts
    BY <1>1, WriteSignedTypes DEF Finalize, SaveSigned, SaveRejected, SigningFails, NoWrite
  <1>5. PICK pc \in {"save", "finish", "reject", "fail"}, run \in Snapshot :
             SetSigner(s, [signer[s] EXCEPT !.pc = pc, !.run = run])
    <2>1. CASE Finalize(s)
      BY <1>2, <2>1 DEF Finalize
    <2>2. CASE SaveSigned(s)
      <3>1. [signer[s] EXCEPT !.pc = "finish"]
              = [signer[s] EXCEPT !.pc = "finish", !.run = signer[s].run]
        BY <1>1 DEF SignerRecord
      <3>2. [signer[s] EXCEPT !.pc = "reject", !.run = Rejected(@)]
              = [signer[s] EXCEPT !.pc = "reject", !.run = Rejected(signer[s].run)]
        BY <1>1 DEF SignerRecord
      <3>3. QED
        BY <1>2, <2>2, <3>1, <3>2 DEF SaveSigned
    <2>3. CASE SaveRejected(s)
      <3>1. [signer[s] EXCEPT !.pc = "fail"]
              = [signer[s] EXCEPT !.pc = "fail", !.run = signer[s].run]
        BY <1>1 DEF SignerRecord
      <3>2. QED
        BY <1>2, <2>3, <3>1 DEF SaveRejected
    <2>4. CASE SigningFails(s)
      <3>1. [signer[s] EXCEPT !.pc = "reject", !.run = Rejected(@)]
              = [signer[s] EXCEPT !.pc = "reject", !.run = Rejected(signer[s].run)]
        BY <1>1 DEF SignerRecord
      <3>2. QED
        BY <1>2, <2>4, <3>1 DEF SigningFails
    <2>5. QED
      BY <2>1, <2>2, <2>3, <2>4
  <1>6. QED
    BY <1>3, <1>4, <1>5, SignerKeeps

\* A claim of the signing job issues the attempt it counts.
LEMMA ClaimSigningMoves ==
    ASSUME IInv, NEW s \in Signer, ClaimSigning(s)
    PROVE  /\ \E r : SignerMove(s, r) /\ r.token = Claimed(sig).attempts
           /\ sig' \in JobRow
  <1> DEFINE r == [IdleSigner EXCEPT !.pc = "load", !.token = Claimed(sig).attempts]
  <1>1. sig' \in JobRow /\ Claimed(sig).attempts \in 1..MaxAttempts
    BY ClaimedType DEF ClaimSigning, IInv, TypeOK
  <1>2. r \in SignerRecord /\ r.pc = "load" /\ r.token = Claimed(sig).attempts
    <2>1. IdleSigner \in SignerRecord
      BY IdleTypes
    <2>2. Claimed(sig).attempts \in 0..MaxAttempts
      BY <1>1, DurableTrialAssumption
    <2>3. QED
      BY <2>1, <2>2 DEF SignerRecord
  <1>3. SignerMove(s, r)
    <2> HIDE DEF r
    <2>1. SetSigner(s, r)
      BY DEF ClaimSigning, r
    <2>2. r.token # 0
      BY <1>1, <1>2, DurableTrialAssumption
    <2>3. QED
      BY <1>2, <2>1, <2>2 DEF ClaimSigning, SignerMove, NoWrite, IInv, TypeOK
  <1>4. QED
    BY <1>1, <1>2, <1>3

\* A signer that becomes idle gives up its token.
LEMMA IdleSignerMove ==
    ASSUME IInv, NEW s \in Signer, SetSigner(s, IdleSigner), NoWrite, signedBy' = signedBy
    PROVE  SignerMove(s, IdleSigner)
  BY IdleTypes DEF SignerMove, NoWrite, IInv, TypeOK, IdleSigner

\* A finish closes the signing job only for the holder of its lease.
LEMMA FinishSigningMoves ==
    ASSUME IInv, NEW s \in Signer, FinishSigning(s)
    PROVE  /\ sig' \in JobRow
           /\ \/ KeepsSigning(s) /\ sig' = sig
              \/ SignerMove(s, IdleSigner) /\ sig' = sig /\ signer[s].token # 0
              \/ /\ SignerMove(s, IdleSigner)
                 /\ Holds(sig, signer[s].token)
                 /\ \E status \in {"completed", "failed"} : sig' = Close(sig, status)
  <1>1. /\ signer[s] \in SignerRecord
        /\ signer[s].pc # "idle" /\ signer[s].token # 0
        /\ NoWrite /\ signedBy' = signedBy
    BY DEF FinishSigning, IInv, TypeOK, SignerTokens
  <1>2. CASE Holds(sig, signer[s].token)
    <2>1. SetSigner(s, IdleSigner)
      BY <1>2 DEF FinishSigning
    <2>2. PICK status \in {"completed", "failed"} : sig' = Close(sig, status)
      BY <1>2 DEF FinishSigning
    <2>3. sig' \in JobRow
      BY <2>2, CloseType DEF IInv, TypeOK
    <2>4. QED
      BY <1>1, <1>2, <2>1, <2>2, <2>3, IdleSignerMove
  <1>3. CASE ~Holds(sig, signer[s].token) /\ signer[s].pc = "fail"
    BY <1>1, <1>3, IdleSignerMove DEF FinishSigning, IInv, TypeOK
  <1>4. CASE ~Holds(sig, signer[s].token) /\ signer[s].pc # "fail"
    <2>1. [signer[s] EXCEPT !.pc = "reject", !.run = Rejected(@)]
            = [signer[s] EXCEPT !.pc = "reject", !.run = Rejected(signer[s].run)]
      BY <1>1 DEF SignerRecord
    <2>2. SetSigner(s, [signer[s] EXCEPT !.pc = "reject", !.run = Rejected(signer[s].run)])
      BY <1>4, <2>1 DEF FinishSigning
    <2>3. Rejected(signer[s].run) \in Snapshot
      BY <1>1, SignedTypes DEF SignerRecord
    <2>4. KeepsSigning(s)
      BY <1>1, <2>2, <2>3, SignerKeeps DEF NoWrite, IInv, TypeOK
    <2>5. QED
      BY <1>4, <2>4 DEF FinishSigning, IInv, TypeOK
  <1>5. QED
    BY <1>2, <1>3, <1>4

-----------------------------------------------------------------------------
\* The steps of the web process and of the clock touch no process memory.
LEMMA SharedSteps ==
    ASSUME IInv, Web \/ FailExhausted \/ LeaseExpires \/ SigningLeaseExpires
    PROVE  IInv'
  <1>1. /\ row \in Snapshot /\ job \in JobRow /\ sig \in JobRow
        /\ faults \in 0..MaxFaults /\ upserts \subseteq {Created, Emit(Created, "FAILED")}
    BY DEF IInv, TypeOK
  <1>2. Created \in Snapshot /\ Emit(Created, "FAILED") \in Snapshot
    BY CreatedType, EmitType DEF PipelineState
  <1>3. UNCHANGED <<worker, signer, writer, signedBy>>
    BY DEF Web, Enqueue, EnqueueRefused, EnqueueUnacknowledged, Cancel, Upsert,
           FailExhausted, LeaseExpires, SigningLeaseExpires, NoWrite
  <1>4. row' \in Snapshot
    <2>1. CASE Cancel
      <3>1. Emit(row, "CANCELLED") \in Snapshot
        BY <1>1, EmitType DEF PipelineState
      <3>2. QED
        BY <2>1, <3>1 DEF Cancel, Snapshot
    <2>2. CASE FailExhausted
      BY <1>1, <2>2 DEF FailExhausted, Snapshot, PipelineState
    <2>3. CASE \E u \in upserts : Upsert(u)
      BY <1>1, <1>2, <2>3 DEF Upsert
    <2>4. CASE Enqueue \/ EnqueueRefused \/ EnqueueUnacknowledged
      BY <1>1, <1>2, <2>4 DEF Enqueue, EnqueueRefused, EnqueueUnacknowledged
    <2>5. CASE LeaseExpires \/ SigningLeaseExpires
      BY <1>1, <2>5 DEF LeaseExpires, SigningLeaseExpires, NoWrite
    <2>6. QED
      BY <2>1, <2>2, <2>3, <2>4, <2>5 DEF Web
  <1>5. job' \in JobRow /\ sig' \in JobRow
    <2>1. \A s \in {"completed", "failed", "cancelled"} : Close(job, s) \in JobRow
      BY <1>1, CloseType
    <2>2. [job EXCEPT !.live = FALSE] \in JobRow /\ [sig EXCEPT !.live = FALSE] \in JobRow
      BY <1>1 DEF JobRow
    <2>3. CancelledJob(job) \in JobRow /\ CancelledJob(sig) \in JobRow /\ Queued \in JobRow
      BY <1>1, CloseType, NewJobTypes
    <2>4. QED
      BY <1>1, <2>1, <2>2, <2>3
      DEF Web, Enqueue, EnqueueRefused, EnqueueUnacknowledged, Cancel, Upsert,
          FailExhausted, LeaseExpires, SigningLeaseExpires
  <1>6. /\ enqueueing' \in BOOLEAN
        /\ acked' \in {"none", "early", "late"}
        /\ upserts' \subseteq {Created, Emit(Created, "FAILED")}
    BY <1>1 DEF Web, Enqueue, EnqueueRefused, EnqueueUnacknowledged, Cancel, Upsert,
           FailExhausted, LeaseExpires, SigningLeaseExpires, IInv, TypeOK
  <1>7. faults' \in 0..MaxFaults
    BY <1>1, DurableTrialAssumption
    DEF Web, Enqueue, EnqueueRefused, EnqueueUnacknowledged, Cancel, Upsert, Fault,
        FailExhausted, LeaseExpires, SigningLeaseExpires
  <1>8. NotYetQueued'
    <2>1. CASE Enqueue \/ EnqueueRefused \/ EnqueueUnacknowledged
      BY <2>1 DEF Enqueue, EnqueueRefused, EnqueueUnacknowledged, NotYetQueued
    <2>2. CASE Cancel
      <3>1. job = NoJob => CancelledJob(job) = job
        BY DEF CancelledJob, NoJob
      <3>2. QED
        BY <2>2, <3>1 DEF Cancel, IInv, NotYetQueued
    <2>3. CASE FailExhausted \/ LeaseExpires
      <3>1. job.status = "running" /\ enqueueing' = enqueueing
        BY <2>3 DEF FailExhausted, Exhausted, LeaseExpires
      <3>2. ~enqueueing
        BY <3>1 DEF IInv, NotYetQueued, NoJob
      <3>3. QED
        BY <3>1, <3>2 DEF NotYetQueued
    <2>4. CASE SigningLeaseExpires \/ \E u \in upserts : Upsert(u)
      BY <2>4 DEF SigningLeaseExpires, Upsert, IInv, NotYetQueued
    <2>5. QED
      BY <2>1, <2>2, <2>3, <2>4 DEF Web
  <1>9. waiting' \subseteq Worker \cup Signer
    BY DEF Web, Enqueue, EnqueueRefused, EnqueueUnacknowledged, Cancel, Saving, Upsert,
           FailExhausted, LeaseExpires, SigningLeaseExpires, IInv, TypeOK
  <1>10. QED
    BY <1>3, <1>4, <1>5, <1>6, <1>7, <1>8, <1>9 DEF IInv, TypeOK, WorkerTokens, SignerTokens

\* The invariant holds initially.
LEMMA InitInvariant == Init => IInv
  <1> SUFFICES ASSUME Init PROVE IInv
    OBVIOUS
  <1>1. row \in Snapshot /\ job \in JobRow /\ sig \in JobRow
    BY CreatedType, NewJobTypes DEF Init
  <1>2. worker \in [Worker -> WorkerRecord] /\ signer \in [Signer -> SignerRecord]
    BY IdleTypes DEF Init
  <1>3. /\ enqueueing \in BOOLEAN /\ upserts \subseteq {Created, Emit(Created, "FAILED")}
        /\ acked \in {"none", "early", "late"} /\ waiting \subseteq Worker \cup Signer
    BY DEF Init
  <1>4. writer \in 0..MaxAttempts /\ signedBy \in 0..MaxAttempts /\ faults \in 0..MaxFaults
    BY DurableTrialAssumption DEF Init
  <1>5. WorkerTokens /\ SignerTokens /\ NotYetQueued
    BY DEF Init, WorkerTokens, SignerTokens, NotYetQueued, IdleWorker, IdleSigner
  <1>6. QED
    BY <1>1, <1>2, <1>3, <1>4, <1>5 DEF IInv, TypeOK

\* Every step preserves the invariant.
LEMMA NextInvariant == IInv /\ [Next]_vars => IInv'
  <1> SUFFICES ASSUME IInv, [Next]_vars PROVE IInv'
    OBVIOUS
  <1>0. /\ job \in JobRow /\ sig \in JobRow /\ Queued \in JobRow
        /\ faults \in 0..MaxFaults /\ (Fault => faults' \in 0..MaxFaults)
    BY NewJobTypes, DurableTrialAssumption DEF IInv, TypeOK, Fault
  <1>1. CASE Web \/ FailExhausted \/ LeaseExpires \/ SigningLeaseExpires
    BY <1>1, SharedSteps
  <1>2. ASSUME NEW w \in Worker, Claim(w) PROVE IInv'
    <2>1. ~enqueueing
      BY <1>2 DEF IInv, NotYetQueued, Claim, Claimable, NoJob
    <2>2. QED
      BY <1>0, <1>2, <2>1, ClaimMoves, WorkerMoveInvariant DEF Claim
  <1>3. ASSUME NEW w \in Worker, WorkerStep(w) \/ WorkerFault(w), ~Finish(w), ~WorkerCrash(w)
        PROVE IInv'
    BY <1>0, <1>3, KeepingSteps, WorkerMoveInvariant DEF KeepsLease
  <1>4. ASSUME NEW w \in Worker, Finish(w) PROVE IInv'
    <2>1. PICK r : WorkerMove(w, r)
      BY <1>4, FinishMoves DEF KeepsLease
    <2>2. job' \in JobRow /\ (~enqueueing \/ job' = job)
      <3>1. ~(NoJob.live)
        BY DEF NoJob
      <3>2. QED
        BY <1>4, <3>1, FinishMoves DEF IInv, NotYetQueued, Holds
    <2>3. QED
      BY <1>0, <1>4, <2>1, <2>2, WorkerMoveInvariant DEF Finish
  <1>5. ASSUME NEW w \in Worker, WorkerCrash(w) PROVE IInv'
    <2>1. WorkerMove(w, IdleWorker)
      BY <1>5, IdleMove DEF WorkerCrash
    <2>2. QED
      BY <1>0, <1>5, <2>1, WorkerMoveInvariant DEF WorkerCrash, Answered
  <1>6. ASSUME NEW s \in Signer, ClaimSigning(s) PROVE IInv'
    BY <1>0, <1>6, ClaimSigningMoves, SignerMoveInvariant DEF ClaimSigning, NoWrite
  <1>7. ASSUME NEW s \in Signer,
               Finalize(s) \/ SaveSigned(s) \/ SaveRejected(s) \/ SigningFails(s)
        PROVE IInv'
    BY <1>0, <1>7, SigningSteps, SignerMoveInvariant
    DEF KeepsSigning, Finalize, SaveSigned, SaveRejected, SigningFails, NoWrite, Answered
  <1>8. ASSUME NEW s \in Signer, FinishSigning(s) PROVE IInv'
    <2>1. PICK r : SignerMove(s, r)
      BY <1>8, FinishSigningMoves DEF KeepsSigning
    <2>2. QED
      BY <1>0, <1>8, <2>1, FinishSigningMoves, SignerMoveInvariant DEF FinishSigning, NoWrite
  <1>9. ASSUME NEW s \in Signer, SignerCrash(s) PROVE IInv'
    <2>1. SignerMove(s, IdleSigner)
      BY <1>9, IdleSignerMove DEF SignerCrash
    <2>2. QED
      BY <1>0, <1>9, <2>1, SignerMoveInvariant DEF SignerCrash, NoWrite, Answered
  <1>10. CASE UNCHANGED vars
    BY <1>10 DEF vars, IInv, TypeOK, WorkerTokens, SignerTokens, NotYetQueued
  <1>11. QED
    BY <1>1, <1>2, <1>3, <1>4, <1>5, <1>6, <1>7, <1>8, <1>9, <1>10
    DEF Next, WorkerStep, WorkerFault, SignerStep, SignerFault

\* The inductive invariant holds in every reachable state.
THEOREM Invariance == Spec => []IInv
  BY InitInvariant, NextInvariant, PTL DEF Spec

\* The rows, the memories and the histories keep their types, and attempts and
\* tokens the budget of the claim statements.
THEOREM TypeCorrect == Spec => []TypeOK
  <1>1. IInv => TypeOK
    BY DEF IInv
  <1>2. QED
    BY <1>1, Invariance, PTL

-----------------------------------------------------------------------------
\* The job table implements FencedLease.

Tokens == [w \in Worker |-> worker[w].token]

\* What a worker's move does to the tokens held.
LEMMA MoveTokens ==
    ASSUME IInv, NEW w \in Worker, NEW r, WorkerMove(w, r)
    PROVE  Tokens' = [Tokens EXCEPT ![w] = r.token]
  BY DEF IInv, TypeOK, WorkerMove, Set, Tokens

\* A step that keeps the lease leaves the tokens as they are.
LEMMA KeepTokens ==
    ASSUME IInv, NEW w \in Worker, KeepsLease(w) PROVE Tokens' = Tokens
  <1>1. PICK r : WorkerMove(w, r) /\ r.token = worker[w].token
    BY DEF KeepsLease
  <1>2. Tokens' = [Tokens EXCEPT ![w] = worker[w].token]
    BY <1>1, MoveTokens
  <1>3. QED
    BY <1>2 DEF Tokens

\* The table starts without a row.
LEMMA JobTableInit == Init => JobTable!Init
  BY DEF Init, JobTable!Init, NoJob, IdleWorker

\* Every step is a step of the fenced lease of the job, or leaves it alone.
LEMMA JobTableStep == IInv /\ [Next]_vars => [JobTable!Next]_(JobTable!vars)
  <1> SUFFICES ASSUME IInv, [Next]_vars PROVE [JobTable!Next]_(JobTable!vars)
    OBVIOUS
  <1>0. job \in JobRow /\ worker \in [Worker -> WorkerRecord]
    BY DEF IInv, TypeOK
  <1>s. ASSUME job' = job, Tokens' = Tokens PROVE UNCHANGED JobTable!vars
    BY <1>s DEF JobTable!vars, Tokens
  <1>1. CASE Enqueue \/ EnqueueUnacknowledged
    <2>1. job = NoJob /\ job' = Queued /\ Tokens' = Tokens
      BY <1>1 DEF Enqueue, EnqueueUnacknowledged, IInv, NotYetQueued, Tokens
    <2>2. JobTable!Enqueue
      BY <2>1 DEF JobTable!Enqueue, NoJob, Queued, Tokens
    <2>3. QED
      BY <2>2 DEF JobTable!Next
  <1>2. CASE EnqueueRefused \/ SigningLeaseExpires \/ \E u \in upserts : Upsert(u)
    BY <1>2, <1>s DEF EnqueueRefused, SigningLeaseExpires, Upsert, Tokens
  <1>3. CASE Cancel
    <2>1. job' = CancelledJob(job) /\ Tokens' = Tokens
      BY <1>3 DEF Cancel, Tokens
    <2>2. CASE job.status \in {"queued", "running"}
      <3>1. /\ job'.status = "cancelled" /\ job'.live = FALSE
            /\ job'.attempts = job.attempts
        BY <1>0, <2>1, <2>2 DEF CancelledJob, Close, JobRow
      <3>2. JobTable!Cancel
        BY <2>1, <2>2, <3>1 DEF JobTable!Cancel, JobTable!Open, Tokens
      <3>3. QED
        BY <3>2 DEF JobTable!Next
    <2>3. CASE job.status \notin {"queued", "running"}
      BY <1>s, <2>1, <2>3 DEF CancelledJob
    <2>4. QED
      BY <2>2, <2>3
  <1>4. CASE FailExhausted
    <2>1. Exhausted(job) /\ job' = Close(job, "failed") /\ Tokens' = Tokens
      BY <1>4 DEF FailExhausted, Tokens
    <2>2. /\ job'.status = "failed" /\ job'.live = job.live
          /\ job'.attempts = job.attempts
      BY <1>0, <2>1 DEF Close, JobRow, Exhausted
    <2>3. JobTable!Exhaust
      BY <2>1, <2>2 DEF JobTable!Exhaust, Exhausted, Tokens
    <2>4. QED
      BY <2>3 DEF JobTable!Next
  <1>5. CASE LeaseExpires
    <2>1. /\ job.status = "running" /\ job.live /\ Tokens' = Tokens
          /\ job' = [job EXCEPT !.live = FALSE]
      BY <1>5 DEF LeaseExpires, Tokens
    <2>2. /\ job'.status = job.status /\ job'.live = FALSE
          /\ job'.attempts = job.attempts
      BY <1>0, <2>1 DEF JobRow
    <2>3. JobTable!Expire
      BY <2>1, <2>2 DEF JobTable!Expire, Tokens
    <2>4. QED
      BY <2>3 DEF JobTable!Next
  <1>6. ASSUME NEW w \in Worker, Claim(w) PROVE JobTable!Claim(w)
    <2>1. PICK r : WorkerMove(w, r) /\ r.token = Claimed(job).attempts
      BY <1>6, ClaimMoves
    <2>2. Tokens' = [Tokens EXCEPT ![w] = job.attempts + 1]
      BY <2>1, MoveTokens DEF Claimed
    <2>3. /\ worker[w].token = 0 /\ Claimable(job) /\ job' = Claimed(job)
      BY <1>6 DEF Claim, IInv, WorkerTokens
    <2>4. /\ job'.status = "running" /\ job'.live = TRUE
          /\ job'.attempts = job.attempts + 1
      BY <2>3 DEF Claimed
    <2>5. QED
      BY <2>2, <2>3, <2>4 DEF JobTable!Claim, JobTable!Claimable, JobTable!NextToken,
         Claimable, Tokens
  <1>7. ASSUME NEW w \in Worker, WorkerStep(w) \/ WorkerFault(w), ~Finish(w), ~WorkerCrash(w)
        PROVE UNCHANGED JobTable!vars
    BY <1>7, <1>s, KeepingSteps, KeepTokens
  <1>d. ASSUME NEW w \in Worker, WorkerMove(w, IdleWorker), job' = job, worker[w].token # 0
        PROVE JobTable!Drop(w)
    <2>1. Tokens' = [Tokens EXCEPT ![w] = 0]
      BY <1>d, MoveTokens DEF IdleWorker
    <2>2. QED
      BY <1>d, <2>1 DEF JobTable!Drop, Tokens
  <1>8. ASSUME NEW w \in Worker, Finish(w) PROVE [JobTable!Next]_(JobTable!vars)
    <2>1. CASE KeepsLease(w) /\ job' = job
      BY <1>s, <2>1, KeepTokens
    <2>2. CASE WorkerMove(w, IdleWorker) /\ job' = job /\ worker[w].token # 0
      BY <1>d, <2>2 DEF JobTable!Next
    <2>3. CASE /\ WorkerMove(w, IdleWorker)
               /\ Holds(job, worker[w].token)
               /\ \E status \in {"completed", "failed"} : job' = Close(job, status)
      <3>1. Tokens' = [Tokens EXCEPT ![w] = 0]
        BY <2>3, MoveTokens DEF IdleWorker
      <3>2. /\ job'.status \in {"completed", "failed"} /\ job'.live = FALSE
            /\ job'.attempts = job.attempts
        BY <1>0, <2>3 DEF Close, JobRow
      <3>3. JobTable!Finish(w)
        BY <2>3, <3>1, <3>2 DEF JobTable!Finish, JobTable!Holds, Holds, Tokens
      <3>4. QED
        BY <3>3 DEF JobTable!Next
    <2>4. QED
      BY <1>8, <2>1, <2>2, <2>3, FinishMoves
  <1>9. ASSUME NEW w \in Worker, WorkerCrash(w) PROVE JobTable!Drop(w)
    <2>1. WorkerMove(w, IdleWorker) /\ job' = job /\ worker[w].token # 0
      BY <1>9, IdleMove DEF WorkerCrash, IInv, WorkerTokens
    <2>2. QED
      BY <1>d, <2>1
  <1>10. ASSUME NEW s \in Signer, ClaimSigning(s) \/ SignerStep(s) \/ SignerFault(s)
         PROVE UNCHANGED JobTable!vars
    <2>1. job' = job /\ worker' = worker
      BY <1>10 DEF ClaimSigning, SignerStep, SignerFault, Finalize, SaveSigned, SaveRejected,
         FinishSigning, SigningFails, SignerCrash
    <2>2. QED
      BY <1>s, <2>1 DEF Tokens
  <1>11. CASE UNCHANGED vars
    BY <1>s, <1>11 DEF vars, Tokens
  <1>12. QED
    BY <1>1, <1>2, <1>3, <1>4, <1>5, <1>6, <1>7, <1>8, <1>9, <1>10, <1>11
    DEF Next, Web, WorkerStep, WorkerFault, JobTable!Next

\* The statements of the web process and of the workers use agenttrial_jobs as
\* a fenced lease.
THEOREM JobTableImplements == Spec => JobTableSpec
  BY JobTableInit, JobTableStep, Invariance, PTL DEF Spec, JobTableSpec, JobTable!Spec

-----------------------------------------------------------------------------
\* The signing table implements FencedLease.

SigningTokens == [s \in Signer |-> signer[s].token]

\* What a signer's move does to the signing tokens held.
LEMMA MoveSigningTokens ==
    ASSUME IInv, NEW s \in Signer, NEW r, SignerMove(s, r)
    PROVE  SigningTokens' = [SigningTokens EXCEPT ![s] = r.token]
  BY DEF IInv, TypeOK, SignerMove, SetSigner, SigningTokens

\* A step that keeps the signing lease leaves the tokens as they are.
LEMMA KeepSigningTokens ==
    ASSUME IInv, NEW s \in Signer, KeepsSigning(s) PROVE SigningTokens' = SigningTokens
  <1>1. PICK r : SignerMove(s, r) /\ r.token = signer[s].token
    BY DEF KeepsSigning
  <1>2. SigningTokens' = [SigningTokens EXCEPT ![s] = signer[s].token]
    BY <1>1, MoveSigningTokens
  <1>3. QED
    BY <1>2 DEF SigningTokens

\* The table starts without a row.
LEMMA SigningTableInit == Init => SigningTable!Init
  BY DEF Init, SigningTable!Init, NoJob, IdleSigner

\* A row is inserted only where there is none.
LEMMA InsertedOnce ==
    ASSUME IInv, sig' \in {sig, Queued}, sig' = sig \/ sig.status = "absent",
           sig.status = "absent" => sig = NoJob, SigningTokens' = SigningTokens
    PROVE  [SigningTable!Next]_(SigningTable!vars)
  <1>1. CASE sig' = sig
    BY <1>1 DEF SigningTable!vars, SigningTokens
  <1>2. CASE sig' = Queued /\ sig = NoJob
    <2>1. SigningTable!Enqueue
      BY <1>2 DEF SigningTable!Enqueue, NoJob, Queued, SigningTokens
    <2>2. QED
      BY <2>1 DEF SigningTable!Next
  <1>3. QED
    BY <1>1, <1>2

\* Every step is a step of the fenced lease of the signing job, or leaves it
\* alone.
LEMMA SigningTableStep ==
    IInv /\ (sig.status = "absent" => sig = NoJob) /\ [Next]_vars
      => [SigningTable!Next]_(SigningTable!vars)
  <1> SUFFICES ASSUME IInv, sig.status = "absent" => sig = NoJob, [Next]_vars
               PROVE  [SigningTable!Next]_(SigningTable!vars)
    OBVIOUS
  <1>0. sig \in JobRow /\ signer \in [Signer -> SignerRecord]
    BY DEF IInv, TypeOK
  <1>s. ASSUME sig' = sig, SigningTokens' = SigningTokens PROVE UNCHANGED SigningTable!vars
    BY <1>s DEF SigningTable!vars, SigningTokens
  <1>1. CASE \/ Enqueue \/ EnqueueUnacknowledged \/ EnqueueRefused
             \/ FailExhausted \/ LeaseExpires \/ \E u \in upserts : Upsert(u)
    BY <1>1, <1>s DEF Enqueue, EnqueueUnacknowledged, EnqueueRefused, FailExhausted,
       LeaseExpires, Upsert, SigningTokens
  <1>2. CASE Cancel
    <2>1. sig' = CancelledJob(sig) /\ SigningTokens' = SigningTokens
      BY <1>2 DEF Cancel, SigningTokens
    <2>2. CASE sig.status \in {"queued", "running"}
      <3>1. /\ sig'.status = "cancelled" /\ sig'.live = FALSE
            /\ sig'.attempts = sig.attempts
        BY <1>0, <2>1, <2>2 DEF CancelledJob, Close, JobRow
      <3>2. SigningTable!Cancel
        BY <2>1, <2>2, <3>1 DEF SigningTable!Cancel, SigningTable!Open, SigningTokens
      <3>3. QED
        BY <3>2 DEF SigningTable!Next
    <2>3. CASE sig.status \notin {"queued", "running"}
      BY <1>s, <2>1, <2>3 DEF CancelledJob
    <2>4. QED
      BY <2>2, <2>3
  <1>3. CASE SigningLeaseExpires
    <2>1. /\ sig.status = "running" /\ sig.live /\ SigningTokens' = SigningTokens
          /\ sig' = [sig EXCEPT !.live = FALSE]
      BY <1>3 DEF SigningLeaseExpires, SigningTokens
    <2>2. /\ sig'.status = sig.status /\ sig'.live = FALSE
          /\ sig'.attempts = sig.attempts
      BY <1>0, <2>1 DEF JobRow
    <2>3. SigningTable!Expire
      BY <2>1, <2>2 DEF SigningTable!Expire, SigningTokens
    <2>4. QED
      BY <2>3 DEF SigningTable!Next
  <1>4. ASSUME NEW w \in Worker, Claim(w) \/ Finish(w) \/ WorkerCrash(w)
        PROVE UNCHANGED SigningTable!vars
    BY <1>4, <1>s DEF Claim, Finish, WorkerCrash, SigningTokens
  <1>5. ASSUME NEW w \in Worker, WorkerStep(w) \/ WorkerFault(w), ~Finish(w), ~WorkerCrash(w)
        PROVE [SigningTable!Next]_(SigningTable!vars)
    <2>1. signer' = signer /\ sig' \in {sig, Queued} /\ (sig' = sig \/ sig.status = "absent")
      BY <1>5, KeepingSteps
    <2>2. QED
      BY <2>1, InsertedOnce DEF SigningTokens
  <1>6. ASSUME NEW s \in Signer, ClaimSigning(s) PROVE SigningTable!Claim(s)
    <2>1. PICK r : SignerMove(s, r) /\ r.token = Claimed(sig).attempts
      BY <1>6, ClaimSigningMoves
    <2>2. SigningTokens' = [SigningTokens EXCEPT ![s] = sig.attempts + 1]
      BY <2>1, MoveSigningTokens DEF Claimed
    <2>3. signer[s].token = 0 /\ Claimable(sig) /\ sig' = Claimed(sig)
      BY <1>6 DEF ClaimSigning, IInv, SignerTokens
    <2>4. /\ sig'.status = "running" /\ sig'.live = TRUE
          /\ sig'.attempts = sig.attempts + 1
      BY <2>3 DEF Claimed
    <2>5. QED
      BY <2>2, <2>3, <2>4 DEF SigningTable!Claim, SigningTable!Claimable,
         SigningTable!NextToken, Claimable, SigningTokens
  <1>7. ASSUME NEW s \in Signer,
               Finalize(s) \/ SaveSigned(s) \/ SaveRejected(s) \/ SigningFails(s)
        PROVE UNCHANGED SigningTable!vars
    <2>1. sig' = sig
      BY <1>7 DEF Finalize, SaveSigned, SaveRejected, SigningFails
    <2>2. QED
      BY <1>7, <1>s, <2>1, SigningSteps, KeepSigningTokens
  <1>d. ASSUME NEW s \in Signer, SignerMove(s, IdleSigner), sig' = sig, signer[s].token # 0
        PROVE SigningTable!Drop(s)
    <2>1. SigningTokens' = [SigningTokens EXCEPT ![s] = 0]
      BY <1>d, MoveSigningTokens DEF IdleSigner
    <2>2. QED
      BY <1>d, <2>1 DEF SigningTable!Drop, SigningTokens
  <1>8. ASSUME NEW s \in Signer, FinishSigning(s)
        PROVE [SigningTable!Next]_(SigningTable!vars)
    <2>1. CASE KeepsSigning(s) /\ sig' = sig
      BY <1>s, <2>1, KeepSigningTokens
    <2>2. CASE SignerMove(s, IdleSigner) /\ sig' = sig /\ signer[s].token # 0
      BY <1>d, <2>2 DEF SigningTable!Next
    <2>3. CASE /\ SignerMove(s, IdleSigner)
               /\ Holds(sig, signer[s].token)
               /\ \E status \in {"completed", "failed"} : sig' = Close(sig, status)
      <3>1. SigningTokens' = [SigningTokens EXCEPT ![s] = 0]
        BY <2>3, MoveSigningTokens DEF IdleSigner
      <3>2. /\ sig'.status \in {"completed", "failed"} /\ sig'.live = FALSE
            /\ sig'.attempts = sig.attempts
        BY <1>0, <2>3 DEF Close, JobRow
      <3>3. SigningTable!Finish(s)
        BY <2>3, <3>1, <3>2 DEF SigningTable!Finish, SigningTable!Holds, Holds, SigningTokens
      <3>4. QED
        BY <3>3 DEF SigningTable!Next
    <2>4. QED
      BY <1>8, <2>1, <2>2, <2>3, FinishSigningMoves
  <1>9. ASSUME NEW s \in Signer, SignerCrash(s) PROVE SigningTable!Drop(s)
    <2>1. SignerMove(s, IdleSigner) /\ sig' = sig /\ signer[s].token # 0
      BY <1>9, IdleSignerMove DEF SignerCrash, IInv, SignerTokens
    <2>2. QED
      BY <1>d, <2>1
  <1>10. CASE UNCHANGED vars
    BY <1>s, <1>10 DEF vars, SigningTokens
  <1>11. QED
    BY <1>1, <1>2, <1>3, <1>4, <1>5, <1>6, <1>7, <1>8, <1>9, <1>10
    DEF Next, Web, WorkerStep, WorkerFault, SignerStep, SignerFault, SigningTable!Next

\* A signing row that is absent has never been written.
LEMMA AbsentInvariant ==
    IInv /\ (sig.status = "absent" => sig = NoJob) /\ [Next]_vars
      => (sig.status = "absent" => sig = NoJob)'
  <1> SUFFICES ASSUME IInv, sig.status = "absent" => sig = NoJob, [Next]_vars,
                      sig'.status = "absent"
               PROVE  sig' = NoJob
    OBVIOUS
  <1>1. [SigningTable!Next]_(SigningTable!vars)
    BY SigningTableStep
  <1>2. /\ sig.status = "absent"
        /\ sig'.attempts = sig.attempts /\ sig'.live = sig.live
    BY <1>1 DEF SigningTable!Next, SigningTable!vars, SigningTable!Enqueue, SigningTable!Expire,
       SigningTable!Cancel, SigningTable!Exhaust, SigningTable!Claim, SigningTable!Renew,
       SigningTable!Holds, SigningTable!Finish, SigningTable!Drop
  <1>3. sig'.attempts = 0 /\ sig'.live = FALSE
    BY <1>2 DEF NoJob
  <1>4. sig' \in JobRow
    BY NextInvariant DEF IInv, TypeOK
  <1>5. QED
    BY <1>3, <1>4 DEF JobRow, NoJob

\* The statements of the hand-off, the cancellation and the signers use
\* agenttrial_signing_jobs as a fenced lease.
THEOREM SigningTableImplements == Spec => SigningTableSpec
  <1>1. Init => (sig.status = "absent" => sig = NoJob)
    BY DEF Init
  <1>2. Spec => [](sig.status = "absent" => sig = NoJob)
    BY <1>1, AbsentInvariant, Invariance, PTL DEF Spec
  <1>3. QED
    BY <1>2, SigningTableInit, SigningTableStep, Invariance, PTL
    DEF Spec, SigningTableSpec, SigningTable!Spec

-----------------------------------------------------------------------------
\* What the two tables inherit from FencedLease.

JobLease == INSTANCE FencedLeaseProofs WITH
    Holder <- Worker, Exhaustible <- TRUE,
    status <- job.status, attempts <- job.attempts, live <- job.live,
    held <- [w \in Worker |-> worker[w].token]

\* At most one worker passes the fence of agenttrial_jobs, whatever expires,
\* stalls or crashes.
THEOREM ExecutorIsUnique == Spec => []OneExecutor
  <1>0. JobLease!FencedLeaseAssumption
    BY DurableTrialAssumption DEF JobLease!FencedLeaseAssumption
  <1>1. JobTable!Init => JobLease!Init
    BY DEF JobTable!Init, JobLease!Init
  <1>2. [JobTable!Next]_(JobTable!vars) => [JobLease!Next]_(JobLease!vars)
    BY DEF JobTable!Next, JobTable!vars, JobTable!Enqueue, JobTable!Expire,
       JobTable!Cancel, JobTable!Exhaust, JobTable!Claim, JobTable!Renew, JobTable!Finish,
       JobTable!Drop, JobTable!Holds, JobTable!Claimable, JobTable!NextToken,
       JobTable!Open,
       JobLease!Next, JobLease!vars, JobLease!Enqueue, JobLease!Expire,
       JobLease!Cancel, JobLease!Exhaust, JobLease!Claim, JobLease!Renew, JobLease!Finish,
       JobLease!Drop, JobLease!Holds, JobLease!Claimable, JobLease!NextToken,
       JobLease!Open
  <1>3. JobLease!OneHolder => OneExecutor
    BY DEF JobLease!OneHolder, JobLease!Holds, OneExecutor, Holds
  <1>4. JobLease!Spec => []JobLease!OneHolder
    BY <1>0, JobLease!MutualExclusion
  <1>5. QED
    BY <1>1, <1>2, <1>3, <1>4, JobTableImplements, PTL
    DEF JobTableSpec, JobTable!Spec, JobLease!Spec

SigningLease == INSTANCE FencedLeaseProofs WITH
    Holder <- Signer, Exhaustible <- FALSE,
    status <- sig.status, attempts <- sig.attempts, live <- sig.live,
    held <- [s \in Signer |-> signer[s].token]

\* At most one signer passes the fence of agenttrial_signing_jobs.
THEOREM SignerIsUnique == Spec => []OneSigner
  <1>0. SigningLease!FencedLeaseAssumption
    BY DurableTrialAssumption DEF SigningLease!FencedLeaseAssumption
  <1>1. SigningTable!Init => SigningLease!Init
    BY DEF SigningTable!Init, SigningLease!Init
  <1>2. [SigningTable!Next]_(SigningTable!vars) => [SigningLease!Next]_(SigningLease!vars)
    BY DEF SigningTable!Next, SigningTable!vars, SigningTable!Enqueue, SigningTable!Expire,
       SigningTable!Cancel, SigningTable!Exhaust, SigningTable!Claim, SigningTable!Renew, SigningTable!Finish,
       SigningTable!Drop, SigningTable!Holds, SigningTable!Claimable, SigningTable!NextToken,
       SigningTable!Open,
       SigningLease!Next, SigningLease!vars, SigningLease!Enqueue, SigningLease!Expire,
       SigningLease!Cancel, SigningLease!Exhaust, SigningLease!Claim, SigningLease!Renew, SigningLease!Finish,
       SigningLease!Drop, SigningLease!Holds, SigningLease!Claimable, SigningLease!NextToken,
       SigningLease!Open
  <1>3. SigningLease!OneHolder => OneSigner
    BY DEF SigningLease!OneHolder, SigningLease!Holds, OneSigner, Holds
  <1>4. SigningLease!Spec => []SigningLease!OneHolder
    BY <1>0, SigningLease!MutualExclusion
  <1>5. QED
    BY <1>1, <1>2, <1>3, <1>4, SigningTableImplements, PTL
    DEF SigningTableSpec, SigningTable!Spec, SigningLease!Spec

-----------------------------------------------------------------------------
\* The order of writes.

\* A save that waits was begun by the holder of a lease that its cancellation has
\* closed for good.
WaitsClosed ==
    /\ \A w \in Worker \cap waiting :
          job.status = "cancelled" /\ worker[w].token = job.attempts
    /\ \A s \in Signer \cap waiting :
          /\ sig.status = "cancelled" /\ signer[s].token = sig.attempts
          /\ signer[s].pc \in {"save", "reject"}

\* A cancelled job row stays as it is.
LEMMA CancelledRows ==
    ASSUME IInv, Next
    PROVE  /\ job.status = "cancelled" =>
                 job'.status = "cancelled" /\ job'.attempts = job.attempts
           /\ sig.status = "cancelled" =>
                 sig'.status = "cancelled" /\ sig'.attempts = sig.attempts
  <1>1. job.status = "cancelled" => job'.status = "cancelled" /\ job'.attempts = job.attempts
    <2>1. [JobTable!Next]_(JobTable!vars)
      BY JobTableStep
    <2>2. QED
      BY <2>1 DEF JobTable!Next, JobTable!vars, JobTable!Enqueue, JobTable!Expire, JobTable!Cancel,
         JobTable!Open, JobTable!Exhaust, JobTable!Claim, JobTable!Claimable, JobTable!Renew, JobTable!Finish,
         JobTable!Holds, JobTable!Drop
  <1>2. ASSUME sig.status = "cancelled"
        PROVE  sig'.status = "cancelled" /\ sig'.attempts = sig.attempts
    <2>1. [SigningTable!Next]_(SigningTable!vars)
      BY <1>2, SigningTableStep
    <2>2. QED
      BY <1>2, <2>1 DEF SigningTable!Next, SigningTable!vars, SigningTable!Enqueue,
         SigningTable!Expire, SigningTable!Cancel, SigningTable!Open, SigningTable!Exhaust,
         SigningTable!Claim, SigningTable!Claimable, SigningTable!Renew, SigningTable!Finish,
         SigningTable!Holds, SigningTable!Drop
  <1>3. QED
    BY <1>1, <1>2

\* What a cancellation finds under way it leaves waiting, with its lease closed.
LEMMA CancelWaits ==
    ASSUME IInv, WaitsClosed, Cancel PROVE WaitsClosed'
  <1>0. job \in JobRow /\ sig \in JobRow /\ worker' = worker /\ signer' = signer
    BY DEF Cancel, IInv, TypeOK
  <1>1. waiting' \subseteq waiting \cup Saving
    BY DEF Cancel
  <1>2. Next
    BY DEF Next, Web
  <1>3. ASSUME NEW w \in Worker, w \in waiting'
        PROVE  job'.status = "cancelled" /\ worker'[w].token = job'.attempts
    <2>1. CASE w \in waiting
      BY <1>0, <1>2, <2>1, CancelledRows DEF WaitsClosed
    <2>2. CASE w \notin waiting
      <3>1. Holds(job, worker[w].token)
        BY <1>1, <1>3, <2>2, DurableTrialAssumption DEF Saving
      <3>2. job' = Close(job, "cancelled") /\ worker[w].token = job.attempts
        BY <3>1 DEF Cancel, CancelledJob, Holds
      <3>3. QED
        BY <1>0, <3>2 DEF Close, JobRow
    <2>3. QED
      BY <2>1, <2>2
  <1>4. ASSUME NEW s \in Signer, s \in waiting'
        PROVE  /\ sig'.status = "cancelled" /\ signer'[s].token = sig'.attempts
               /\ signer'[s].pc \in {"save", "reject"}
    <2>1. CASE s \in waiting
      BY <1>0, <1>2, <2>1, CancelledRows DEF WaitsClosed
    <2>2. CASE s \notin waiting
      <3>1. Holds(sig, signer[s].token) /\ signer[s].pc \in {"save", "reject"}
        BY <1>1, <1>4, <2>2, DurableTrialAssumption DEF Saving
      <3>2. sig' = Close(sig, "cancelled") /\ signer[s].token = sig.attempts
        BY <3>1 DEF Cancel, CancelledJob, Holds
      <3>3. QED
        BY <1>0, <3>1, <3>2 DEF Close, JobRow
    <2>3. QED
      BY <2>1, <2>2
  <1>5. QED
    BY <1>3, <1>4 DEF WaitsClosed

\* Nobody else's save starts to wait, and whoever waits keeps its token.
LEMMA WaitersStay ==
    ASSUME IInv, WaitsClosed, Next, ~Cancel
    PROVE  /\ waiting' \subseteq waiting
           /\ \A w \in Worker \cap waiting' : worker'[w].token = worker[w].token
           /\ \A s \in Signer \cap waiting' :
                 signer'[s].token = signer[s].token /\ signer'[s].pc = signer[s].pc
  <1>0. worker \in [Worker -> WorkerRecord] /\ signer \in [Signer -> SignerRecord]
    BY DEF IInv, TypeOK
  <1>1. CASE Web \/ FailExhausted \/ LeaseExpires \/ SigningLeaseExpires
    BY <1>1 DEF Web, Enqueue, EnqueueRefused, EnqueueUnacknowledged, Upsert, FailExhausted,
       LeaseExpires, SigningLeaseExpires
  <1>2. ASSUME NEW v \in Worker, WorkerStep(v) \/ WorkerFault(v), ~Finish(v), ~WorkerCrash(v)
        PROVE  waiting' \subseteq waiting /\ Tokens' = Tokens /\ signer' = signer
    BY <1>2, KeepingSteps, KeepTokens
  <1>3. ASSUME NEW v \in Worker, Claim(v) \/ Finish(v) \/ WorkerCrash(v)
        PROVE  /\ waiting' \subseteq waiting /\ signer' = signer
               /\ \A w \in Worker \cap waiting' : worker'[w] = worker[w]
    <2>1. PICK r : Set(v, r)
      BY <1>3 DEF Claim, Finish, WorkerCrash
    <2>2. v \notin waiting'
      BY <1>3 DEF Claim, Claimable, Finish, WorkerCrash, Answered, WaitsClosed
    <2>3. waiting' \subseteq waiting /\ signer' = signer
      BY <1>3 DEF Claim, Finish, WorkerCrash, Answered
    <2>4. QED
      BY <1>0, <2>1, <2>2, <2>3 DEF Set
  <1>4. ASSUME NEW t \in Signer, ClaimSigning(t) \/ SignerStep(t) \/ SignerFault(t)
        PROVE  /\ waiting' \subseteq waiting /\ worker' = worker
               /\ \A s \in Signer \cap waiting' : signer'[s] = signer[s]
    <2>1. PICK r : SetSigner(t, r)
      BY <1>4 DEF ClaimSigning, SignerStep, SignerFault, Finalize, SaveSigned, SaveRejected,
         FinishSigning, SigningFails, SignerCrash
    <2>2. t \notin waiting'
      BY <1>4 DEF ClaimSigning, Claimable, SignerStep, SignerFault, Finalize, SaveSigned,
         SaveRejected, FinishSigning, SigningFails, SignerCrash, Answered, WaitsClosed
    <2>3. waiting' \subseteq waiting /\ worker' = worker
      BY <1>4 DEF ClaimSigning, SignerStep, SignerFault, Finalize, SaveSigned, SaveRejected,
         FinishSigning, SigningFails, SignerCrash, Answered
    <2>4. QED
      BY <1>0, <2>1, <2>2, <2>3 DEF SetSigner
  <1>5. ASSUME Tokens' = Tokens, NEW w \in Worker PROVE worker'[w].token = worker[w].token
    BY <1>5 DEF Tokens
  <1>6. QED
    BY <1>1, <1>2, <1>3, <1>4, <1>5 DEF Next, WorkerStep, WorkerFault, Web

\* A save waits only on a lease that is closed for good.
LEMMA WaitsInvariance == Spec => []WaitsClosed
  <1>1. Init => WaitsClosed
    BY DEF Init, WaitsClosed
  <1>2. IInv /\ WaitsClosed /\ [Next]_vars => WaitsClosed'
    <2> SUFFICES ASSUME IInv, WaitsClosed, [Next]_vars PROVE WaitsClosed'
      OBVIOUS
    <2>1. CASE Next /\ ~Cancel
      BY <2>1, WaitersStay, CancelledRows DEF WaitsClosed
    <2>2. CASE UNCHANGED vars
      BY <2>2 DEF vars, WaitsClosed
    <2>3. QED
      BY <2>1, <2>2, CancelWaits
  <1>3. QED
    BY <1>1, <1>2, Invariance, PTL DEF Spec

\* The history never runs ahead of the attempts issued.
WriterIssued == writer <= job.attempts

\* A settled or queued job keeps its attempts, a claimed one counts one more.
LEMMA AttemptsGrow ==
    ASSUME IInv, Next PROVE job'.attempts >= job.attempts
  <1>1. [JobTable!Next]_(JobTable!vars)
    BY JobTableStep
  <1>2. job.attempts \in Nat
    BY DurableTrialAssumption DEF IInv, TypeOK, JobRow
  <1>3. job'.attempts \in {job.attempts, job.attempts + 1}
    BY <1>1 DEF JobTable!Next, JobTable!vars, JobTable!Enqueue, JobTable!Expire, JobTable!Cancel,
       JobTable!Exhaust, JobTable!Claim, JobTable!NextToken, JobTable!Renew, JobTable!Finish, JobTable!Drop
  <1>4. QED
    BY <1>2, <1>3

\* A worker that signs for itself writes only through the fence, with the
\* attempt the job row shows.
LEMMA FencedWrite ==
    ASSUME Separated = FALSE, WaitsClosed, Next
    PROVE  writer' \in {writer, job.attempts}
  <1>1. ASSUME NEW w \in Worker, Checkpoint(w) \/ Persist(w) \/ Save(w)
        PROVE  writer' \in {writer, job.attempts}
    <2>1. Fenced(w) => worker[w].token = job.attempts
      BY DEF Fenced, Passes, Holds, WaitsClosed
    <2>2. QED
      BY <1>1, <2>1 DEF Checkpoint, Persist, Save, Lands, Write, NoWrite
  <1>2. ASSUME NEW w \in Worker, HandOff(w) PROVE FALSE
    BY <1>2 DEF HandOff
  <1>3. QED
    BY <1>1, <1>2 DEF Next, Web, WorkerStep, WorkerFault, SignerStep, SignerFault,
       Enqueue, EnqueueRefused, EnqueueUnacknowledged, Upsert, Cancel, FailExhausted,
       LeaseExpires, SigningLeaseExpires, Claim, Load, Advance, EnsureActive, Throw, Sign,
       InsertSigningJob, Finish, RenewalRefused, HandOffFails, StatementFails, SaveFails,
       WorkerCrash, ClaimSigning, Finalize, SaveSigned, SaveRejected, FinishSigning,
       SigningFails, SignerCrash, NoWrite

\* Where workers sign for themselves, no attempt writes the run after a later
\* attempt has.
THEOREM AttemptsInOrder == Separated = FALSE => (Spec => AttemptOrder)
  <1> SUFFICES ASSUME Separated = FALSE PROVE Spec => AttemptOrder
    OBVIOUS
  <1>1. Init => WriterIssued
    BY DEF Init, WriterIssued, NoJob
  <1>2. IInv /\ WaitsClosed /\ WriterIssued /\ [Next]_vars => WriterIssued'
    <2> SUFFICES ASSUME IInv, WaitsClosed, WriterIssued, [Next]_vars PROVE WriterIssued'
      OBVIOUS
    <2>1. CASE UNCHANGED vars
      BY <2>1 DEF vars, WriterIssued
    <2>2. CASE Next
      <3>1. writer' \in {writer, job.attempts} /\ job'.attempts >= job.attempts
        BY <2>2, FencedWrite, AttemptsGrow
      <3>2. job.attempts \in Int /\ job'.attempts \in Int /\ writer \in Int
        BY NextInvariant, DurableTrialAssumption DEF IInv, TypeOK, JobRow
      <3>3. QED
        BY <3>1, <3>2 DEF WriterIssued
    <2>3. QED
      BY <2>1, <2>2
  <1>3. IInv /\ WaitsClosed /\ WriterIssued /\ [Next]_vars => [writer' >= writer]_vars
    <2> SUFFICES ASSUME IInv, WaitsClosed, WriterIssued, Next PROVE writer' >= writer
      OBVIOUS
    <2>1. writer' \in {writer, job.attempts}
      BY FencedWrite
    <2>2. job.attempts \in Int /\ writer \in Int
      BY DurableTrialAssumption DEF IInv, TypeOK, JobRow
    <2>3. QED
      BY <2>1, <2>2 DEF WriterIssued
  <1>4. QED
    BY <1>1, <1>2, <1>3, Invariance, WaitsInvariance, PTL DEF Spec, AttemptOrder

\* The history of the signers never runs ahead of the attempts issued, and an
\* absent signing row has none.
SignatureIssued ==
    /\ signedBy <= sig.attempts
    /\ sig.status = "absent" => sig = NoJob

\* Only the holder of the signing lease writes as a signer, or whoever held it
\* when a cancellation closed it.
LEMMA FencedSignature ==
    ASSUME WaitsClosed, Next, signedBy' # signedBy
    PROVE  sig.status \in {"running", "cancelled"} /\ signedBy' = sig.attempts /\ sig' = sig
  <1>1. PICK s \in Signer : SaveSigned(s) \/ SaveRejected(s)
    BY DEF Next, Web, WorkerStep, WorkerFault, SignerStep, SignerFault,
       Enqueue, EnqueueRefused, EnqueueUnacknowledged, Upsert, Cancel, FailExhausted,
       LeaseExpires, SigningLeaseExpires, Claim, Load, Advance, EnsureActive, Throw, Sign,
       HandOff, InsertSigningJob, Checkpoint, Persist, Save, Finish, RenewalRefused,
       HandOffFails, StatementFails, SaveFails, WorkerCrash, ClaimSigning, Finalize,
       FinishSigning, SigningFails, SignerCrash
  <1>2. Passes(s, sig, signer[s].token) /\ signedBy' = signer[s].token /\ sig' = sig
    BY <1>1 DEF SaveSigned, SaveRejected, WriteSigned
  <1>3. QED
    BY <1>2 DEF Passes, Holds, WaitsClosed

\* The attempts of the signing job never decrease.
LEMMA SigningAttemptsGrow ==
    ASSUME IInv, sig.status = "absent" => sig = NoJob, Next
    PROVE  sig'.attempts >= sig.attempts
  <1>1. [SigningTable!Next]_(SigningTable!vars)
    BY SigningTableStep
  <1>2. sig.attempts \in Nat
    BY DurableTrialAssumption DEF IInv, TypeOK, JobRow
  <1>3. sig'.attempts \in {sig.attempts, sig.attempts + 1}
    BY <1>1 DEF SigningTable!Next, SigningTable!vars, SigningTable!Enqueue,
       SigningTable!Expire, SigningTable!Cancel, SigningTable!Exhaust, SigningTable!Claim,
       SigningTable!NextToken, SigningTable!Renew, SigningTable!Finish, SigningTable!Drop
  <1>4. QED
    BY <1>2, <1>3

\* A signer writes neither over a later signing attempt nor once the signing
\* job has finished, not even one whose save waited for a cancellation.
THEOREM SignaturesInOrder == Spec => SigningOrder
  <1> DEFINE Order == /\ signedBy' >= signedBy
                      /\ sig.status \in {"completed", "failed"} => signedBy' = signedBy
  <1>1. Init => SignatureIssued
    BY DEF Init, SignatureIssued, NoJob
  <1>2. IInv /\ WaitsClosed /\ SignatureIssued /\ [Next]_vars => SignatureIssued'
    <2> SUFFICES ASSUME IInv, WaitsClosed, SignatureIssued, [Next]_vars PROVE SignatureIssued'
      OBVIOUS
    <2>1. (sig.status = "absent" => sig = NoJob)'
      BY AbsentInvariant DEF SignatureIssued
    <2>2. CASE UNCHANGED vars
      BY <2>1, <2>2 DEF vars, SignatureIssued
    <2>3. CASE Next
      <3>1. sig'.attempts >= sig.attempts
        BY <2>3, SigningAttemptsGrow DEF SignatureIssued
      <3>2. signedBy' = signedBy \/ signedBy' = sig.attempts
        BY <2>3, FencedSignature
      <3>3. sig.attempts \in Int /\ sig'.attempts \in Int /\ signedBy \in Int
        BY NextInvariant, DurableTrialAssumption DEF IInv, TypeOK, JobRow
      <3>4. signedBy' <= sig'.attempts
        BY <3>1, <3>2, <3>3 DEF SignatureIssued
      <3>5. QED
        BY <2>1, <3>4 DEF SignatureIssued
    <2>4. QED
      BY <2>2, <2>3
  <1>3. IInv /\ WaitsClosed /\ SignatureIssued /\ [Next]_vars => [Order]_vars
    <2> SUFFICES ASSUME IInv, WaitsClosed, SignatureIssued, Next PROVE Order
      OBVIOUS
    <2>1. CASE signedBy' = signedBy
      <3>1. signedBy \in Int
        BY DurableTrialAssumption DEF IInv, TypeOK
      <3>2. QED
        BY <2>1, <3>1
    <2>2. CASE signedBy' # signedBy
      <3>1. sig.status \in {"running", "cancelled"} /\ signedBy' = sig.attempts
        BY <2>2, FencedSignature
      <3>2. sig.attempts \in Int /\ signedBy \in Int
        BY DurableTrialAssumption DEF IInv, TypeOK, JobRow
      <3>3. QED
        BY <3>1, <3>2 DEF SignatureIssued
    <2>3. QED
      BY <2>1, <2>2
  <1>4. QED
    BY <1>1, <1>2, <1>3, Invariance, WaitsInvariance, PTL DEF Spec, SigningOrder
=============================================================================
