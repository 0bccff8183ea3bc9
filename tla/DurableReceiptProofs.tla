-------------------------- MODULE DurableReceiptProofs --------------------------
(***************************************************************************)
(* What DurableTrial promises of receipts and of the stored log, for every *)
(* number of workers and signers, every retry budget, script and bound on  *)
(* faults.                                                                 *)
(*                                                                         *)
(* Where workers sign for themselves there is no signing job (NoSigning),  *)
(* so every write but the web process's passes the fence and the revision  *)
(* guard.  A bundle is stored with a terminal state (Sound, CurrentFit),   *)
(* and never before a terminal state without one is (AllAnnounced), which  *)
(* a cancellation refuses; the first attempt loads the run before anyone   *)
(* could have signed it (LoadedFirst).  A late cancellation closes the     *)
(* job, so nobody passes the fence after it (CancelCloses) but the saves   *)
(* that it kept waiting, and those carry no bundle (WaitsHarmless).        *)
(*                                                                         *)
(* Where signers sign and workers keep their leases, one worker at most is *)
(* at work (OneAtWork).  So a first attempt loads the run before a signing *)
(* job exists (SigningFollows), no worker ever has a bundle (Plain), and a *)
(* signer takes away the report when it attaches one.                      *)
(***************************************************************************)
EXTENDS DurableTrialProofs

\* Each token in use was issued by the job row, to one worker.
WorkersDistinct ==
    /\ job.status = "running" => job.attempts # 0
    /\ \A v, w \in Worker :
          /\ worker[w].token <= job.attempts
          /\ worker[v].token = worker[w].token /\ worker[w].token # 0 => v = w

\* The refinement hands down how tokens are issued.
LEMMA TokensInvariance == Spec => []WorkersDistinct
  <1>0. JobLease!FencedLeaseAssumption
    BY DurableTrialAssumption DEF JobLease!FencedLeaseAssumption
  <1>1. JobTable!Init => JobLease!Init
    BY DEF JobTable!Init, JobLease!Init
  <1>2. [JobTable!Next]_(JobTable!vars) => [JobLease!Next]_(JobLease!vars)
    BY DEF JobTable!Next, JobTable!vars, JobTable!Enqueue, JobTable!Expire,
       JobTable!Cancel, JobTable!Exhaust, JobTable!Claim, JobTable!Renew, JobTable!Finish,
       JobTable!Drop, JobTable!Holds, JobTable!Claimable, JobTable!NextToken,
       JobTable!Open,
       JobLease!Next, JobLease!vars, JobLease!Enqueue, JobLease!Expire,
       JobLease!Cancel, JobLease!Exhaust, JobLease!Claim, JobLease!Renew, JobLease!Finish,
       JobLease!Drop, JobLease!Holds, JobLease!Claimable, JobLease!NextToken,
       JobLease!Open
  <1>3. JobLease!IInv => WorkersDistinct
    BY DEF JobLease!IInv, JobLease!TokensIssued, JobLease!DistinctTokens,
       JobLease!RunningClaimed, WorkersDistinct
  <1>4. JobLease!Spec => []JobLease!IInv
    BY <1>0, JobLease!Invariance
  <1>5. QED
    BY <1>1, <1>2, <1>3, <1>4, JobTableImplements, PTL
    DEF JobTableSpec, JobTable!Spec, JobLease!Spec

-----------------------------------------------------------------------------
\* Steps of a worker

\* A step of a worker sets its record alone.
LEMMA SetOnly ==
    ASSUME IInv, NEW w \in Worker, NEW r, Set(w, r)
    PROVE  worker'[w] = r /\ \A v \in Worker : v # w => worker'[v] = worker[v]
  BY DEF IInv, TypeOK, Set

\* A step of a worker leaves the other workers alone.
LEMMA OthersRest ==
    ASSUME IInv, NEW w \in Worker, Claim(w) \/ WorkerStep(w) \/ WorkerFault(w)
    PROVE  \A v \in Worker : v # w => worker'[v] = worker[v]
  <1>1. \E r : Set(w, r)
    BY DEF Claim, WorkerStep, WorkerFault, Load, Advance, EnsureActive, Throw, Sign, HandOff,
       InsertSigningJob, Checkpoint, Persist, Save, Finish, RenewalRefused, HandOffFails,
       StatementFails, SaveFails, WorkerCrash
  <1>2. QED
    BY <1>1, SetOnly

\* What a step makes of the record of worker w, but for its place in the script.
\* A lease known to be lost is never found again.
Turns(w, pc, run, chain) ==
    /\ worker'[w].pc = pc
    /\ worker'[w].run = run
    /\ worker'[w].chain = chain
    /\ worker'[w].token = worker[w].token
    /\ worker[w].lost => worker'[w].lost

Loads(w) ==
    /\ worker[w].pc = "load"
    /\ \/ worker[w].token = 1 /\ Turns(w, "execute", row, <<>>)
       \/ LET run == Emit(Created, "CREATED") IN Turns(w, "execute", run, <<run>>)

Publishes(w) ==
    /\ worker[w].pc = "execute"
    /\ \E state \in PipelineState :
          LET run == Emit(worker[w].run, state)
          IN  Turns(w, "execute", run, Append(worker[w].chain, run))

Bails(w) ==
    \E state \in {"FAILED", "CANCELLED"} :
        LET run == Emit(worker[w].run, state)
        IN  Turns(w, "close", run, Append(worker[w].chain, run))

Jumps(w) ==
    \E pc \in {worker[w].pc, "save", "finish", "fail"} \ {"idle", "load"} :
        Turns(w, pc, worker[w].run, worker[w].chain)

Signs(w) ==
    LET run == Emit(worker[w].run, "COMPLETED")
    IN  /\ ~Separated /\ worker[w].pc = "execute"
        /\ Turns(w, "persist", [run EXCEPT !.bundle = TRUE], Append(worker[w].chain, run))

Pending(run) == [run EXCEPT !.state = "SCORING", !.pend = TRUE]

HandsOff(w) ==
    Separated /\ Turns(w, "insert", Pending(worker[w].run), worker[w].chain)

FailsToHandOff(w) ==
    LET run == Emit(Pending(worker[w].run), "FAILED")
    IN  Separated /\ Turns(w, "close", run, Append(worker[w].chain, run))

Unchains(w) ==
    /\ Checkpoint(w) /\ worker[w].chain # <<>>
    /\ Turns(w, worker[w].pc, worker[w].run, Tail(worker[w].chain))

\* The record that is set decides.
LEMMA SetTurns ==
    ASSUME IInv, NEW w \in Worker, NEW pc, NEW at, NEW run, NEW lost, NEW chain,
           NEW r, Set(w, r), worker[w].lost => lost,
           r = [worker[w] EXCEPT !.pc = pc, !.at = at, !.run = run, !.lost = lost, !.chain = chain]
    PROVE  Turns(w, pc, run, chain)
  <1>1. worker[w] \in WorkerRecord /\ worker'[w] = r
    BY SetOnly DEF IInv, TypeOK
  <1>2. /\ r.pc = pc /\ r.run = run /\ r.chain = chain /\ r.token = worker[w].token
        /\ r.lost = lost
    BY <1>1 DEF WorkerRecord
  <1>3. QED
    BY <1>1, <1>2 DEF Turns

\* The catch block of an executor publishes the outcome.
LEMMA BailTurns ==
    ASSUME IInv, NEW w \in Worker, NEW state, Set(w, Bail(worker[w], state))
    PROVE  LET run == Emit(worker[w].run, state)
           IN  Turns(w, "close", run, Append(worker[w].chain, run))
  <1>1. worker[w] \in WorkerRecord
    BY DEF IInv, TypeOK
  <1> DEFINE run == Emit(worker[w].run, state)
             chain == Append(worker[w].chain, run)
  <1>2. Bail(worker[w], state)
          = [worker[w] EXCEPT !.pc = "close", !.at = worker[w].at, !.run = run,
                              !.lost = worker[w].lost, !.chain = chain]
    BY <1>1 DEF Bail, WorkerRecord
  <1> HIDE DEF run, chain
  <1>3. Turns(w, "close", run, chain)
    BY <1>2, SetTurns
  <1>4. QED
    BY <1>3 DEF run, chain

\* A record set without touching the run or the chain.
LEMMA JumpTurns ==
    ASSUME IInv, NEW w \in Worker,
           NEW pc \in {worker[w].pc, "save", "finish", "fail"} \ {"idle", "load"},
           NEW at, NEW lost, NEW r, Set(w, r), worker[w].lost => lost,
           r = [worker[w] EXCEPT !.pc = pc, !.at = at, !.lost = lost]
    PROVE  Jumps(w)
  <1>1. worker[w] \in WorkerRecord
    BY DEF IInv, TypeOK
  <1>2. r
          = [worker[w] EXCEPT !.pc = pc, !.at = at, !.run = worker[w].run,
                              !.lost = lost, !.chain = worker[w].chain]
    BY <1>1 DEF WorkerRecord
  <1>3. Turns(w, pc, worker[w].run, worker[w].chain)
    BY <1>2, SetTurns
  <1>4. QED
    BY <1>3 DEF Jumps

\* A step on to a later statement.
LEMMA PcJumps ==
    ASSUME IInv, NEW w \in Worker,
           NEW pc \in {"save", "finish", "fail"}, Set(w, [worker[w] EXCEPT !.pc = pc])
    PROVE  Jumps(w)
  <1>1. worker[w] \in WorkerRecord
    BY DEF IInv, TypeOK
  <1> DEFINE r == [worker[w] EXCEPT !.pc = pc]
  <1>2. r = [worker[w] EXCEPT !.pc = pc, !.at = worker[w].at, !.lost = worker[w].lost]
    BY <1>1 DEF WorkerRecord
  <1>3. Set(w, r) /\ pc \in {worker[w].pc, "save", "finish", "fail"} \ {"idle", "load"}
    OBVIOUS
  <1> HIDE DEF r
  <1>4. QED
    BY <1>2, <1>3, JumpTurns

\* A worker told that its lease is lost stays where it is.
LEMMA LostJumps ==
    ASSUME IInv, NEW w \in Worker, worker[w].pc \notin {"idle", "load"},
           Set(w, [worker[w] EXCEPT !.lost = TRUE])
    PROVE  Jumps(w)
  <1>1. worker[w] \in WorkerRecord
    BY DEF IInv, TypeOK
  <1>2. [worker[w] EXCEPT !.lost = TRUE]
          = [worker[w] EXCEPT !.pc = worker[w].pc, !.at = worker[w].at, !.lost = TRUE]
    BY <1>1 DEF WorkerRecord
  <1>3. QED
    BY <1>2, JumpTurns

\* A lease lost in an executor is rethrown or handled like any error.
LEMMA LoseTurns ==
    ASSUME IInv, NEW w \in Worker, Set(w, LoseLease(worker[w]))
    PROVE  Jumps(w) \/ Bails(w)
  <1>1. CASE Rethrows
    BY <1>1, PcJumps DEF LoseLease
  <1>2. CASE ~Rethrows
    BY <1>2, BailTurns DEF LoseLease, Bails
  <1>3. QED
    BY <1>1, <1>2

\* What Load makes of the record.
LEMMA LoadTurns == ASSUME IInv, NEW w \in Worker, Load(w) PROVE Loads(w)
  <1>1. worker[w] \in WorkerRecord
    BY DEF IInv, TypeOK
  <1>2. CASE worker[w].token = 1
    <2>1. Set(w, [worker[w] EXCEPT !.pc = "execute", !.run = row, !.chain = <<>>])
      BY <1>2 DEF Load
    <2>2. [worker[w] EXCEPT !.pc = "execute", !.run = row, !.chain = <<>>]
            = [worker[w] EXCEPT !.pc = "execute", !.at = worker[w].at, !.run = row,
                                !.lost = worker[w].lost, !.chain = <<>>]
      BY <1>1 DEF WorkerRecord
    <2>3. Turns(w, "execute", row, <<>>)
      BY <2>1, <2>2, SetTurns
    <2>4. QED
      BY <1>2, <2>3 DEF Loads, Load
  <1>3. CASE worker[w].token # 1
    <2> DEFINE run == Emit(Created, "CREATED")
               chain == <<run>>
    <2>1. Set(w, [worker[w] EXCEPT !.pc = "execute", !.run = run, !.chain = chain])
      BY <1>3 DEF Load
    <2> HIDE DEF run, chain
    <2>2. [worker[w] EXCEPT !.pc = "execute", !.run = run, !.chain = chain]
            = [worker[w] EXCEPT !.pc = "execute", !.at = worker[w].at, !.run = run,
                                !.lost = worker[w].lost, !.chain = chain]
      BY <1>1 DEF WorkerRecord
    <2>3. Turns(w, "execute", run, chain)
      BY <2>1, <2>2, SetTurns
    <2>4. QED
      BY <2>3 DEF Loads, Load, run, chain
  <1>4. QED
    BY <1>2, <1>3

\* What Advance makes of the record.
LEMMA AdvanceTurns == ASSUME IInv, NEW w \in Worker, Advance(w) PROVE Publishes(w)
  <1>1. worker[w] \in WorkerRecord
    BY DEF IInv, TypeOK
  <1>2. PICK state \in PipelineState : state = Script[worker[w].at]
    <2>1. worker[w].at \in 1..Len(Script)
      BY <1>1, DurableTrialAssumption, LenProperties DEF Advance, Executing, WorkerRecord
    <2>2. QED
      BY <2>1, ScriptEntry DEF Advance
  <1> DEFINE at == worker[w].at + 1
             run == Emit(worker[w].run, state)
             chain == Append(worker[w].chain, run)
  <1>3. Set(w, [worker[w] EXCEPT !.at = at, !.run = run, !.chain = chain])
    BY <1>1, <1>2 DEF Advance, WorkerRecord
  <1> HIDE DEF at, run, chain
  <1>4. [worker[w] EXCEPT !.at = at, !.run = run, !.chain = chain]
          = [worker[w] EXCEPT !.pc = worker[w].pc, !.at = at, !.run = run,
                              !.lost = worker[w].lost, !.chain = chain]
    BY <1>1 DEF WorkerRecord
  <1>5. Turns(w, worker[w].pc, run, chain)
    BY <1>3, <1>4, SetTurns
  <1>6. QED
    BY <1>5 DEF Advance, Executing, Publishes, run, chain

\* What EnsureActive makes of the record.
LEMMA EnsureTurns ==
    ASSUME IInv, NEW w \in Worker, EnsureActive(w) PROVE Jumps(w) \/ Bails(w)
  <1>1. worker[w] \in WorkerRecord /\ worker[w].pc = "execute"
    BY DEF IInv, TypeOK, EnsureActive, Executing
  <1>2. \/ Set(w, LoseLease(worker[w]))
        \/ Set(w, Bail(worker[w], "CANCELLED"))
        \/ Set(w, [worker[w] EXCEPT !.at = worker[w].at + 1])
    BY <1>1 DEF EnsureActive, WorkerRecord
  <1>3. ASSUME Set(w, [worker[w] EXCEPT !.at = worker[w].at + 1]) PROVE Jumps(w)
    <2> DEFINE at == worker[w].at + 1
               r == [worker[w] EXCEPT !.at = at]
    <2>1. Set(w, r)
      BY <1>3
    <2> HIDE DEF at
    <2>2. r = [worker[w] EXCEPT !.pc = "execute", !.at = at, !.lost = worker[w].lost]
      BY <1>1 DEF WorkerRecord
    <2>3. "execute" \in {worker[w].pc, "save", "finish", "fail"} \ {"idle", "load"}
      BY <1>1
    <2> HIDE DEF r
    <2>4. QED
      BY <2>1, <2>2, <2>3, JumpTurns
  <1>4. QED
    BY <1>2, <1>3, LoseTurns, BailTurns DEF Bails

\* What Sign makes of the record.
LEMMA SignTurns == ASSUME IInv, NEW w \in Worker, Sign(w) PROVE Signs(w)
  <1>1. worker[w] \in WorkerRecord
    BY DEF IInv, TypeOK
  <1> DEFINE run == Emit(worker[w].run, "COMPLETED")
             signed == [run EXCEPT !.bundle = TRUE]
             chain == Append(worker[w].chain, run)
  <1>2. Set(w, [worker[w] EXCEPT !.pc = "persist", !.run = signed, !.chain = chain])
    BY <1>1 DEF Sign, WorkerRecord
  <1> HIDE DEF run, signed, chain
  <1>3. [worker[w] EXCEPT !.pc = "persist", !.run = signed, !.chain = chain]
          = [worker[w] EXCEPT !.pc = "persist", !.at = worker[w].at, !.run = signed,
                              !.lost = worker[w].lost, !.chain = chain]
    BY <1>1 DEF WorkerRecord
  <1>4. Turns(w, "persist", signed, chain)
    BY <1>2, <1>3, SetTurns
  <1>5. QED
    BY <1>4 DEF Sign, Finished, Signs, run, signed, chain

\* What HandOff makes of the record.
LEMMA HandOffTurns == ASSUME IInv, NEW w \in Worker, HandOff(w) PROVE HandsOff(w)
  <1>1. worker[w] \in WorkerRecord
    BY DEF IInv, TypeOK
  <1> DEFINE run == Pending(worker[w].run)
  <1>2. Set(w, [worker[w] EXCEPT !.pc = "insert", !.run = run])
    BY DEF HandOff, Pending
  <1> HIDE DEF run
  <1>3. [worker[w] EXCEPT !.pc = "insert", !.run = run]
          = [worker[w] EXCEPT !.pc = "insert", !.at = worker[w].at, !.run = run,
                              !.lost = worker[w].lost, !.chain = worker[w].chain]
    BY <1>1 DEF WorkerRecord
  <1>4. Turns(w, "insert", run, worker[w].chain)
    BY <1>2, <1>3, SetTurns
  <1>5. QED
    BY <1>4 DEF HandOff, HandsOff, run

\* What HandOffFails makes of the record.
LEMMA HandOffFailsTurns == ASSUME IInv, NEW w \in Worker, HandOffFails(w) PROVE FailsToHandOff(w)
  <1>1. worker[w] \in WorkerRecord
    BY DEF IInv, TypeOK
  <1> DEFINE run == Emit(Pending(worker[w].run), "FAILED")
             chain == Append(worker[w].chain, run)
             q == [worker[w] EXCEPT !.run.state = "SCORING", !.run.pend = TRUE]
  <1>2. q = [worker[w] EXCEPT !.run = Pending(worker[w].run)]
    BY <1>1 DEF WorkerRecord, Snapshot, Pending
  <1>3. Set(w, Bail(q, "FAILED"))
    BY DEF HandOffFails
  <1>4. q.run = Pending(worker[w].run) /\ q.chain = worker[w].chain
    BY <1>1, <1>2 DEF WorkerRecord
  <1>5. Bail(q, "FAILED") = [q EXCEPT !.pc = "close", !.run = Emit(q.run, "FAILED"),
                                      !.chain = Append(q.chain, Emit(q.run, "FAILED"))]
    <2>1. q = [pc |-> worker[w].pc, token |-> worker[w].token, at |-> worker[w].at,
               run |-> Pending(worker[w].run), lost |-> worker[w].lost, chain |-> worker[w].chain]
      BY <1>1, <1>2 DEF WorkerRecord
    <2> HIDE DEF q
    <2> QED
      BY <2>1 DEF Bail
  <1>6. Bail(q, "FAILED") = [worker[w] EXCEPT !.pc = "close", !.at = worker[w].at, !.run = run,
                                              !.lost = worker[w].lost, !.chain = chain]
    <2> HIDE DEF q
    <2> QED
      BY <1>1, <1>2, <1>4, <1>5 DEF WorkerRecord
  <1> HIDE DEF q, run, chain
  <1>7. Turns(w, "close", run, chain)
    BY <1>3, <1>6, SetTurns
  <1>8. QED
    BY <1>7 DEF HandOffFails, FailsToHandOff, run, chain

\* What Checkpoint makes of the record.
LEMMA CheckpointTurns == ASSUME IInv, NEW w \in Worker, Checkpoint(w) PROVE Unchains(w)
  <1>1. worker[w] \in WorkerRecord
    BY DEF IInv, TypeOK
  <1> DEFINE lost == worker[w].lost \/ ~Lands(w, Head(worker[w].chain))
             chain == Tail(worker[w].chain)
  <1>2. Set(w, [worker[w] EXCEPT !.chain = chain, !.lost = lost]) /\ (worker[w].lost => lost)
    BY <1>1 DEF Checkpoint, WorkerRecord
  <1> HIDE DEF lost, chain
  <1>3. [worker[w] EXCEPT !.chain = chain, !.lost = lost]
          = [worker[w] EXCEPT !.pc = worker[w].pc, !.at = worker[w].at, !.run = worker[w].run,
                              !.lost = lost, !.chain = chain]
    BY <1>1 DEF WorkerRecord
  <1>4. Turns(w, worker[w].pc, worker[w].run, chain)
    BY <1>2, <1>3, SetTurns
  <1>5. QED
    BY <1>4 DEF Checkpoint, Unchains, chain

\* Every step of a worker but a claim is one of these.
LEMMA WorkerTurns ==
    ASSUME IInv, NEW w \in Worker, WorkerStep(w) \/ WorkerFault(w)
    PROVE  \/ worker'[w] = IdleWorker /\ (Finish(w) \/ WorkerCrash(w))
           \/ Loads(w) \/ Publishes(w) \/ Bails(w) \/ Jumps(w) \/ Signs(w)
           \/ HandsOff(w) \/ FailsToHandOff(w) \/ Unchains(w)
  <1>1. ASSUME Throw(w) PROVE Jumps(w) \/ Bails(w)
    BY <1>1, LoseTurns, BailTurns DEF Throw, Bails
  <1>2. ASSUME InsertSigningJob(w) PROVE Jumps(w)
    BY <1>2, PcJumps DEF InsertSigningJob
  <1>3. ASSUME Persist(w) PROVE Jumps(w) \/ Bails(w)
    BY <1>3, PcJumps, LoseTurns DEF Persist
  <1>4. ASSUME Save(w) PROVE Jumps(w)
    <2>1. Set(w, [worker[w] EXCEPT !.pc = "finish"]) \/ Set(w, [worker[w] EXCEPT !.pc = "fail"])
      BY <1>4 DEF Save
    <2>2. QED
      BY <2>1, PcJumps
  <1>5. ASSUME Finish(w) PROVE Jumps(w) \/ worker'[w] = IdleWorker
    <2>1. Set(w, IdleWorker) \/ Set(w, [worker[w] EXCEPT !.pc = "fail"])
      BY <1>5 DEF Finish
    <2>2. QED
      BY <2>1, PcJumps, SetOnly
  <1>6. ASSUME RenewalRefused(w) \/ StatementFails(w) PROVE Jumps(w)
    BY <1>6, LostJumps DEF RenewalRefused, StatementFails
  <1>7. ASSUME SaveFails(w) PROVE Jumps(w) \/ Bails(w)
    BY <1>7, PcJumps, BailTurns DEF SaveFails, Bails
  <1>8. ASSUME WorkerCrash(w) PROVE worker'[w] = IdleWorker
    BY <1>8, SetOnly DEF WorkerCrash
  <1>9. QED
    BY <1>1, <1>2, <1>3, <1>4, <1>5, <1>6, <1>7, <1>8, LoadTurns, AdvanceTurns, EnsureTurns,
       SignTurns, HandOffTurns, HandOffFailsTurns, CheckpointTurns
    DEF WorkerStep, WorkerFault

\* Where a step may lead.
LEMMA Places ==
    ASSUME IInv, NEW w \in Worker, WorkerStep(w) \/ WorkerFault(w)
    PROVE  /\ worker'[w].pc = "load" => Unchains(w)
           /\ worker'[w].pc = "insert" => worker[w].pc = "insert" \/ Separated
           /\ worker'[w].token = worker[w].token \/ worker'[w] = IdleWorker
  <1>1. CASE worker'[w] = IdleWorker
    BY <1>1 DEF IdleWorker
  <1>2. CASE Loads(w)
    BY <1>2 DEF Loads, Turns
  <1>3. CASE Publishes(w)
    BY <1>3 DEF Publishes, Turns
  <1>4. CASE Bails(w)
    BY <1>4 DEF Bails, Turns
  <1>5. CASE Jumps(w)
    BY <1>5 DEF Jumps, Turns
  <1>6. CASE Signs(w)
    BY <1>6 DEF Signs, Turns
  <1>7. CASE HandsOff(w)
    BY <1>7 DEF HandsOff, Turns
  <1>8. CASE FailsToHandOff(w)
    BY <1>8 DEF FailsToHandOff, Turns
  <1>9. CASE Unchains(w)
    BY <1>9 DEF Unchains, Turns
  <1>10. QED
    BY <1>1, <1>2, <1>3, <1>4, <1>5, <1>6, <1>7, <1>8, <1>9, WorkerTurns

\* A claim starts afresh, with the attempt it counts.
LEMMA ClaimTurns ==
    ASSUME IInv, NEW w \in Worker, Claim(w)
    PROVE  /\ worker'[w].pc = "load" /\ worker'[w].run = NoRow /\ worker'[w].chain = <<>>
           /\ worker'[w].token = job'.attempts /\ job'.attempts = job.attempts + 1
  <1> DEFINE token == job.attempts + 1
             r == [IdleWorker EXCEPT !.pc = "load", !.token = token]
  <1>1. Set(w, r) /\ job'.attempts = token
    BY DEF Claim, Claimed
  <1> HIDE DEF token
  <1>2. r.pc = "load" /\ r.run = NoRow /\ r.chain = <<>> /\ r.token = token
    BY DEF IdleWorker
  <1> HIDE DEF r
  <1>3. QED
    BY <1>1, <1>2, SetOnly DEF token

-----------------------------------------------------------------------------
\* Workers that sign for themselves

\* Nobody has, or is about to insert, a signing job.
NoSigning ==
    /\ sig = NoJob
    /\ \A s \in Signer : signer[s].pc = "idle"
    /\ \A w \in Worker : worker[w].pc # "insert"

\* Only a hand-off leads to the insertion of a signing job.
LEMMA NeverInserts ==
    ASSUME Separated = FALSE, IInv, NoSigning, NEW w \in Worker,
           Claim(w) \/ WorkerStep(w) \/ WorkerFault(w)
    PROVE  worker'[w].pc # "insert"
  <1>1. CASE Claim(w)
    BY <1>1, ClaimTurns
  <1>2. CASE WorkerStep(w) \/ WorkerFault(w)
    <2>1. worker[w].pc # "insert"
      BY DEF NoSigning
    <2>2. QED
      BY <1>2, <2>1, Places
  <1>3. QED
    BY <1>1, <1>2

\* With no signing job, signers have nothing to do.
LEMMA SignersRest ==
    ASSUME NoSigning, NEW s \in Signer, ClaimSigning(s) \/ SignerStep(s) \/ SignerFault(s)
    PROVE  FALSE
  BY DEF NoSigning, NoJob, ClaimSigning, Claimable, SignerStep, SignerFault, Finalize,
     SaveSigned, SaveRejected, FinishSigning, SigningFails, SignerCrash

\* Workers that sign for themselves never make a signing job.
LEMMA NoSigningInvariance == Separated = FALSE => (Spec => []NoSigning)
  <1> SUFFICES ASSUME Separated = FALSE PROVE Spec => []NoSigning
    OBVIOUS
  <1>1. Init => NoSigning
    BY DEF Init, NoSigning, IdleWorker, IdleSigner
  <1>2. IInv /\ NoSigning /\ [Next]_vars => NoSigning'
    <2> SUFFICES ASSUME IInv, NoSigning, [Next]_vars PROVE NoSigning'
      OBVIOUS
    <2>1. CASE Web \/ FailExhausted \/ LeaseExpires \/ SigningLeaseExpires \/ UNCHANGED vars
      BY <2>1 DEF Web, Enqueue, EnqueueRefused, EnqueueUnacknowledged, Upsert, Cancel, FailExhausted,
         LeaseExpires, SigningLeaseExpires, vars, NoSigning, NoJob, CancelledJob, NoWrite
    <2>2. ASSUME NEW w \in Worker, Claim(w) \/ WorkerStep(w) \/ WorkerFault(w) PROVE NoSigning'
      <3>1. \A v \in Worker : worker'[v].pc # "insert"
        BY <2>2, NeverInserts, OthersRest DEF NoSigning
      <3>2. sig' = sig /\ signer' = signer
        BY <2>2 DEF NoSigning, Claim, WorkerStep, WorkerFault, Load, Advance, EnsureActive, Throw,
           Sign, HandOff, InsertSigningJob, Checkpoint, Persist, Save, Finish, RenewalRefused,
           HandOffFails, StatementFails, SaveFails, WorkerCrash
      <3>3. QED
        BY <3>1, <3>2 DEF NoSigning
    <2>3. ASSUME NEW s \in Signer, ClaimSigning(s) \/ SignerStep(s) \/ SignerFault(s) PROVE FALSE
      BY <2>3, SignersRest
    <2>4. QED
      BY <2>1, <2>2, <2>3 DEF Next
  <1>3. QED
    BY <1>1, <1>2, Invariance, PTL DEF Spec

\* What a worker that signs for itself does to the stored run.
LEMMA GuardedWrite ==
    ASSUME Separated = FALSE, NEW w \in Worker, Claim(w) \/ WorkerStep(w) \/ WorkerFault(w)
    PROVE  \/ row' = row
           \/ /\ Lands(w, row')
              /\ \/ Checkpoint(w) /\ worker[w].chain # <<>> /\ row' = Head(worker[w].chain)
                 \/ (Persist(w) \/ Save(w)) /\ row' = worker[w].run
  <1>1. CASE Checkpoint(w) \/ Persist(w) \/ Save(w)
    BY <1>1 DEF Checkpoint, Persist, Save, Write, NoWrite
  <1>2. CASE HandOff(w) \/ HandOffFails(w)
    BY <1>2 DEF HandOff, HandOffFails
  <1>3. CASE Claim(w) \/ Load(w) \/ Advance(w) \/ EnsureActive(w) \/ Throw(w) \/ Sign(w)
             \/ InsertSigningJob(w) \/ Finish(w) \/ RenewalRefused(w)
    BY <1>3 DEF Claim, Load, Advance, EnsureActive, Throw, Sign, InsertSigningJob, Finish,
       RenewalRefused, NoWrite
  <1>4. CASE StatementFails(w) \/ SaveFails(w) \/ WorkerCrash(w)
    BY <1>4 DEF StatementFails, SaveFails, WorkerCrash, NoWrite
  <1>5. QED
    BY <1>1, <1>2, <1>3, <1>4 DEF WorkerStep, WorkerFault

\* Where workers sign for themselves, the stored log never gets shorter.
THEOREM LogOnlyGrows == Separated = FALSE => (Spec => RevisionMonotone)
  <1> SUFFICES ASSUME Separated = FALSE PROVE Spec => RevisionMonotone
    OBVIOUS
  <1>1. IInv /\ NoSigning /\ [Next]_vars => [row'.rev >= row.rev]_vars
    <2> SUFFICES ASSUME IInv, NoSigning, Next PROVE row'.rev >= row.rev
      OBVIOUS
    <2>0. row \in Snapshot /\ row.rev \in Nat
      BY DEF IInv, TypeOK, Snapshot
    <2>1. CASE Enqueue \/ EnqueueUnacknowledged
      <3>1. NoRow.rev = 0 /\ Created.rev = 1
        BY DEF NoRow, Created
      <3>2. row' = row \/ (row = NoRow /\ row' = Created)
        BY <2>1 DEF Enqueue, EnqueueUnacknowledged
      <3>3. QED
        BY <2>0, <3>1, <3>2
    <2>2. ASSUME NEW u \in upserts, Upsert(u) PROVE row'.rev >= row.rev
      BY <2>0, <2>2 DEF Upsert
    <2>3. CASE Cancel
      BY <2>0, <2>3 DEF Cancel, Emit, Snapshot
    <2>4. CASE FailExhausted
      BY <2>0, <2>4 DEF FailExhausted, Snapshot
    <2>5. CASE EnqueueRefused \/ LeaseExpires \/ SigningLeaseExpires
      BY <2>0, <2>5 DEF EnqueueRefused, LeaseExpires, SigningLeaseExpires, NoWrite
    <2>6. ASSUME NEW w \in Worker, Claim(w) \/ WorkerStep(w) \/ WorkerFault(w)
          PROVE  row'.rev >= row.rev
      <3>1. row' = row \/ row.rev <= row'.rev
        BY <2>6, GuardedWrite DEF Lands
      <3>2. row'.rev \in Nat
        BY NextInvariant DEF IInv, TypeOK, Snapshot
      <3>3. QED
        BY <2>0, <3>1, <3>2
    <2>7. ASSUME NEW s \in Signer, ClaimSigning(s) \/ SignerStep(s) \/ SignerFault(s) PROVE FALSE
      BY <2>7, SignersRest
    <2>8. QED
      BY <2>1, <2>2, <2>3, <2>4, <2>5, <2>6, <2>7 DEF Next, Web
  <1>2. QED
    BY <1>1, Invariance, NoSigningInvariance, PTL DEF Spec, RevisionMonotone

-----------------------------------------------------------------------------
\* No receipt after a cancellation

\* A run that no cancellation accepts, and that the web process's own saves leave
\* final.
Final(run) == run.state \in Terminal /\ run.rev >= 2

\* A bundle is stored with a terminal state.
Sound(run) == run.bundle => Final(run)
AllSound(chain) == \A i \in 1..Len(chain) : Sound(chain[i])

\* What a worker that holds the lease may store.
Fit(w) ==
    /\ Sound(worker[w].run) /\ AllSound(worker[w].chain)
    /\ worker[w].pc \in {"load", "execute"} => ~worker[w].run.bundle
    /\ worker[w].pc = "execute" => worker[w].run.rev # 0
    /\ worker[w].pc = "load" => worker[w].chain = <<>>

Current(w) == worker[w].token = job.attempts

CurrentFit == \A w \in Worker : Current(w) => Fit(w)

\* The job row is inserted with the run.
Started == row.rev = 0 => row = NoRow /\ job = NoJob

\* There is no bundle before the first attempt has loaded the run.
LoadedFirst ==
    row.bundle =>
        /\ job.attempts # 0
        /\ \A w \in Worker : Current(w) /\ worker[w].token = 1 => worker[w].pc # "load"

\* Saved in this order over the run first, no bundle comes before a final run.
Announced(first, chain, run) ==
    /\ chain = <<>> => (run.bundle => Final(first))
    /\ chain # <<>> =>
          /\ chain[1].bundle => Final(first)
          /\ \A i \in 1..Len(chain) - 1 : chain[i + 1].bundle => Final(chain[i])
          /\ run.bundle => Final(chain[Len(chain)])

Announces(w) == worker[w].lost \/ Announced(row, worker[w].chain, worker[w].run)

AllAnnounced == \A w \in Worker : Holds(job, worker[w].token) => Announces(w)

\* The save that waits for the cancellation carries no bundle.
Harmless(w) ==
    /\ worker[w].pc \notin {"idle", "load"}
    /\ worker[w].chain = <<>> =>
          ~worker[w].run.bundle /\ worker[w].pc \in {"persist", "close", "save"}
    /\ worker[w].chain # <<>> => ~Head(worker[w].chain).bundle

WaitsHarmless == \A w \in Worker \cap waiting : Harmless(w)

Settled == {"completed", "failed", "cancelled"}

CancelCloses == acked = "late" => job.status \in Settled /\ ~row.bundle

ReceiptInv ==
    /\ Sound(row) /\ CurrentFit /\ Started /\ LoadedFirst
    /\ AllAnnounced /\ WaitsHarmless /\ CancelCloses

\* Sound chains are built and taken apart soundly.
LEMMA SoundChains ==
    ASSUME NEW chain \in Seq(Snapshot), NEW run
    PROVE  /\ AllSound(<<>>)
           /\ Sound(run) => AllSound(<<run>>)
           /\ AllSound(chain) /\ Sound(run) => AllSound(Append(chain, run))
           /\ AllSound(chain) /\ chain # <<>> => AllSound(Tail(chain)) /\ Sound(Head(chain))
  BY DEF AllSound

\* Nothing unbundled needs an announcement.
LEMMA PlainAnnounced ==
    ASSUME NEW first, NEW chain, NEW run, ~run.bundle, chain = <<>> \/ chain = <<run>>
    PROVE  Announced(first, chain, run)
  <1>1. CASE chain = <<>>
    BY <1>1 DEF Announced
  <1>2. CASE chain = <<run>>
    <2>1. Len(chain) = 1 /\ chain[1] = run /\ chain # <<>>
      BY <1>2
    <2>2. QED
      BY <2>1 DEF Announced
  <1>3. QED
    BY <1>1, <1>2

\* A run that is queued announces the bundle of the next one.
LEMMA AppendAnnounced ==
    ASSUME NEW first, NEW chain \in Seq(Snapshot), NEW run, NEW queued \in Snapshot, NEW next,
           Announced(first, chain, run),
           queued.bundle => run.bundle, next.bundle => Final(queued)
    PROVE  Announced(first, Append(chain, queued), next)
  <1> DEFINE longer == Append(chain, queued)
  <1>1. /\ longer \in Seq(Snapshot) /\ longer # <<>>
        /\ Len(longer) = Len(chain) + 1 /\ longer[Len(longer)] = queued
        /\ \A i \in 1..Len(chain) : longer[i] = chain[i]
        /\ Len(chain) \in Nat
    BY AppendProperties
  <1> HIDE DEF longer
  <1>2. CASE chain = <<>>
    <2>1. Len(chain) = 0
      BY <1>2
    <2>2. QED
      BY <1>1, <1>2, <2>1 DEF Announced, longer
  <1>3. CASE chain # <<>>
    <2>1. Len(chain) >= 1
      BY <1>1, <1>3, EmptySeq
    <2>2. longer[1].bundle => Final(first)
      BY <1>1, <1>3, <2>1 DEF Announced
    <2>3. ASSUME NEW i \in 1..Len(longer) - 1, longer[i + 1].bundle PROVE Final(longer[i])
      <3>1. CASE i = Len(chain)
        BY <1>1, <1>3, <2>1, <2>3, <3>1 DEF Announced
      <3>2. CASE i # Len(chain)
        <4>1. i \in 1..Len(chain) - 1 /\ i + 1 \in 1..Len(chain)
          BY <1>1, <3>2
        <4>2. longer[i] = chain[i] /\ longer[i + 1] = chain[i + 1]
          BY <1>1, <4>1
        <4>3. QED
          BY <1>3, <2>3, <4>1, <4>2 DEF Announced
      <3>3. QED
        BY <3>1, <3>2
    <2>4. QED
      BY <1>1, <2>2, <2>3 DEF Announced, longer
  <1>4. QED
    BY <1>2, <1>3

\* The head of a chain, once stored, announces the rest of it.
LEMMA TailAnnounced ==
    ASSUME NEW first, NEW chain \in Seq(Snapshot), chain # <<>>, NEW run,
           Announced(first, chain, run)
    PROVE  Announced(Head(chain), Tail(chain), run)
  <1> DEFINE rest == Tail(chain)
  <1>1. /\ rest \in Seq(Snapshot) /\ Head(chain) = chain[1]
        /\ Len(chain) \in Nat \ {0} /\ Len(rest) = Len(chain) - 1
        /\ \A i \in 1..Len(rest) : rest[i] = chain[i + 1]
    BY HeadTailProperties, EmptySeq
  <1> HIDE DEF rest
  <1>2. CASE rest = <<>>
    <2>1. Len(chain) = 1
      BY <1>1, <1>2
    <2>2. QED
      BY <1>1, <1>2, <2>1 DEF Announced, rest
  <1>3. CASE rest # <<>>
    <2>1. Len(rest) >= 1
      BY <1>1, <1>3, EmptySeq
    <2>2. rest[1].bundle => Final(Head(chain))
      <3>1. 1 \in 1..Len(chain) - 1 /\ rest[1] = chain[1 + 1]
        BY <1>1, <2>1
      <3>2. QED
        BY <1>1, <3>1 DEF Announced
    <2>3. ASSUME NEW i \in 1..Len(rest) - 1, rest[i + 1].bundle PROVE Final(rest[i])
      <3>1. i + 1 \in 1..Len(chain) - 1 /\ rest[i] = chain[i + 1] /\ rest[i + 1] = chain[i + 1 + 1]
        BY <1>1
      <3>2. QED
        BY <2>3, <3>1 DEF Announced
    <2>4. rest[Len(rest)] = chain[Len(chain)]
      BY <1>1, <2>1
    <2>5. QED
      BY <1>1, <1>3, <2>2, <2>3, <2>4 DEF Announced, rest
  <1>4. QED
    BY <1>2, <1>3

\* A run that is final instead of the first one announces as much.
LEMMA FinalAnnounced ==
    ASSUME NEW first, NEW other, Final(first) => Final(other), NEW chain, NEW run,
           Announced(first, chain, run)
    PROVE  Announced(other, chain, run)
  BY DEF Announced

\* Publishing a state leaves the bundle and the report alone.
LEMMA EmitFields ==
    ASSUME NEW run \in Snapshot, NEW state
    PROVE  /\ Emit(run, state).state = state /\ Emit(run, state).rev = run.rev + 1
           /\ Emit(run, state).bundle = run.bundle /\ Emit(run, state).pend = run.pend
  BY DEF Emit, Snapshot

\* Publishing a terminal state makes a run final, unless there was none.
LEMMA EmitFinal ==
    ASSUME NEW run \in Snapshot, NEW state \in Terminal, run.rev # 0
    PROVE  Final(Emit(run, state))
  <1>1. run.rev \in Nat
    BY DEF Snapshot
  <1>2. QED
    BY <1>1, EmitFields DEF Final

\* The runs of the web process have neither.
LEMMA CreatedFields ==
    /\ ~NoRow.bundle /\ ~NoRow.pend /\ ~Created.bundle /\ ~Created.pend
    /\ ~Emit(Created, "FAILED").bundle /\ ~Emit(Created, "FAILED").pend
    /\ ~Emit(Created, "CREATED").bundle /\ ~Emit(Created, "CREATED").pend
    /\ NoRow.rev = 0 /\ Created.rev = 1
    /\ Emit(Created, "FAILED").rev = 2 /\ Emit(Created, "CREATED").rev = 2
    /\ Emit(Created, "FAILED").state = "FAILED"
  <1>1. /\ ~NoRow.bundle /\ ~NoRow.pend /\ ~Created.bundle /\ ~Created.pend
        /\ NoRow.rev = 0 /\ Created.rev = 1
    BY DEF NoRow, Created
  <1>2. QED
    BY <1>1, CreatedType, EmitFields

\* A worker with nothing may store nothing unsound.
LEMMA IdleFit ==
    ASSUME NEW w \in Worker, worker'[w] = IdleWorker PROVE Fit(w)'
  BY CreatedFields DEF Fit, Sound, AllSound, IdleWorker

\* A worker with the lease keeps to what it may store.
LEMMA StepFit ==
    ASSUME Separated = FALSE, IInv, NEW w \in Worker, WorkerStep(w) \/ WorkerFault(w), Fit(w),
           worker[w].pc = "load" => row.rev # 0,
           worker[w].pc = "load" /\ worker[w].token = 1 => ~row.bundle
    PROVE  Fit(w)'
  <1>1. /\ worker[w].run \in Snapshot /\ worker[w].chain \in Seq(Snapshot)
        /\ row \in Snapshot
    BY DEF IInv, TypeOK, WorkerRecord
  <1>2. Sound(worker[w].run) /\ AllSound(worker[w].chain) /\ worker[w].run.rev \in Nat
    BY <1>1 DEF Fit, Snapshot
  <1>3. CASE worker'[w] = IdleWorker
    BY <1>3, IdleFit
  <1>4. CASE Loads(w)
    <2>1. PICK run, chain : /\ Turns(w, "execute", run, chain) /\ ~run.bundle /\ run.rev # 0
                            /\ chain = <<>> \/ chain = <<run>>
      BY <1>4, CreatedFields DEF Loads
    <2>2. Sound(run) /\ AllSound(chain)
      BY <2>1, SoundChains, EmptySeq DEF Sound
    <2>3. QED
      BY <2>1, <2>2 DEF Fit, Turns
  <1>5. CASE Publishes(w)
    <2>1. PICK run : /\ Turns(w, "execute", run, Append(worker[w].chain, run))
                     /\ ~run.bundle /\ run.rev = worker[w].run.rev + 1
      BY <1>1, <1>5, EmitFields DEF Publishes, Fit
    <2>2. Sound(run) /\ AllSound(Append(worker[w].chain, run))
      BY <1>1, <1>2, <2>1, SoundChains DEF Sound
    <2>3. QED
      BY <1>2, <2>1, <2>2 DEF Fit, Turns
  <1>6. CASE Bails(w)
    <2>1. PICK run : /\ Turns(w, "close", run, Append(worker[w].chain, run))
                     /\ Sound(run)
      <3>1. PICK state \in {"FAILED", "CANCELLED"} :
              LET run == Emit(worker[w].run, state)
              IN  Turns(w, "close", run, Append(worker[w].chain, run))
        BY <1>6 DEF Bails
      <3>2. worker[w].run.bundle => Final(Emit(worker[w].run, state))
        BY <1>1, <1>2, EmitFinal DEF Sound, Final, Terminal
      <3>3. Sound(Emit(worker[w].run, state))
        BY <1>1, <3>2, EmitFields DEF Sound
      <3>4. QED
        BY <3>1, <3>3
    <2>2. AllSound(Append(worker[w].chain, run))
      BY <1>1, <1>2, <2>1, SoundChains
    <2>3. QED
      BY <2>1, <2>2 DEF Fit, Turns
  <1>7. CASE Jumps(w)
    BY <1>7 DEF Jumps, Fit, Turns
  <1>8. CASE Signs(w)
    <2> DEFINE run == Emit(worker[w].run, "COMPLETED")
               signed == [run EXCEPT !.bundle = TRUE]
    <2>1. Turns(w, "persist", signed, Append(worker[w].chain, run))
      BY <1>8 DEF Signs
    <2>2. run \in Snapshot /\ Final(run)
      BY <1>1, <1>8, EmitFinal, EmitType DEF Signs, Fit, Terminal, PipelineState
    <2>3. signed.state = run.state /\ signed.rev = run.rev
      <3> HIDE DEF run
      <3> QED
        BY <2>2 DEF Snapshot
    <2> HIDE DEF run, signed
    <2>4. Sound(signed) /\ AllSound(Append(worker[w].chain, run))
      BY <1>1, <1>2, <2>2, <2>3, SoundChains DEF Sound, Final
    <2>5. QED
      BY <2>1, <2>4 DEF Fit, Turns
  <1>9. CASE HandsOff(w) \/ FailsToHandOff(w)
    BY <1>9 DEF HandsOff, FailsToHandOff
  <1>10. CASE Unchains(w)
    <2>1. AllSound(Tail(worker[w].chain))
      BY <1>1, <1>2, <1>10, SoundChains DEF Unchains
    <2>2. QED
      BY <1>10, <2>1 DEF Unchains, Fit, Turns
  <1>11. QED
    BY <1>3, <1>4, <1>5, <1>6, <1>7, <1>8, <1>9, <1>10, WorkerTurns

\* What a worker has yet to save stays announced, when it publishes, signs or
\* gives up and the stored run does not change.
LEMMA QueueAnnounced ==
    ASSUME Separated = FALSE, IInv, NEW w \in Worker, WorkerStep(w) \/ WorkerFault(w), Fit(w),
           ~Checkpoint(w), worker[w].pc = "load" /\ worker[w].token = 1 => ~row.bundle,
           Announced(row, worker[w].chain, worker[w].run)
    PROVE  Announced(row, worker'[w].chain, worker'[w].run)
  <1>1. /\ worker[w].run \in Snapshot /\ worker[w].chain \in Seq(Snapshot)
        /\ row \in Snapshot
    BY DEF IInv, TypeOK, WorkerRecord
  <1>2. CASE worker'[w] = IdleWorker
    BY <1>2, PlainAnnounced, CreatedFields DEF IdleWorker
  <1>3. CASE Loads(w)
    <2>1. PICK run, chain : /\ Turns(w, "execute", run, chain) /\ ~run.bundle
                            /\ chain = <<>> \/ chain = <<run>>
      BY <1>3, CreatedFields DEF Loads
    <2>2. QED
      BY <2>1, PlainAnnounced DEF Turns
  <1>4. ASSUME NEW state \in PipelineState,
               worker'[w].run = Emit(worker[w].run, state),
               worker'[w].chain = Append(worker[w].chain, Emit(worker[w].run, state)),
               worker[w].run.bundle => Final(Emit(worker[w].run, state))
        PROVE  Announced(row, worker'[w].chain, worker'[w].run)
    <2> DEFINE run == Emit(worker[w].run, state)
    <2>1. run \in Snapshot /\ run.bundle = worker[w].run.bundle
      BY <1>1, EmitType, EmitFields
    <2>2. worker'[w].run = run /\ worker'[w].chain = Append(worker[w].chain, run)
          /\ (run.bundle => Final(run))
      BY <1>4, <2>1
    <2> HIDE DEF run
    <2>3. Announced(row, Append(worker[w].chain, run), run)
      BY <1>1, <2>1, <2>2, AppendAnnounced
    <2>4. QED
      BY <2>2, <2>3
  <1>5. CASE Publishes(w)
    <2>1. PICK state \in PipelineState :
            /\ worker'[w].run = Emit(worker[w].run, state)
            /\ worker'[w].chain = Append(worker[w].chain, Emit(worker[w].run, state))
      BY <1>5 DEF Publishes, Turns
    <2>2. ~worker[w].run.bundle
      BY <1>5 DEF Publishes, Fit
    <2>3. QED
      BY <1>4, <2>1, <2>2
  <1>6. CASE Bails(w)
    <2>1. PICK state \in {"FAILED", "CANCELLED"} :
            /\ worker'[w].run = Emit(worker[w].run, state)
            /\ worker'[w].chain = Append(worker[w].chain, Emit(worker[w].run, state))
      BY <1>6 DEF Bails, Turns
    <2>2. worker[w].run.bundle => Final(Emit(worker[w].run, state))
      BY <1>1, EmitFinal DEF Fit, Sound, Final, Terminal
    <2>3. state \in PipelineState
      BY DEF PipelineState
    <2>4. QED
      BY <1>4, <2>1, <2>2, <2>3
  <1>7. CASE Jumps(w)
    BY <1>7 DEF Jumps, Turns
  <1>8. CASE Signs(w)
    <2> DEFINE run == Emit(worker[w].run, "COMPLETED")
               signed == [run EXCEPT !.bundle = TRUE]
    <2>1. worker'[w].run = signed /\ worker'[w].chain = Append(worker[w].chain, run)
      BY <1>8 DEF Signs, Turns
    <2>2. run \in Snapshot /\ Final(run) /\ ~run.bundle
      BY <1>1, <1>8, EmitFinal, EmitType, EmitFields DEF Signs, Fit, Terminal, PipelineState
    <2> HIDE DEF run, signed
    <2>3. Announced(row, Append(worker[w].chain, run), signed)
      BY <1>1, <2>2, AppendAnnounced
    <2>4. QED
      BY <2>1, <2>3
  <1>9. CASE HandsOff(w) \/ FailsToHandOff(w)
    BY <1>9 DEF HandsOff, FailsToHandOff
  <1>10. CASE Unchains(w)
    BY <1>10 DEF Unchains
  <1>11. QED
    BY <1>2, <1>3, <1>5, <1>6, <1>7, <1>8, <1>9, <1>10, WorkerTurns

\* A lease known to be lost stays lost.
LEMMA LostStays ==
    ASSUME IInv, NEW w \in Worker, WorkerStep(w) \/ WorkerFault(w), worker[w].lost
    PROVE  worker'[w] = IdleWorker \/ worker'[w].lost
  BY WorkerTurns DEF Loads, Publishes, Bails, Jumps, Signs, HandsOff, FailsToHandOff, Unchains,
     Turns

\* What a worker has yet to save stays announced across each of its steps.
LEMMA StepAnnounces ==
    ASSUME Separated = FALSE, IInv, NEW w \in Worker, WorkerStep(w) \/ WorkerFault(w), Fit(w),
           worker[w].pc = "load" /\ worker[w].token = 1 => ~row.bundle, Announces(w)
    PROVE  Announces(w)'
  <1>1. worker[w] \in WorkerRecord
    BY DEF IInv, TypeOK
  <1>2. CASE worker'[w] = IdleWorker
    BY <1>2, PlainAnnounced, CreatedFields DEF IdleWorker, Announces
  <1>3. CASE worker[w].lost
    BY <1>2, <1>3, LostStays DEF Announces
  <1>4. CASE ~worker[w].lost /\ Checkpoint(w)
    <2>1. /\ worker'[w].chain = Tail(worker[w].chain) /\ worker'[w].run = worker[w].run
          /\ worker[w].chain # <<>>
      BY <1>4, CheckpointTurns DEF Unchains, Turns
    <2>2. CASE Lands(w, Head(worker[w].chain))
      <3>1. row' = Head(worker[w].chain)
        BY <1>4, <2>2 DEF Checkpoint, Write
      <3>2. Announced(Head(worker[w].chain), Tail(worker[w].chain), worker[w].run)
        BY <1>1, <1>4, <2>1, TailAnnounced DEF Announces, WorkerRecord
      <3>3. QED
        BY <2>1, <3>1, <3>2 DEF Announces
    <2>3. CASE ~Lands(w, Head(worker[w].chain))
      <3> DEFINE r == [worker[w] EXCEPT !.chain = Tail(worker[w].chain), !.lost = TRUE]
      <3>1. Set(w, r)
        BY <1>1, <1>4, <2>3 DEF Checkpoint, WorkerRecord
      <3>2. r.lost
        BY <1>1 DEF WorkerRecord
      <3> HIDE DEF r
      <3>3. QED
        BY <3>1, <3>2, SetOnly DEF Announces
    <2>4. QED
      BY <2>2, <2>3
  <1>5. CASE (Persist(w) \/ Save(w)) /\ Lands(w, worker[w].run)
    <2>1. PICK pc \in {"save", "finish"} : Set(w, [worker[w] EXCEPT !.pc = pc])
      BY <1>5 DEF Persist, Save
    <2>2. worker'[w].run = worker[w].run /\ worker'[w].chain = worker[w].chain
      BY <1>1, <2>1, SetOnly DEF WorkerRecord
    <2>3. row' = worker[w].run /\ worker[w].chain = <<>>
      BY <1>5 DEF Persist, Save, Write
    <2>4. QED
      BY <2>2, <2>3 DEF Announces, Announced, Fit, Sound
  <1>6. CASE /\ ~worker[w].lost /\ ~Checkpoint(w)
             /\ ~((Persist(w) \/ Save(w)) /\ Lands(w, worker[w].run))
    <2>1. row' = row
      BY <1>6, GuardedWrite
    <2>2. QED
      BY <1>6, <2>1, QueueAnnounced DEF Announces
  <1>7. QED
    BY <1>3, <1>4, <1>5, <1>6

\* A save that goes on waiting stays the one it was.
LEMMA StepHarmless ==
    ASSUME Separated = FALSE, IInv, NEW w \in Worker, WorkerStep(w) \/ WorkerFault(w),
           w \in waiting', Harmless(w)
    PROVE  Harmless(w)'
  <1>1. worker[w] \in WorkerRecord
    BY DEF IInv, TypeOK
  <1>2. /\ ~Checkpoint(w) /\ ~Persist(w) /\ ~Save(w) /\ ~SaveFails(w) /\ ~WorkerCrash(w)
        /\ ~Finish(w)
    BY DEF Checkpoint, Persist, Save, SaveFails, WorkerCrash, Finish, Answered
  <1>3. CASE worker[w].chain = <<>>
    <2>1. worker[w].pc \in {"persist", "close", "save"} /\ ~worker[w].run.bundle
      BY <1>3 DEF Harmless
    <2>2. RenewalRefused(w) \/ StatementFails(w)
      BY <1>2, <2>1 DEF WorkerStep, WorkerFault, Load, Advance, EnsureActive, Throw, Sign, HandOff,
         InsertSigningJob, HandOffFails, Executing, Finished
    <2>3. Set(w, [worker[w] EXCEPT !.lost = TRUE])
      BY <2>2 DEF RenewalRefused, StatementFails
    <2>4. /\ worker'[w].pc = worker[w].pc /\ worker'[w].run = worker[w].run
          /\ worker'[w].chain = worker[w].chain
      BY <1>1, <2>3, SetOnly DEF WorkerRecord
    <2>5. QED
      BY <1>3, <2>1, <2>4 DEF Harmless
  <1>4. CASE worker[w].chain # <<>>
    <2>1. /\ worker[w].chain \in Seq(Snapshot) /\ worker[w].run \in Snapshot
          /\ ~Head(worker[w].chain).bundle /\ worker[w].pc \notin {"idle", "load"}
      BY <1>1, <1>4 DEF Harmless, WorkerRecord
    <2>2. ASSUME NEW run \in Snapshot
          PROVE  /\ Append(worker[w].chain, run) # <<>>
                 /\ Head(Append(worker[w].chain, run)) = Head(worker[w].chain)
      BY <1>4, <2>1
    <2>3. ASSUME NEW state \in PipelineState PROVE Emit(worker[w].run, state) \in Snapshot
      BY <2>1, EmitType
    <2>4. Publishes(w) \/ Bails(w) \/ Jumps(w) \/ Signs(w)
      BY <1>2, <2>1, WorkerTurns DEF Loads, HandsOff, FailsToHandOff, Unchains
    <2>5. /\ worker'[w].pc \notin {"idle", "load"}
          /\ \/ worker'[w].chain = worker[w].chain
             \/ \E state \in PipelineState :
                   worker'[w].chain = Append(worker[w].chain, Emit(worker[w].run, state))
      BY <2>1, <2>4 DEF Publishes, Bails, Jumps, Signs, Turns, PipelineState
    <2>6. worker'[w].chain # <<>> /\ Head(worker'[w].chain) = Head(worker[w].chain)
      BY <1>4, <2>2, <2>3, <2>5
    <2>7. QED
      BY <2>1, <2>5, <2>6 DEF Harmless
  <1>5. QED
    BY <1>3, <1>4

\* Neither has a worker that has just claimed.
LEMMA ClaimFit == ASSUME IInv, NEW w \in Worker, Claim(w) PROVE Fit(w)'
  BY ClaimTurns, CreatedFields DEF Fit, Sound, AllSound

\* Only its holder closes the job, and no worker acknowledges a cancellation.
LEMMA JobKept ==
    ASSUME NEW w \in Worker, WorkerStep(w) \/ WorkerFault(w)
    PROVE  /\ \/ job' = job
              \/ /\ Holds(job, worker[w].token)
                 /\ \E status \in {"completed", "failed"} : job' = Close(job, status)
           /\ acked' = acked
  <1>1. CASE Finish(w)
    BY <1>1 DEF Finish
  <1>2. CASE ~Finish(w)
    BY <1>2 DEF WorkerStep, WorkerFault, Load, Advance, EnsureActive, Throw, Sign, HandOff,
       InsertSigningJob, Checkpoint, Persist, Save, RenewalRefused, HandOffFails,
       StatementFails, SaveFails, WorkerCrash
  <1>3. QED
    BY <1>1, <1>2

\* The invariant across a step of a worker that has claimed.
LEMMA WorkerReceipt ==
    ASSUME Separated = FALSE, IInv, WorkersDistinct, WaitsClosed, ReceiptInv, NEW w \in Worker,
           WorkerStep(w) \/ WorkerFault(w)
    PROVE  ReceiptInv'
  <1>0. job \in JobRow /\ row \in Snapshot /\ worker[w] \in WorkerRecord
    BY DEF IInv, TypeOK
  <1>1. job'.attempts = job.attempts /\ acked' = acked
    BY <1>0, JobKept DEF Close, JobRow
  <1>2. \A v \in Worker : v # w => worker'[v] = worker[v]
    BY OthersRest
  <1>3. worker'[w].token = worker[w].token \/ worker'[w] = IdleWorker
    BY Places
  <1>4. worker'[w].pc = "load" => worker[w].pc = "load" /\ worker'[w].token = worker[w].token
    BY Places DEF Unchains, Turns
  <1>5. row' # row => /\ Current(w) /\ job.attempts # 0 /\ job.status # "absent"
                      /\ Sound(row') /\ row.rev <= row'.rev
                      /\ row'.bundle => Holds(job, worker[w].token) /\ worker[w].pc # "load"
    <2> SUFFICES ASSUME row' # row
                 PROVE  /\ Current(w) /\ job.attempts # 0 /\ job.status # "absent"
                        /\ Sound(row') /\ row.rev <= row'.rev
                        /\ row'.bundle => Holds(job, worker[w].token) /\ worker[w].pc # "load"
      OBVIOUS
    <2>1. /\ Holds(job, worker[w].token) \/ w \in waiting
          /\ row.rev <= row'.rev
      BY GuardedWrite DEF Lands, Fenced, Passes
    <2>2. w \in waiting => Harmless(w)
      BY DEF ReceiptInv, WaitsHarmless
    <2>3. Current(w) /\ job.attempts # 0 /\ job.status # "absent"
      BY <2>1, <2>2 DEF Current, Holds, WaitsClosed, WorkersDistinct, Harmless, IInv, WorkerTokens
    <2>4. Fit(w)
      BY <2>3 DEF ReceiptInv, CurrentFit
    <2>5. \/ worker[w].chain # <<>> /\ row' = Head(worker[w].chain)
          \/ worker[w].chain = <<>> /\ worker[w].pc # "load" /\ row' = worker[w].run
      BY GuardedWrite DEF Persist, Save
    <2>6. Sound(row')
      BY <1>0, <2>4, <2>5, SoundChains DEF Fit, WorkerRecord
    <2>7. row'.bundle => Holds(job, worker[w].token) /\ worker[w].pc # "load"
      BY <2>1, <2>2, <2>4, <2>5 DEF Fit, Harmless
    <2>8. QED
      BY <2>1, <2>3, <2>6, <2>7
  <1>6. Sound(row')
    BY <1>5 DEF ReceiptInv
  <1>7. CurrentFit'
    <2> SUFFICES ASSUME NEW v \in Worker, Current(v)' PROVE Fit(v)'
      BY DEF CurrentFit
    <2>1. CASE v # w
      BY <1>1, <1>2, <2>1 DEF Current, ReceiptInv, CurrentFit, Fit
    <2>2. CASE v = w /\ worker'[w] = IdleWorker
      BY <2>2, IdleFit
    <2>3. CASE v = w /\ worker'[w] # IdleWorker
      <3>1. Current(w)
        BY <1>1, <1>3, <2>3 DEF Current
      <3>2. Fit(w) /\ (worker[w].pc = "load" /\ worker[w].token = 1 => ~row.bundle)
        BY <3>1 DEF ReceiptInv, CurrentFit, LoadedFirst
      <3>3. worker[w].pc = "load" => row.rev # 0
        BY <3>1 DEF Current, ReceiptInv, Started, NoJob, IInv, WorkerTokens
      <3>4. QED
        BY <2>3, <3>2, <3>3, StepFit
    <2>4. QED
      BY <2>1, <2>2, <2>3
  <1>8. LoadedFirst'
    <2> SUFFICES ASSUME row'.bundle
                 PROVE  /\ job'.attempts # 0
                        /\ \A v \in Worker : Current(v)' /\ worker'[v].token = 1
                                               => worker'[v].pc # "load"
      BY DEF LoadedFirst
    <2>1. CASE row' = row
      BY <1>1, <1>2, <1>4, <2>1 DEF ReceiptInv, LoadedFirst, Current
    <2>2. CASE row' # row
      <3>1. worker[w].token = job.attempts /\ job.attempts # 0 /\ worker[w].pc # "load"
        BY <1>5, <2>2 DEF Current
      <3>2. ASSUME NEW v \in Worker, v # w, Current(v)' PROVE FALSE
        <4>1. worker[v].token = job.attempts
          BY <1>1, <1>2, <3>2 DEF Current
        <4>2. QED
          BY <3>1, <3>2, <4>1 DEF WorkersDistinct
      <3>3. QED
        BY <1>1, <1>4, <3>1, <3>2
    <2>3. QED
      BY <2>1, <2>2
  <1>9. CancelCloses'
    <2> SUFFICES ASSUME acked = "late" PROVE job'.status \in Settled /\ ~row'.bundle
      BY <1>1 DEF CancelCloses
    <2>1. job.status \in Settled /\ ~row.bundle /\ ~Holds(job, worker[w].token)
      BY DEF ReceiptInv, CancelCloses, Settled, Holds
    <2>2. QED
      BY <1>5, <2>1, JobKept
  <1>10. Started'
    <2> SUFFICES ASSUME row'.rev = 0 PROVE row' = NoRow /\ job' = NoJob
      BY DEF Started
    <2>1. row.rev \in Nat /\ (row' = row \/ row.rev <= row'.rev)
      BY <1>0, <1>5 DEF Snapshot
    <2>2. row = NoRow /\ job = NoJob
      BY <2>1 DEF ReceiptInv, Started
    <2>3. ~Holds(job, worker[w].token) /\ job.status = "absent"
      BY <2>2 DEF NoJob, Holds
    <2>4. QED
      BY <1>5, <2>2, <2>3, JobKept
  <1>11. AllAnnounced'
    <2> SUFFICES ASSUME NEW v \in Worker, Holds(job, worker[v].token)' PROVE Announces(v)'
      BY DEF AllAnnounced
    <2>1. ASSUME NEW status \in {"completed", "failed"}, job' = Close(job, status) PROVE FALSE
      BY <1>0, <2>1 DEF Close, JobRow, Holds
    <2>2. job' = job /\ job.attempts # 0
      BY <2>1, JobKept DEF Holds, WorkersDistinct
    <2>3. CASE v # w
      <3>1. worker'[v] = worker[v] /\ Holds(job, worker[v].token)
        BY <1>2, <2>2, <2>3
      <3>2. row' = row
        BY <1>5, <2>2, <2>3, <3>1 DEF Current, Holds, WorkersDistinct
      <3>3. QED
        BY <3>1, <3>2 DEF ReceiptInv, AllAnnounced, Announces
    <2>4. CASE v = w
      <3>1. worker'[w] # IdleWorker
        BY <2>2, <2>4 DEF Holds, IdleWorker
      <3>2. Holds(job, worker[w].token) /\ Current(w)
        BY <1>3, <2>2, <2>4, <3>1 DEF Current, Holds
      <3>3. Fit(w) /\ (worker[w].pc = "load" /\ worker[w].token = 1 => ~row.bundle)
        BY <3>2 DEF ReceiptInv, CurrentFit, LoadedFirst
      <3>4. QED
        BY <2>4, <3>2, <3>3, StepAnnounces DEF ReceiptInv, AllAnnounced
    <2>5. QED
      BY <2>3, <2>4
  <1>12. WaitsHarmless'
    <2> SUFFICES ASSUME NEW v \in Worker, v \in waiting' PROVE Harmless(v)'
      BY DEF WaitsHarmless
    <2>1. v \in waiting
      <3>1. CASE Finish(w) \/ WorkerCrash(w)
        BY <3>1 DEF Finish, WorkerCrash, Answered
      <3>2. CASE ~Finish(w) /\ ~WorkerCrash(w)
        BY <3>2, KeepingSteps
      <3>3. QED
        BY <3>1, <3>2
    <2>2. Harmless(v)
      BY <2>1 DEF ReceiptInv, WaitsHarmless
    <2>3. CASE v # w
      BY <1>2, <2>2, <2>3 DEF Harmless
    <2>4. CASE v = w
      BY <2>2, <2>4, StepHarmless
    <2>5. QED
      BY <2>3, <2>4
  <1>13. QED
    BY <1>6, <1>7, <1>8, <1>9, <1>10, <1>11, <1>12 DEF ReceiptInv

\* The invariant across every other step.
LEMMA WebReceipt ==
    ASSUME IInv, WorkersDistinct, ReceiptInv, Web \/ FailExhausted \/ LeaseExpires
    PROVE  ReceiptInv'
  <1>0. job \in JobRow /\ row \in Snapshot /\ upserts \subseteq {Created, Emit(Created, "FAILED")}
    BY DEF IInv, TypeOK
  <1>1. worker' = worker
    BY DEF Web, Enqueue, EnqueueRefused, EnqueueUnacknowledged, Upsert, Cancel, FailExhausted,
       LeaseExpires
  <1>2. job'.attempts = job.attempts
    <2>1. CASE Enqueue \/ EnqueueUnacknowledged
      BY <2>1 DEF Enqueue, EnqueueUnacknowledged, IInv, NotYetQueued, NoJob, Queued
    <2>2. CASE EnqueueRefused \/ \E u \in upserts : Upsert(u)
      BY <2>2 DEF EnqueueRefused, Upsert
    <2>3. Close(job, "cancelled").attempts = job.attempts
          /\ Close(job, "failed").attempts = job.attempts
      BY <1>0 DEF Close, JobRow
    <2>4. CASE Cancel
      BY <2>3, <2>4 DEF Cancel, CancelledJob
    <2>5. CASE FailExhausted
      BY <2>3, <2>5 DEF FailExhausted
    <2>6. CASE LeaseExpires
      BY <1>0, <2>6 DEF LeaseExpires, JobRow
    <2>7. QED
      BY <2>1, <2>2, <2>4, <2>5, <2>6 DEF Web
  <1>3. CurrentFit'
    BY <1>1, <1>2 DEF ReceiptInv, CurrentFit, Current, Fit
  <1>4. /\ row'.bundle => row.bundle
        /\ Final(row) => Final(row')
        /\ row'.rev = 0 => row' = row /\ ~Enqueue /\ ~EnqueueUnacknowledged /\ ~Cancel
    <2>0. row.rev \in Nat
      BY <1>0 DEF Snapshot
    <2>1. ASSUME Enqueue \/ EnqueueUnacknowledged
          PROVE  /\ row'.bundle => row.bundle
                 /\ Final(row) => Final(row')
                 /\ row'.rev # 0
      <3>1. row' = IF row = NoRow THEN Created ELSE row
        BY <2>1 DEF Enqueue, EnqueueUnacknowledged
      <3>2. row' = row => row.rev # 0
        BY <3>1, CreatedFields DEF ReceiptInv, Started
      <3>3. QED
        BY <3>1, <3>2, CreatedFields DEF Final
    <2>2. ASSUME NEW u \in upserts, Upsert(u)
          PROVE  /\ row'.bundle => row.bundle
                 /\ Final(row) => Final(row')
                 /\ row'.rev = 0 => row' = row
      <3>1. u = Created \/ u = Emit(Created, "FAILED")
        BY <1>0
      <3>2. u.rev \in {1, 2} /\ ~u.bundle /\ (u.rev = 2 => u.state = "FAILED")
        BY <3>1, CreatedFields
      <3>3. row' = row \/ (row' = u /\ row.rev <= u.rev)
        BY <2>2 DEF Upsert
      <3>4. QED
        BY <2>0, <3>2, <3>3 DEF Final, Terminal
    <2>3. ASSUME EnqueueRefused \/ LeaseExpires PROVE row' = row
      BY <2>3 DEF EnqueueRefused, LeaseExpires, NoWrite
    <2>4. ASSUME FailExhausted
          PROVE  /\ row'.bundle => row.bundle
                 /\ Final(row) => Final(row')
                 /\ row'.rev # 0
      <3>1. row'.bundle = row.bundle /\ row'.rev = row.rev /\ row'.state = "FAILED"
        BY <1>0, <2>4 DEF FailExhausted, Snapshot
      <3>2. row.rev # 0
        BY <2>4 DEF FailExhausted, Exhausted, ReceiptInv, Started, NoJob
      <3>3. QED
        BY <3>1, <3>2 DEF Final, Terminal
    <2>5. ASSUME Cancel
          PROVE  row'.bundle = row.bundle /\ ~Final(row) /\ row'.rev # 0
      <3> DEFINE run == Emit(row, "CANCELLED")
      <3>1. run \in Snapshot /\ run.bundle = row.bundle /\ run.rev = row.rev + 1
        BY <1>0, EmitType, EmitFields DEF PipelineState
      <3>2. row' = [run EXCEPT !.cancelled = TRUE]
        BY <2>5 DEF Cancel
      <3> HIDE DEF run
      <3>3. row'.bundle = row.bundle /\ row'.rev = row.rev + 1
        BY <3>1, <3>2 DEF Snapshot
      <3>4. ~Final(row)
        BY <2>5 DEF Cancel, Final
      <3>5. QED
        BY <2>0, <3>3, <3>4
    <2>6. QED
      BY <2>1, <2>2, <2>3, <2>4, <2>5 DEF Web
  <1>5. Sound(row') /\ LoadedFirst'
    BY <1>1, <1>2, <1>4 DEF ReceiptInv, Sound, LoadedFirst, Current
  <1>6. Started'
    <2> SUFFICES ASSUME row'.rev = 0 PROVE row' = NoRow /\ job' = NoJob
      BY DEF Started
    <2>1. row' = NoRow /\ job = NoJob /\ ~Enqueue /\ ~EnqueueUnacknowledged /\ ~Cancel
      BY <1>4 DEF ReceiptInv, Started
    <2>2. ~FailExhausted /\ ~LeaseExpires
      BY <2>1 DEF FailExhausted, Exhausted, LeaseExpires, NoJob
    <2>3. QED
      BY <2>1, <2>2 DEF Web, EnqueueRefused, Upsert
  <1>7. AllAnnounced'
    <2> SUFFICES ASSUME NEW w \in Worker, Holds(job, worker[w].token)' PROVE Announces(w)'
      BY DEF AllAnnounced
    <2>1. CASE EnqueueRefused \/ \E u \in upserts : Upsert(u)
      <3>1. Holds(job, worker[w].token)
        BY <1>1, <2>1 DEF EnqueueRefused, Upsert
      <3>2. Announces(w)
        BY <3>1 DEF ReceiptInv, AllAnnounced
      <3>3. QED
        BY <1>1, <1>4, <3>2, FinalAnnounced DEF Announces
    <2>2. CASE Enqueue \/ EnqueueUnacknowledged
      BY <2>2 DEF Enqueue, EnqueueUnacknowledged, Queued, Holds
    <2>3. CASE Cancel \/ FailExhausted \/ LeaseExpires
      BY <1>0, <2>3 DEF Cancel, CancelledJob, FailExhausted, LeaseExpires, Close, JobRow, Holds
    <2>4. QED
      BY <2>1, <2>2, <2>3 DEF Web
  <1>8. WaitsHarmless'
    <2> SUFFICES ASSUME NEW w \in Worker, w \in waiting' PROVE Harmless(w)'
      BY DEF WaitsHarmless
    <2>1. CASE w \in waiting
      BY <1>1, <2>1 DEF ReceiptInv, WaitsHarmless, Harmless
    <2>2. CASE w \notin waiting
      <3>1. Cancel /\ w \in Saving
        BY <2>2 DEF Web, Enqueue, EnqueueRefused, EnqueueUnacknowledged, Upsert, Cancel,
           FailExhausted, LeaseExpires
      <3>2. /\ ~worker[w].lost /\ Holds(job, worker[w].token)
            /\ worker[w].chain # <<>> \/ worker[w].pc \in {"persist", "close", "save"}
        BY <3>1, DurableTrialAssumption DEF Saving
      <3>3. Announced(row, worker[w].chain, worker[w].run) /\ Fit(w)
        BY <3>2 DEF ReceiptInv, AllAnnounced, Announces, CurrentFit, Current, Holds
      <3>4. worker[w].pc # "idle"
        BY <3>2 DEF Holds, WorkersDistinct, IInv, WorkerTokens
      <3>5. ~Final(row)
        BY <3>1 DEF Cancel, Final
      <3>6. worker[w].chain \in Seq(Snapshot)
        BY DEF IInv, TypeOK, WorkerRecord
      <3>7. Harmless(w)
        BY <3>2, <3>3, <3>4, <3>5, <3>6 DEF Harmless, Announced, Fit
      <3>8. QED
        BY <1>1, <3>7 DEF Harmless
    <2>3. QED
      BY <2>1, <2>2
  <1>9. CancelCloses'
    <2> SUFFICES ASSUME acked' = "late" PROVE job'.status \in Settled /\ ~row'.bundle
      BY DEF CancelCloses
    <2>1. CASE Cancel
      <3>1. ~row.bundle /\ job.status # "absent"
        BY <2>1 DEF Cancel, ReceiptInv, Sound, Final
      <3>2. job'.status \in Settled
        BY <1>0, <2>1, <3>1 DEF Cancel, CancelledJob, Close, Settled, JobRow
      <3>3. QED
        BY <1>4, <3>1, <3>2
    <2>2. CASE ~Cancel
      <3>1. acked = "late"
        BY <2>2 DEF Web, Enqueue, EnqueueRefused, EnqueueUnacknowledged, Upsert, FailExhausted,
           LeaseExpires
      <3>2. job.status \in Settled /\ ~row.bundle
        BY <3>1 DEF ReceiptInv, CancelCloses
      <3>3. ~Enqueue /\ ~EnqueueUnacknowledged /\ ~FailExhausted /\ ~LeaseExpires
        BY <3>2 DEF Settled, Enqueue, EnqueueUnacknowledged, IInv, NotYetQueued, NoJob,
           FailExhausted, Exhausted, LeaseExpires
      <3>4. job' = job
        BY <2>2, <3>3 DEF Web, EnqueueRefused, Upsert
      <3>5. QED
        BY <1>4, <3>2, <3>4
    <2>3. QED
      BY <2>1, <2>2
  <1>10. QED
    BY <1>3, <1>5, <1>6, <1>7, <1>8, <1>9 DEF ReceiptInv

\* The invariant across a claim.
LEMMA ClaimReceipt ==
    ASSUME IInv, WorkersDistinct, WaitsClosed, ReceiptInv, NEW w \in Worker, Claim(w)
    PROVE  ReceiptInv'
  <1>0. job.attempts \in Nat
    BY DurableTrialAssumption DEF IInv, TypeOK, JobRow
  <1>1. row' = row /\ acked' = acked
    BY DEF Claim, NoWrite
  <1>2. job'.attempts = job.attempts + 1 /\ \A v \in Worker : v # w => worker'[v] = worker[v]
    BY ClaimTurns, OthersRest
  <1>3. ASSUME NEW v \in Worker, v # w PROVE ~Current(v)'
    <2>1. worker[v].token \in Nat
      BY DurableTrialAssumption DEF IInv, TypeOK, WorkerRecord
    <2>2. worker[v].token <= job.attempts
      BY DEF WorkersDistinct
    <2>3. QED
      BY <1>0, <1>2, <1>3, <2>1, <2>2 DEF Current
  <1>4. CurrentFit'
    BY <1>3, ClaimFit DEF CurrentFit
  <1>5. LoadedFirst'
    <2> SUFFICES ASSUME row.bundle
                 PROVE  /\ job'.attempts # 0
                        /\ \A v \in Worker : Current(v)' /\ worker'[v].token = 1
                                               => worker'[v].pc # "load"
      BY <1>1 DEF LoadedFirst
    <2>1. job.attempts # 0 /\ worker'[w].token # 1
      BY <1>0, <1>2, ClaimTurns DEF ReceiptInv, LoadedFirst
    <2>2. QED
      BY <1>0, <1>2, <1>3, <2>1
  <1>6. CancelCloses'
    <2>1. job.status \notin Settled
      BY DEF Claim, Claimable, Settled
    <2>2. QED
      BY <1>1, <2>1 DEF ReceiptInv, CancelCloses
  <1>7. Started'
    BY <1>1 DEF ReceiptInv, Started, Claim, Claimable, NoJob
  <1>8. AllAnnounced'
    <2> SUFFICES ASSUME NEW v \in Worker, Holds(job, worker[v].token)' PROVE Announces(v)'
      BY DEF AllAnnounced
    <2>1. v = w
      BY <1>3 DEF Holds, Current
    <2>2. QED
      BY <2>1, ClaimTurns, PlainAnnounced, CreatedFields DEF Announces
  <1>9. WaitsHarmless'
    <2>1. waiting' = waiting /\ job.status # "cancelled"
      BY DEF Claim, Claimable
    <2>2. QED
      BY <2>1 DEF WaitsHarmless, WaitsClosed
  <1>10. QED
    BY <1>1, <1>4, <1>5, <1>6, <1>7, <1>8, <1>9 DEF ReceiptInv, Sound

\* Where workers sign for themselves, a cancellation acknowledged once the
\* trial was queued is never followed by a receipt.
THEOREM NoReceiptAfterCancel == Separated = FALSE => (Spec => []CancelPreventsReceipt)
  <1> SUFFICES ASSUME Separated = FALSE PROVE Spec => []CancelPreventsReceipt
    OBVIOUS
  <1>1. Init => ReceiptInv
    <2> SUFFICES ASSUME Init PROVE ReceiptInv
      OBVIOUS
    <2>1. ASSUME NEW w \in Worker PROVE Fit(w)
      <3>1. worker[w].run = NoRow /\ worker[w].chain = <<>> /\ worker[w].pc = "idle"
        BY DEF Init, IdleWorker
      <3>2. QED
        BY <3>1, CreatedFields DEF Fit, Sound, AllSound
    <2>2. AllAnnounced /\ WaitsHarmless /\ Started
      BY DEF Init, AllAnnounced, Holds, NoJob, WaitsHarmless, Started
    <2>3. QED
      BY <2>1, <2>2, CreatedFields DEF Init, ReceiptInv, CurrentFit, Sound, LoadedFirst, CancelCloses
  <1>2. IInv /\ WorkersDistinct /\ WaitsClosed /\ NoSigning /\ ReceiptInv /\ [Next]_vars
          => ReceiptInv'
    <2> SUFFICES ASSUME IInv, WorkersDistinct, WaitsClosed, NoSigning, ReceiptInv, [Next]_vars
                 PROVE  ReceiptInv'
      OBVIOUS
    <2>1. CASE Web \/ FailExhausted \/ LeaseExpires
      BY <2>1, WebReceipt
    <2>2. ASSUME NEW w \in Worker, Claim(w) \/ WorkerStep(w) \/ WorkerFault(w) PROVE ReceiptInv'
      BY <2>2, ClaimReceipt, WorkerReceipt
    <2>3. ASSUME NEW s \in Signer, ClaimSigning(s) \/ SignerStep(s) \/ SignerFault(s) PROVE FALSE
      BY <2>3, SignersRest
    <2>4. CASE SigningLeaseExpires
      BY <2>4 DEF NoSigning, NoJob, SigningLeaseExpires
    <2>5. CASE UNCHANGED vars
      BY <2>5 DEF vars, ReceiptInv, CurrentFit, Current, Fit, Sound, Started, LoadedFirst,
         AllAnnounced, Announces, WaitsHarmless, Harmless, CancelCloses
    <2>6. QED
      BY <2>1, <2>2, <2>3, <2>4, <2>5 DEF Next
  <1>3. ReceiptInv => CancelPreventsReceipt
    BY DEF ReceiptInv, CancelCloses, CancelPreventsReceipt
  <1>4. QED
    BY <1>1, <1>2, <1>3, Invariance, TokensInvariance, WaitsInvariance, NoSigningInvariance, PTL
    DEF Spec

-----------------------------------------------------------------------------
\* Workers that keep their leases, with signers of their own

\* A claim statement would give the job away.
Available == job.status = "queued" \/ (job.status = "running" /\ ~job.live)

\* Whoever is at work made the latest attempt, and nobody is while the job is
\* available.
OneAtWork ==
    /\ \A w \in Worker : worker[w].token \in {0, job.attempts}
    /\ Available => \A w \in Worker : worker[w].token = 0

\* A worker that has claimed neither opens the job nor issues a token.
LEMMA JobStays ==
    ASSUME IInv, NEW w \in Worker, WorkerStep(w) \/ WorkerFault(w)
    PROVE  /\ job'.attempts = job.attempts
           /\ Available' => Available
           /\ worker'[w].token \in {0, worker[w].token}
  <1>0. job \in JobRow
    BY DEF IInv, TypeOK
  <1>1. worker'[w].token \in {0, worker[w].token}
    BY Places DEF IdleWorker
  <1>2. CASE job' = job
    BY <1>1, <1>2 DEF Available
  <1>3. ASSUME NEW status \in {"completed", "failed"}, job' = Close(job, status)
        PROVE  job'.attempts = job.attempts /\ ~Available'
    BY <1>0, <1>3 DEF Close, JobRow, Available
  <1>4. QED
    BY <1>1, <1>2, <1>3, JobKept

\* Without stalls a lease outlives its worker's work.
LEMMA OneAtWorkInvariance == "worker" \notin Stalls => (Spec => []OneAtWork)
  <1> SUFFICES ASSUME "worker" \notin Stalls PROVE Spec => []OneAtWork
    OBVIOUS
  <1>1. Init => OneAtWork
    BY DEF Init, OneAtWork, Available, IdleWorker, NoJob
  <1>2. IInv /\ OneAtWork /\ [Next]_vars => OneAtWork'
    <2> SUFFICES ASSUME IInv, OneAtWork, [Next]_vars PROVE OneAtWork'
      OBVIOUS
    <2>0. job \in JobRow
      BY DEF IInv, TypeOK
    <2>1. CASE Enqueue \/ EnqueueUnacknowledged
      <3>1. job = NoJob /\ job' = Queued /\ worker' = worker
        BY <2>1 DEF Enqueue, EnqueueUnacknowledged, IInv, NotYetQueued
      <3>2. QED
        BY <3>1 DEF OneAtWork, NoJob, Queued
    <2>2. CASE Cancel \/ FailExhausted
      <3>1. ASSUME NEW status \in {"failed", "cancelled"}
            PROVE  Close(job, status).attempts = job.attempts /\ Close(job, status).status = status
        BY <2>0 DEF Close, JobRow
      <3>2. job' = job \/ \E status \in {"failed", "cancelled"} : job' = Close(job, status)
        BY <2>2 DEF Cancel, FailExhausted, CancelledJob
      <3>3. worker' = worker
        BY <2>2 DEF Cancel, FailExhausted
      <3>4. QED
        BY <3>1, <3>2, <3>3 DEF OneAtWork, Available
    <2>3. CASE LeaseExpires
      <3>1. job'.attempts = job.attempts /\ worker' = worker
        BY <2>0, <2>3 DEF LeaseExpires, JobRow
      <3>2. \A w \in Worker : worker[w].token = 0
        BY <2>3 DEF LeaseExpires, OneAtWork
      <3>3. QED
        BY <3>1, <3>2 DEF OneAtWork
    <2>4. ASSUME NEW w \in Worker, Claim(w) PROVE OneAtWork'
      <3>1. Available /\ job'.status = "running" /\ job'.live
        BY <2>4 DEF Claim, Claimable, Claimed, Available
      <3>2. worker'[w].token = job'.attempts /\ \A v \in Worker : v # w => worker'[v] = worker[v]
        BY <2>4, ClaimTurns, OthersRest
      <3>3. QED
        BY <3>1, <3>2 DEF OneAtWork, Available
    <2>5. ASSUME NEW w \in Worker, WorkerStep(w) \/ WorkerFault(w) PROVE OneAtWork'
      BY <2>5, JobStays, OthersRest DEF OneAtWork
    <2>6. CASE EnqueueRefused \/ (\E u \in upserts : Upsert(u)) \/ SigningLeaseExpires
               \/ UNCHANGED vars
      BY <2>6 DEF EnqueueRefused, Upsert, SigningLeaseExpires, vars, OneAtWork, Available
    <2>7. ASSUME NEW s \in Signer, ClaimSigning(s) \/ SignerStep(s) \/ SignerFault(s)
          PROVE  OneAtWork'
      BY <2>7 DEF ClaimSigning, SignerStep, SignerFault, Finalize, SaveSigned, SaveRejected,
         FinishSigning, SigningFails, SignerCrash, OneAtWork, Available
    <2>8. QED
      BY <2>1, <2>2, <2>3, <2>4, <2>5, <2>6, <2>7 DEF Next, Web
  <1>3. QED
    BY <1>1, <1>2, Invariance, PTL DEF Spec

\* A worker that leaves the signing to signers never has a bundle.
AllPlain(chain) == \A i \in 1..Len(chain) : ~chain[i].bundle
Plain(w) == ~worker[w].run.bundle /\ AllPlain(worker[w].chain)

\* Plain chains are built and taken apart plainly.
LEMMA PlainChains ==
    ASSUME NEW chain \in Seq(Snapshot), NEW run
    PROVE  /\ AllPlain(<<>>)
           /\ ~run.bundle => AllPlain(<<run>>)
           /\ AllPlain(chain) /\ ~run.bundle => AllPlain(Append(chain, run))
           /\ AllPlain(chain) /\ chain # <<>> => AllPlain(Tail(chain)) /\ ~Head(chain).bundle
  BY DEF AllPlain

\* A worker that leaves the signing to signers attaches no bundle.
LEMMA StepPlain ==
    ASSUME Separated = TRUE, IInv, NEW w \in Worker, WorkerStep(w) \/ WorkerFault(w), Plain(w),
           worker[w].pc = "load" /\ worker[w].token = 1 => ~row.bundle
    PROVE  Plain(w)'
  <1>1. worker[w].run \in Snapshot /\ worker[w].chain \in Seq(Snapshot)
    BY DEF IInv, TypeOK, WorkerRecord
  <1>2. ~worker[w].run.bundle /\ AllPlain(worker[w].chain)
    BY DEF Plain
  <1>3. CASE worker'[w] = IdleWorker
    BY <1>3, CreatedFields DEF Plain, AllPlain, IdleWorker
  <1>4. CASE Loads(w)
    <2>1. PICK run, chain : /\ Turns(w, "execute", run, chain) /\ ~run.bundle
                            /\ chain = <<>> \/ chain = <<run>>
      BY <1>4, CreatedFields DEF Loads
    <2>2. AllPlain(chain)
      BY <2>1, PlainChains, EmptySeq
    <2>3. QED
      BY <2>1, <2>2 DEF Plain, Turns
  <1>5. ASSUME NEW pc, NEW run, ~run.bundle, Turns(w, pc, run, Append(worker[w].chain, run))
        PROVE  Plain(w)'
    BY <1>1, <1>2, <1>5, PlainChains DEF Plain, Turns
  <1>6. CASE Publishes(w) \/ Bails(w)
    BY <1>1, <1>2, <1>5, <1>6, EmitFields DEF Publishes, Bails
  <1>7. Pending(worker[w].run) \in Snapshot /\ ~Pending(worker[w].run).bundle
    BY <1>1, <1>2 DEF Pending, Snapshot, PipelineState
  <1>8. CASE FailsToHandOff(w)
    <2>1. ~Emit(Pending(worker[w].run), "FAILED").bundle
      BY <1>7, EmitFields
    <2>2. QED
      BY <1>5, <1>8, <2>1 DEF FailsToHandOff
  <1>9. CASE HandsOff(w)
    BY <1>2, <1>7, <1>9 DEF HandsOff, Plain, Turns
  <1>10. CASE Jumps(w)
    BY <1>10 DEF Jumps, Plain, Turns
  <1>11. CASE Signs(w)
    BY <1>11 DEF Signs
  <1>12. CASE Unchains(w)
    BY <1>1, <1>2, <1>12, PlainChains DEF Unchains, Plain, Turns
  <1>13. QED
    BY <1>3, <1>4, <1>6, <1>8, <1>9, <1>10, <1>11, <1>12, WorkerTurns

\* No worker writes a bundle there either.
LEMMA PlainWrite ==
    ASSUME IInv, NEW w \in Worker, Plain(w), Claim(w) \/ WorkerStep(w) \/ WorkerFault(w)
    PROVE  row' = row \/ ~row'.bundle
  <1>1. worker[w].run \in Snapshot /\ worker[w].chain \in Seq(Snapshot)
    BY DEF IInv, TypeOK, WorkerRecord
  <1>2. CASE Checkpoint(w)
    BY <1>1, <1>2, PlainChains DEF Checkpoint, Write, NoWrite, Plain
  <1>3. CASE Persist(w) \/ Save(w)
    BY <1>3 DEF Persist, Save, Write, NoWrite, Plain
  <1>4. CASE HandOff(w)
    <2>1. row' = Pending(worker[w].run)
      BY <1>4 DEF HandOff, Write, Pending
    <2>2. QED
      BY <1>1, <2>1 DEF Plain, Pending, Snapshot
  <1>5. CASE Claim(w) \/ Load(w) \/ Advance(w) \/ EnsureActive(w) \/ Throw(w) \/ Sign(w)
             \/ InsertSigningJob(w) \/ Finish(w) \/ RenewalRefused(w)
    BY <1>5 DEF Claim, Load, Advance, EnsureActive, Throw, Sign, InsertSigningJob, Finish,
       RenewalRefused, NoWrite
  <1>6. CASE HandOffFails(w) \/ StatementFails(w) \/ SaveFails(w) \/ WorkerCrash(w)
    BY <1>6 DEF HandOffFails, StatementFails, SaveFails, WorkerCrash, NoWrite
  <1>7. QED
    BY <1>2, <1>3, <1>4, <1>5, <1>6 DEF WorkerStep, WorkerFault

\* Only InsertSigningJob makes a signing job, and only where there is none.
LEMMA Inserts ==
    ASSUME NEW w \in Worker, Claim(w) \/ WorkerStep(w) \/ WorkerFault(w)
    PROVE  /\ sig' = sig \/ (InsertSigningJob(w) /\ sig.status = "absent" /\ sig' = Queued)
           /\ signer' = signer
  BY DEF Claim, WorkerStep, WorkerFault, Load, Advance, EnsureActive, Throw, Sign, HandOff,
     InsertSigningJob, Checkpoint, Persist, Save, Finish, RenewalRefused, HandOffFails,
     StatementFails, SaveFails, WorkerCrash

\* No first attempt is still to load the run once a signing job exists.
SigningFollows ==
    sig.status # "absent" =>
        job.attempts # 0 /\ \A w \in Worker : worker[w].token = 1 => worker[w].pc # "load"

SeparateInv ==
    /\ \A w \in Worker : Plain(w)
    /\ \A s \in Signer : ~signer[s].run.pend
    /\ ~(row.pend /\ row.bundle)
    /\ row.bundle => sig.status # "absent"
    /\ SigningFollows

\* A signing job that exists keeps existing.
LEMMA SigningStays ==
    ASSUME IInv, [Next]_vars, sig.status # "absent"
    PROVE  sig'.status # "absent"
  <1>0. sig \in JobRow
    BY DEF IInv, TypeOK
  <1>1. ASSUME NEW status \in {"completed", "failed", "cancelled"}
        PROVE  Close(sig, status).status = status
    BY <1>0 DEF Close, JobRow
  <1>2. CASE Cancel
    BY <1>1, <1>2 DEF Cancel, CancelledJob
  <1>3. CASE SigningLeaseExpires
    BY <1>0, <1>3 DEF SigningLeaseExpires, JobRow
  <1>4. ASSUME NEW w \in Worker, Claim(w) \/ WorkerStep(w) \/ WorkerFault(w)
        PROVE  sig'.status # "absent"
    BY <1>4, Inserts
  <1>5. ASSUME NEW s \in Signer, ClaimSigning(s) PROVE sig'.status # "absent"
    BY <1>5 DEF ClaimSigning, Claimed
  <1>6. ASSUME NEW s \in Signer, FinishSigning(s) PROVE sig'.status # "absent"
    BY <1>1, <1>6 DEF FinishSigning
  <1>7. ASSUME NEW s \in Signer, SignerStep(s) \/ SignerFault(s), ~FinishSigning(s)
        PROVE  sig' = sig
    BY <1>7 DEF SignerStep, SignerFault, Finalize, SaveSigned, SaveRejected, SigningFails,
       SignerCrash
  <1>8. CASE Enqueue \/ EnqueueRefused \/ EnqueueUnacknowledged \/ (\E u \in upserts : Upsert(u))
             \/ FailExhausted \/ LeaseExpires \/ UNCHANGED vars
    BY <1>8 DEF Enqueue, EnqueueRefused, EnqueueUnacknowledged, Upsert, FailExhausted,
       LeaseExpires, vars
  <1>9. QED
    BY <1>2, <1>3, <1>4, <1>5, <1>6, <1>7, <1>8 DEF Next, Web

\* What a signer makes of its copy of the run, and of the stored one.
LEMMA SignerWrites ==
    ASSUME IInv, NEW s \in Signer, ClaimSigning(s) \/ SignerStep(s) \/ SignerFault(s)
    PROVE  /\ ~signer'[s].run.pend \/ signer'[s].run = signer[s].run
           /\ \A t \in Signer : t # s => signer'[t] = signer[t]
           /\ row' = row \/ (Passes(s, sig, signer[s].token) /\ row' = signer[s].run)
           /\ worker' = worker /\ job' = job
           /\ sig.status = "absent" => sig'.status = "absent"
  <1>1. signer[s] \in SignerRecord /\ row \in Snapshot /\ signer \in [Signer -> SignerRecord]
    BY DEF IInv, TypeOK
  <1>2. ASSUME NEW run \in Snapshot
        PROVE  ~Signed(run).pend /\ ~Rejected(run).pend
    <2>1. Emit(run, "COMPLETED") \in Snapshot /\ Emit(run, "FAILED") \in Snapshot
      BY EmitType DEF PipelineState
    <2>2. QED
      BY <2>1 DEF Signed, Rejected, Snapshot
  <1>3. signer[s].run \in Snapshot /\ IdleSigner \in SignerRecord /\ ~IdleSigner.run.pend
    BY <1>1, IdleTypes, CreatedFields DEF SignerRecord, IdleSigner
  <1>4. ASSUME NEW r, SetSigner(s, r)
        PROVE  signer'[s] = r /\ \A t \in Signer : t # s => signer'[t] = signer[t]
    BY <1>1, <1>4 DEF SetSigner
  <1>5. ASSUME NEW pc, NEW run, SetSigner(s, [signer[s] EXCEPT !.pc = pc, !.run = run])
        PROVE  signer'[s].run = run /\ \A t \in Signer : t # s => signer'[t] = signer[t]
    <2> DEFINE r == [signer[s] EXCEPT !.pc = pc, !.run = run]
    <2>1. r.run = run
      BY <1>1 DEF SignerRecord
    <2>2. SetSigner(s, r)
      BY <1>5
    <2> HIDE DEF r
    <2>3. QED
      BY <1>4, <2>1, <2>2
  <1>6. ASSUME NEW pc, SetSigner(s, [signer[s] EXCEPT !.pc = pc])
        PROVE  signer'[s].run = signer[s].run /\ \A t \in Signer : t # s => signer'[t] = signer[t]
    BY <1>1, <1>4, <1>6 DEF SignerRecord
  <1>7. ~Rejected(signer[s].run).pend
    BY <1>2, <1>3
  <1>8. CASE ClaimSigning(s)
    <2> DEFINE r == [IdleSigner EXCEPT !.pc = "load", !.token = Claimed(sig).attempts]
    <2>1. ~r.run.pend
      BY <1>3 DEF IdleSigner
    <2>2. SetSigner(s, r)
      BY <1>8 DEF ClaimSigning
    <2>3. row' = row /\ worker' = worker /\ job' = job /\ sig.status # "absent"
      BY <1>8 DEF ClaimSigning, NoWrite, Claimable
    <2> HIDE DEF r
    <2>4. QED
      BY <1>4, <2>1, <2>2, <2>3
  <1>9. CASE Finalize(s)
    <2>1. row' = row /\ worker' = worker /\ job' = job /\ sig' = sig
      BY <1>9 DEF Finalize, NoWrite
    <2>2. \/ SetSigner(s, [signer[s] EXCEPT !.pc = "save", !.run = Signed(row)])
          \/ SetSigner(s, [signer[s] EXCEPT !.pc = "reject", !.run = Rejected(row)])
      BY <1>9 DEF Finalize
    <2>3. QED
      BY <1>1, <1>2, <1>5, <2>1, <2>2
  <1>10. CASE SaveSigned(s) \/ SaveRejected(s) \/ SigningFails(s)
    <2>1. /\ row' = row \/ (Passes(s, sig, signer[s].token) /\ row' = signer[s].run)
          /\ worker' = worker /\ job' = job /\ sig' = sig
      BY <1>10 DEF SaveSigned, SaveRejected, SigningFails, WriteSigned, NoWrite
    <2>2. \/ SetSigner(s, [signer[s] EXCEPT !.pc = "finish"])
          \/ SetSigner(s, [signer[s] EXCEPT !.pc = "fail"])
          \/ SetSigner(s, [signer[s] EXCEPT !.pc = "reject", !.run = Rejected(signer[s].run)])
      BY <1>10 DEF SaveSigned, SaveRejected, SigningFails
    <2>3. QED
      BY <1>5, <1>6, <1>7, <2>1, <2>2
  <1>11. CASE FinishSigning(s)
    <2>1. row' = row /\ worker' = worker /\ job' = job /\ (sig' = sig \/ Holds(sig, signer[s].token))
      BY <1>11 DEF FinishSigning, NoWrite
    <2>2. \/ SetSigner(s, IdleSigner)
          \/ SetSigner(s, [signer[s] EXCEPT !.pc = "reject", !.run = Rejected(signer[s].run)])
      BY <1>1, <1>11 DEF FinishSigning, SignerRecord
    <2>3. sig.status = "absent" => sig'.status = "absent"
      BY <2>1 DEF Holds
    <2>4. CASE SetSigner(s, IdleSigner)
      BY <1>3, <1>4, <2>1, <2>3, <2>4
    <2> DEFINE r == [signer[s] EXCEPT !.pc = "reject", !.run = Rejected(signer[s].run)]
    <2>5. CASE SetSigner(s, r)
      <3>1. ~r.run.pend
        BY <1>1, <1>7 DEF SignerRecord
      <3> HIDE DEF r
      <3>2. QED
        BY <1>4, <2>1, <2>3, <2>5, <3>1
    <2>6. QED
      BY <2>2, <2>4, <2>5
  <1>12. CASE SignerCrash(s)
    BY <1>3, <1>4, <1>12 DEF SignerCrash, NoWrite
  <1>13. QED
    BY <1>8, <1>9, <1>10, <1>11, <1>12 DEF SignerStep, SignerFault

\* What the web process and the statements of no process do.
LEMMA OtherWrites ==
    ASSUME IInv, Web \/ FailExhausted \/ LeaseExpires \/ SigningLeaseExpires \/ UNCHANGED vars
    PROVE  /\ worker' = worker /\ signer' = signer
           /\ job'.attempts = job.attempts
           /\ sig.status = "absent" => sig'.status = "absent"
           /\ \/ ~row'.pend /\ ~row'.bundle
              \/ row'.pend = row.pend /\ row'.bundle = row.bundle
  <1>0. job \in JobRow /\ row \in Snapshot /\ upserts \subseteq {Created, Emit(Created, "FAILED")}
    BY DEF IInv, TypeOK
  <1>1. ASSUME NEW status PROVE Close(job, status).attempts = job.attempts
    BY <1>0 DEF Close, JobRow
  <1>2. CASE Enqueue \/ EnqueueUnacknowledged
    BY <1>2, CreatedFields DEF Enqueue, EnqueueUnacknowledged, IInv, NotYetQueued, NoJob, Queued
  <1>3. CASE EnqueueRefused \/ UNCHANGED vars
    BY <1>3 DEF EnqueueRefused, vars
  <1>4. ASSUME NEW u \in upserts, Upsert(u)
        PROVE  /\ worker' = worker /\ signer' = signer /\ job' = job /\ sig' = sig
               /\ \/ ~row'.pend /\ ~row'.bundle
                  \/ row'.pend = row.pend /\ row'.bundle = row.bundle
    BY <1>0, <1>4, CreatedFields DEF Upsert
  <1>5. CASE Cancel
    <2> DEFINE run == Emit(row, "CANCELLED")
    <2>1. run \in Snapshot /\ run.bundle = row.bundle /\ run.pend = row.pend
      BY <1>0, EmitType, EmitFields DEF PipelineState
    <2>2. row' = [run EXCEPT !.cancelled = TRUE]
      BY <1>5 DEF Cancel
    <2> HIDE DEF run
    <2>3. row'.bundle = row.bundle /\ row'.pend = row.pend
      BY <2>1, <2>2 DEF Snapshot
    <2>4. worker' = worker /\ signer' = signer /\ job'.attempts = job.attempts
      BY <1>1, <1>5 DEF Cancel, CancelledJob
    <2>5. sig.status = "absent" => sig' = sig
      BY <1>5 DEF Cancel, CancelledJob
    <2>6. QED
      BY <2>3, <2>4, <2>5
  <1>6. CASE FailExhausted
    BY <1>0, <1>1, <1>6 DEF FailExhausted, Snapshot
  <1>7. CASE LeaseExpires
    BY <1>0, <1>7 DEF LeaseExpires, NoWrite, JobRow
  <1>8. CASE SigningLeaseExpires
    BY <1>8 DEF SigningLeaseExpires, NoWrite
  <1>9. QED
    BY <1>2, <1>3, <1>4, <1>5, <1>6, <1>7, <1>8 DEF Web

\* The invariant across a step of a worker.
LEMMA WorkerSeparate ==
    ASSUME Separated = TRUE, IInv, WorkersDistinct, OneAtWork, SeparateInv, NEW w \in Worker,
           Claim(w) \/ WorkerStep(w) \/ WorkerFault(w)
    PROVE  SeparateInv'
  <1>0. job.attempts \in Nat
    BY DurableTrialAssumption DEF IInv, TypeOK, JobRow
  <1>1. /\ \A v \in Worker : v # w => worker'[v] = worker[v]
        /\ signer' = signer
    BY OthersRest, Inserts
  <1>2. row' = row \/ ~row'.bundle
    BY PlainWrite DEF SeparateInv
  <1>3. sig'.status # "absent" => sig.status # "absent" \/ InsertSigningJob(w)
    BY Inserts
  <1>4. sig.status # "absent" => sig'.status # "absent"
    BY Inserts
  <1>5. \A v \in Worker : Plain(v)'
    <2>1. ASSUME NEW v \in Worker, v # w PROVE Plain(v)'
      BY <1>1, <2>1 DEF SeparateInv, Plain
    <2>2. Plain(w)'
      <3>1. CASE Claim(w)
        BY <3>1, ClaimTurns, CreatedFields DEF Plain, AllPlain
      <3>2. CASE WorkerStep(w) \/ WorkerFault(w)
        BY <3>2, StepPlain DEF SeparateInv, SigningFollows
      <3>3. QED
        BY <3>1, <3>2
    <2>3. QED
      BY <2>1, <2>2
  <1>6. SigningFollows'
    <2> SUFFICES ASSUME sig'.status # "absent"
                 PROVE  /\ job'.attempts # 0
                        /\ \A v \in Worker : worker'[v].token = 1 => worker'[v].pc # "load"
      BY DEF SigningFollows
    <2>1. job.attempts # 0 /\ \A v \in Worker : worker[v].token = 1 => worker[v].pc # "load"
      <3>1. CASE sig.status # "absent"
        BY <3>1 DEF SeparateInv, SigningFollows
      <3>2. CASE InsertSigningJob(w)
        <4>1. worker[w].pc = "insert" /\ worker[w].token # 0
          BY <3>2 DEF InsertSigningJob, IInv, WorkerTokens
        <4>2. worker[w].token = job.attempts
          BY <4>1 DEF OneAtWork
        <4>3. ASSUME NEW v \in Worker, v # w, worker[v].token = 1, worker[v].pc = "load"
              PROVE  FALSE
          <5>1. worker[v].token = worker[w].token
            BY <4>2, <4>3 DEF OneAtWork
          <5>2. QED
            BY <4>1, <4>3, <5>1 DEF WorkersDistinct
        <4>4. QED
          BY <4>1, <4>2, <4>3
      <3>3. QED
        BY <1>3, <3>1, <3>2
    <2>2. CASE Claim(w)
      <3>1. worker'[w].token # 1 /\ job'.attempts # 0
        BY <1>0, <2>1, <2>2, ClaimTurns
      <3>2. QED
        BY <1>1, <2>1, <3>1
    <2>3. CASE WorkerStep(w) \/ WorkerFault(w)
      <3>1. job'.attempts = job.attempts
        BY <2>3, JobStays
      <3>2. worker'[w].pc = "load" => worker[w].pc = "load" /\ worker'[w].token = worker[w].token
        BY <2>3, Places DEF Unchains, Turns
      <3>3. QED
        BY <1>1, <2>1, <3>1, <3>2
    <2>4. QED
      BY <2>2, <2>3
  <1>7. QED
    BY <1>1, <1>2, <1>4, <1>5, <1>6 DEF SeparateInv

\* The invariant holds throughout.
LEMMA SeparateInvariance ==
    Separated = TRUE /\ "worker" \notin Stalls => (Spec => []SeparateInv)
  <1> SUFFICES ASSUME Separated = TRUE, "worker" \notin Stalls PROVE Spec => []SeparateInv
    OBVIOUS
  <1>1. Init => SeparateInv
    <2> SUFFICES ASSUME Init PROVE SeparateInv
      OBVIOUS
    <2>1. ASSUME NEW w \in Worker PROVE Plain(w)
      <3>1. worker[w].run = NoRow /\ worker[w].chain = <<>>
        BY DEF Init, IdleWorker
      <3>2. QED
        BY <3>1, CreatedFields DEF Plain, AllPlain
    <2>2. QED
      BY <2>1, CreatedFields DEF Init, SeparateInv, SigningFollows, IdleSigner, NoJob
  <1>2. IInv /\ WorkersDistinct /\ WaitsClosed /\ OneAtWork /\ SeparateInv /\ [Next]_vars
          => SeparateInv'
    <2> SUFFICES ASSUME IInv, WorkersDistinct, WaitsClosed, OneAtWork, SeparateInv, [Next]_vars
                 PROVE  SeparateInv'
      OBVIOUS
    <2>0. sig.status # "absent" => sig'.status # "absent"
      BY SigningStays
    <2>1. CASE Web \/ FailExhausted \/ LeaseExpires \/ SigningLeaseExpires \/ UNCHANGED vars
      <3>1. worker' = worker /\ signer' = signer /\ job'.attempts = job.attempts
        BY <2>1, OtherWrites
      <3>2. sig.status = "absent" => sig'.status = "absent"
        BY <2>1, OtherWrites
      <3>3. \/ ~row'.pend /\ ~row'.bundle
            \/ row'.pend = row.pend /\ row'.bundle = row.bundle
        BY <2>1, OtherWrites
      <3>4. QED
        BY <2>0, <3>1, <3>2, <3>3 DEF SeparateInv, SigningFollows, Plain
    <2>2. ASSUME NEW w \in Worker, Claim(w) \/ WorkerStep(w) \/ WorkerFault(w) PROVE SeparateInv'
      BY <2>2, WorkerSeparate
    <2>3. ASSUME NEW s \in Signer, ClaimSigning(s) \/ SignerStep(s) \/ SignerFault(s)
          PROVE  SeparateInv'
      <3>1. \A t \in Signer : ~signer'[t].run.pend
        BY <2>3, SignerWrites DEF SeparateInv
      <3>2. worker' = worker /\ job' = job
        BY <2>3, SignerWrites
      <3>3. row' = row \/ (sig.status # "absent" /\ ~row'.pend)
        BY <2>3, SignerWrites DEF SeparateInv, Passes, Holds, WaitsClosed
      <3>4. sig.status = "absent" => sig'.status = "absent"
        BY <2>3, SignerWrites
      <3>5. QED
        BY <2>0, <3>1, <3>2, <3>3, <3>4 DEF SeparateInv, SigningFollows, Plain
    <2>4. QED
      BY <2>1, <2>2, <2>3 DEF Next
  <1>3. QED
    BY <1>1, <1>2, Invariance, TokensInvariance, WaitsInvariance, OneAtWorkInvariance, PTL DEF Spec

\* With separate signers, and workers that keep their leases, a stored run is
\* never both signed and waiting to be signed.
THEOREM NeverSignedAndPending ==
    Separated = TRUE /\ "worker" \notin Stalls => (Spec => []UnsignedOrSigned)
  <1>1. SeparateInv => UnsignedOrSigned
    BY DEF SeparateInv, UnsignedOrSigned
  <1>2. QED
    BY <1>1, SeparateInvariance, PTL

\* With separate signers, and workers that keep their leases, the only receipt
\* that appears once a cancellation has closed the signing job is that of a
\* save which was waiting for the cancellation to end.
THEOREM NoReceiptAfterSigningCancel ==
    Separated = TRUE /\ "worker" \notin Stalls => (Spec => SigningCancelIsFinal)
  <1> SUFFICES ASSUME Separated = TRUE, "worker" \notin Stalls PROVE Spec => SigningCancelIsFinal
    OBVIOUS
  <1>1. IInv /\ SeparateInv /\ [Next]_vars
          => [sig.status = "cancelled" /\ ~row.bundle /\ row'.bundle
                => \E s \in waiting \cap Signer : row' = signer[s].run]_vars
    <2> SUFFICES ASSUME IInv, SeparateInv, Next, sig.status = "cancelled", ~row.bundle,
                        row'.bundle
                 PROVE  \E s \in waiting \cap Signer : row' = signer[s].run
      OBVIOUS
    <2>1. CASE Web \/ FailExhausted \/ LeaseExpires \/ SigningLeaseExpires
      BY <2>1, OtherWrites
    <2>2. ASSUME NEW w \in Worker, Claim(w) \/ WorkerStep(w) \/ WorkerFault(w)
          PROVE  ~row'.bundle
      BY <2>2, PlainWrite DEF SeparateInv
    <2>3. ASSUME NEW s \in Signer, ClaimSigning(s) \/ SignerStep(s) \/ SignerFault(s)
          PROVE  s \in waiting /\ row' = signer[s].run
      BY <2>3, SignerWrites DEF Passes, Holds
    <2>4. QED
      BY <2>1, <2>2, <2>3 DEF Next
  <1>2. QED
    BY <1>1, Invariance, SeparateInvariance, PTL DEF Spec, SigningCancelIsFinal
=============================================================================
