-------------------------- MODULE LocalServiceProofs --------------------------
(***************************************************************************)
(* Theorems of LocalService, and of the modules it is made of, for every   *)
(* deployment, network, discovery and bound.                               *)
(*                                                                         *)
(* The argument has four parts.  The trial: TrialInv counts what has been  *)
(* executed since the cancellation (Unchecked).  The page: ViewInv says    *)
(* that every snapshot and message on its way is of a log that the         *)
(* executor's continues.  The report: its score is a function of the plan  *)
(* and of the outcome, whatever was discovered.  The bundle: the chain,    *)
(* the Merkle tree and the receipt determine what they were made of, and   *)
(* each of the twelve checks compares one part of it.  Whatever the code   *)
(* computes in a loop is a fold, reasoned about in FoldProofs.             *)
(***************************************************************************)
EXTENDS LocalService, SequenceTheorems, FiniteSetTheorems, WellFoundedInduction, TLAPS

\* The states a trial ends in other than by a cancellation.
Delivered == {"COMPLETED", "FAILED"}

\* What saveLocalSnapshot may be given.
Snapshots == [log : Seq(PipelineState), signed : BOOLEAN]

\* Where the DELETE request may be.
CancellerPc == {"idle", "copy", "live", "refused", "copy cancelled", "cancelled"}

\* A snapshot is of a run that was created, and is signed only if complete.
GoodSnapshot(snapshot) ==
    /\ snapshot \in Snapshots
    /\ snapshot.log # <<>> /\ snapshot.log[1] = "CREATED"
    /\ snapshot.signed => Last(snapshot.log) = "COMPLETED"

\* The types of the trial (that of the log is a snapshot's).
TrialTyped ==
    /\ store \in {"memory", "directory"} /\ mode \in {"passive", "authorized"}
    /\ alive \in BOOLEAN
    /\ pc \in 1..Len(Steps) + 1
    /\ outcome.signed \in BOOLEAN
    /\ canceller \in [pc : CancellerPc, log : Seq(PipelineState)]
    /\ ackAt \in 0..Len(Steps) /\ late \in {0, 1}
    /\ writes \in Seq(Snapshots)

\* Every copy of the run that is served or waits to be written is good, and
\* so is the one a client has read in order to cancel it.
SnapshotsGood ==
    /\ GoodSnapshot(Snapshot(log, outcome.signed))
    /\ \A i \in 1..Len(writes) : GoodSnapshot(writes[i])
    /\ file = NoRun \/ GoodSnapshot(file)
    /\ canceller.pc = "copy" => canceller.log # <<>> /\ canceller.log[1] = "CREATED"

\* The log ends with the executor, once, and a receipt ends it too.
LogEnds ==
    /\ Ended => Last(log) \in Terminal
    /\ Last(log) \in Delivered => Ended
    /\ \A i \in 1..Len(log) - 1 : log[i] \notin Delivered
    /\ outcome.signed => Ended

\* Executor since the cancellation.
Unchecked ==
    /\ ackAt = 0 => late = 0
    /\ ackAt # 0 => canceller.pc = "cancelled"
    /\ ackAt # 0 /\ (outcome.signed \/ ~Ended) =>
          /\ ackAt <= pc
          /\ \A i \in ackAt..pc - 1 : Steps[i] # Check
          /\ late = 1 => \E i \in ackAt..pc - 1 : Steps[i] = SendMessage

\* The inductive invariant of the trial.
TrialInv == TrialTyped /\ SnapshotsGood /\ LogEnds /\ Unchecked

\* s is how t begins, element by element.
PrefixOf(s, t) == Len(s) <= Len(t) /\ \A i \in 1..Len(s) : s[i] = t[i]

\* Every variable of the page has its type.
ViewTyped ==
    /\ page \in [pc : {"loading", "connecting", "open", "waiting", "settled", "dead"},
                 shown : Seq(PipelineState), state : PipelineState]
    /\ stream \in [open : BOOLEAN, sent : Nat, stuck : BOOLEAN]
    /\ net \in Seq([id : Nat, state : PipelineState])

\* Every snapshot is of a log that the executor's continues.
SnapshotsFollow ==
    /\ \A i \in 1..Len(writes) : PrefixOf(writes[i].log, log)
    /\ file = NoRun \/ PrefixOf(file.log, log)

\* Every message on its way is an event of the log, and none skips an event
\* that is neither shown nor on its way before it.
MessagesFollow ==
    \A i \in 1..Len(net) :
        /\ net[i].id \in 1..Len(log) /\ net[i].state = log[net[i].id]
        /\ net[i].id <= 1 + IF i = 1 THEN Len(page.shown) ELSE net[i - 1].id

\* The page shows a part of the log, and has asked a stream for no more than
\* what comes next.
PageFollows ==
    /\ PrefixOf(page.shown, log)
    /\ page.state \in Delivered => page.state = Last(log)
    /\ page.pc # "open" => ~stream.open /\ net = <<>>
    /\ page.pc = "open" =>
         stream.sent <= IF net = <<>> THEN Len(page.shown) ELSE net[Len(net)].id

\* The inductive invariant of the page, as long as there is one history.
ViewInv == ViewTyped /\ (~Split => SnapshotsFollow /\ MessagesFollow /\ PageFollows)

-----------------------------------------------------------------------------
\* The trial

\* The steps that are the trial's.
TrialNext == Execute \/ WriteFile \/ Cancel \/ Restart

\* The two scripts, entry by entry.
LEMMA StepsKnown ==
    ASSUME mode \in {"passive", "authorized"}
    PROVE  /\ mode = "passive" =>
                /\ Len(Steps) = 7
                /\ \A i \in 1..7 :
                      /\ Steps[i] = Check <=> i \in {2, 5}
                      /\ Steps[i] = Get <=> i \in {3, 6}
                      /\ Steps[i] # SendMessage
                      /\ Steps[i] = "COMPLETED" <=> i = 7
           /\ mode = "authorized" =>
                /\ Len(Steps) = 11
                /\ \A i \in 1..11 :
                      /\ Steps[i] = Check <=> i \in {2, 5, 8}
                      /\ Steps[i] = Get <=> i = 3
                      /\ Steps[i] = SendMessage <=> i \in {7, 10}
                      /\ Steps[i] = "COMPLETED" <=> i = 11
<1>1. CASE mode = "passive"
  BY <1>1 DEF Steps, PassiveSteps, Check, Get, SendMessage
<1>2. CASE mode = "authorized"
  BY <1>2 DEF Steps, AuthorizedSteps, Check, Get, SendMessage
<1> QED BY <1>1, <1>2

\* Their lengths.
LEMMA StepsLength ==
    ASSUME mode \in {"passive", "authorized"}
    PROVE  Len(Steps) \in {7, 11}
BY StepsKnown

\* An executor with an entry to execute is in its script.
LEMMA Running ==
    ASSUME TrialInv, NEW entries, Executing(entries)
    PROVE  /\ mode \in {"passive", "authorized"} /\ Len(Steps) \in {7, 11}
           /\ pc \in 1..Len(Steps) /\ Steps[pc] \in entries /\ ~Ended
<1>1. mode \in {"passive", "authorized"} /\ pc \in 1..Len(Steps) + 1
  BY DEF TrialInv, TrialTyped
<1>2. Len(Steps) \in {7, 11}
  BY <1>1, StepsLength
<1>3. Steps[pc] \in entries /\ ~ (pc > Len(Steps))
  BY DEF Executing, Ended
<1> QED BY <1>1, <1>2, <1>3 DEF Ended

\* No script ends with an await, and only the authorized one sends.
LEMMA AwaitsPrecede ==
    ASSUME mode \in {"passive", "authorized"}, NEW i \in 1..Len(Steps)
    PROVE  /\ Steps[i] \in {Check, Get, SendMessage} => i < Len(Steps)
           /\ Steps[i] = SendMessage => mode = "authorized" /\ i \in {7, 10}
<1>1. CASE mode = "passive"
  <2>1. Len(Steps) = 7
    BY <1>1, StepsKnown
  <2>2. i \in 1..7 /\ 7 \in 1..7
    BY <2>1
  <2>3. Steps[7] = "COMPLETED" /\ Steps[i] # SendMessage
    BY <1>1, <2>2, StepsKnown
  <2> QED BY <2>1, <2>2, <2>3 DEF Check, Get, SendMessage
<1>2. CASE mode = "authorized"
  <2>1. Len(Steps) = 11
    BY <1>2, StepsKnown
  <2>2. i \in 1..11 /\ 11 \in 1..11
    BY <2>1
  <2>3. Steps[11] = "COMPLETED" /\ (Steps[i] = SendMessage <=> i \in {7, 10})
    BY <1>2, <2>2, StepsKnown
  <2> QED BY <1>2, <2>1, <2>2, <2>3 DEF Check, Get, SendMessage
<1> QED BY <1>1, <1>2

\* saveLocalSnapshot only adds what it is given.
LEMMA SavedElements ==
    ASSUME writes \in Seq(Snapshots), NEW s \in Seq(Snapshots), Saved(s)
    PROVE  /\ writes' \in Seq(Snapshots)
           /\ \A i \in 1..Len(writes') :
                 \/ \E j \in 1..Len(writes) : writes'[i] = writes[j]
                 \/ \E j \in 1..Len(s) : writes'[i] = s[j]
<1>1. CASE store = "directory"
  <2>1. writes' = writes \o s
    BY <1>1 DEF Saved
  <2>2. /\ writes' \in Seq(Snapshots) /\ Len(writes') = Len(writes) + Len(s)
        /\ \A i \in 1..Len(writes) + Len(s) :
              writes'[i] = IF i <= Len(writes) THEN writes[i] ELSE s[i - Len(writes)]
    BY <2>1
  <2> QED BY <2>2
<1>2. CASE store # "directory"
  BY <1>2 DEF Saved
<1> QED BY <1>1, <1>2

\* What a snapshot is made of.
LEMMA SnapshotOfLog ==
    ASSUME NEW states \in Seq(PipelineState), NEW signed \in BOOLEAN
    PROVE  /\ Snapshot(states, signed) \in Snapshots
           /\ Snapshot(states, signed).log = states
           /\ Snapshot(states, signed).signed = signed
BY DEF Snapshot, Snapshots

\* What an event does to the log.
LEMMA Emitted ==
    ASSUME TrialInv, NEW state \in PipelineState, Last(log) \notin Delivered,
           log' = Append(log, state)
    PROVE  /\ log' \in Seq(PipelineState) /\ log' # <<>> /\ log'[1] = "CREATED"
           /\ Last(log') = state
           /\ \A i \in 1..Len(log') - 1 : log'[i] \notin Delivered
<1>1. log \in Seq(PipelineState) /\ log # <<>> /\ log[1] = "CREATED"
  BY DEF TrialInv, SnapshotsGood, GoodSnapshot, Snapshot, Snapshots
<1>2. \A i \in 1..Len(log) - 1 : log[i] \notin Delivered
  BY DEF TrialInv, LogEnds
<1>3. /\ log' \in Seq(PipelineState) /\ Len(log') = Len(log) + 1
      /\ \A i \in 1..Len(log) : log'[i] = log[i]
      /\ log'[Len(log) + 1] = state
  BY <1>1
<1>4. Len(log) \in Nat /\ Len(log) > 0
  BY <1>1
<1>5. log[Len(log)] \notin Delivered
  BY DEF Last
<1>6. Last(log') = state
  BY <1>3 DEF Last
<1>7. \A i \in 1..Len(log') - 1 : log'[i] \notin Delivered
  BY <1>2, <1>3, <1>4, <1>5
<1> QED BY <1>1, <1>3, <1>4, <1>6, <1>7

\* A sequence of one element.
LEMMA OneElement ==
    ASSUME NEW S, NEW x \in S
    PROVE  <<x>> \in Seq(S) /\ Len(<<x>>) = 1 /\ <<x>>[1] = x
OBVIOUS

\* A step that emits one event, or none.
LEMMA EmitKeepsSnapshots ==
    ASSUME TrialInv, NEW state \in PipelineState, Last(log) \notin Delivered, Emit(state),
           outcome.signed = FALSE, outcome'.signed = FALSE, file' = file,
           canceller' = canceller \/ canceller'.pc # "copy"
    PROVE  SnapshotsGood' /\ writes' \in Seq(Snapshots) /\ log' \in Seq(PipelineState)
<1> DEFINE s == <<Snapshot(log', FALSE)>>
<1>1. /\ log' \in Seq(PipelineState) /\ log' # <<>> /\ log'[1] = "CREATED"
      /\ log' = Append(log, state)
  BY Emitted DEF Emit
<1>2. GoodSnapshot(Snapshot(log', FALSE))
  BY <1>1, SnapshotOfLog DEF GoodSnapshot
<1>3. s \in Seq(Snapshots) /\ Len(s) = 1 /\ GoodSnapshot(s[1])
  <2>1. Snapshot(log', FALSE) \in Snapshots
    BY <1>1, SnapshotOfLog
  <2>2. s \in Seq(Snapshots) /\ Len(s) = 1 /\ s[1] = Snapshot(log', FALSE)
    BY <2>1, OneElement
  <2> QED BY <1>2, <2>2
<1>4. writes \in Seq(Snapshots) /\ \A i \in 1..Len(writes) : GoodSnapshot(writes[i])
  BY DEF TrialInv, TrialTyped, SnapshotsGood
<1>5. Saved(s)
  BY DEF Emit
<1> HIDE DEF s
<1>6. writes' \in Seq(Snapshots)
  BY <1>3, <1>4, <1>5, SavedElements
<1>7. \A i \in 1..Len(writes') : GoodSnapshot(writes'[i])
  <2> TAKE i \in 1..Len(writes')
  <2>1. \/ \E j \in 1..Len(writes) : writes'[i] = writes[j]
        \/ \E j \in 1..Len(s) : writes'[i] = s[j]
    BY <1>3, <1>4, <1>5, SavedElements
  <2>2. \A j \in 1..Len(s) : j = 1
    BY <1>3
  <2> QED BY <1>3, <1>4, <2>1, <2>2
<1>8. file' = NoRun \/ GoodSnapshot(file')
  BY DEF TrialInv, SnapshotsGood
<1>9. (canceller.pc = "copy" => canceller.log # <<>> /\ canceller.log[1] = "CREATED")'
  BY DEF TrialInv, SnapshotsGood
<1> QED BY <1>1, <1>2, <1>6, <1>7, <1>8, <1>9 DEF SnapshotsGood

\* There is a receipt or there is none.
LEMMA OutcomeTyped == ASSUME TrialInv PROVE outcome.signed \in BOOLEAN
BY DEF TrialInv, TrialTyped

\* What a step keeps that does not change the log, the snapshots or the outcome.
LEMMA SnapshotsKept ==
    ASSUME TrialInv, log' = log, outcome' = outcome, writes' = writes, file' = file,
           \/ canceller' = canceller
           \/ canceller'.pc # "copy"
    PROVE  SnapshotsGood'
BY DEF TrialInv, SnapshotsGood, GoodSnapshot, Snapshot

\* How a check or an I/O ends the trial.
LEMMA EndsStep ==
    ASSUME TrialInv, NEW state \in {"CANCELLED", "FAILED"}, pc <= Len(Steps), Ends(state),
           UNCHANGED <<store, mode, alive, outcome, canceller, ackAt, file>>,
           late' \in {0, 1}, ackAt = 0 => late' = 0
    PROVE  TrialInv'
<1>1. Len(Steps) \in {7, 11} /\ Steps' = Steps /\ pc \in 1..Len(Steps) + 1
  BY StepsLength DEF TrialInv, TrialTyped, Steps
<1>2. Last(log) \notin Delivered /\ outcome.signed = FALSE
  BY <1>1, OutcomeTyped DEF TrialInv, LogEnds, Ended
<1>3. state \in PipelineState /\ Emit(state) /\ log' = Append(log, state)
  BY DEF Ends, PipelineState, Emit
<1>4. SnapshotsGood' /\ writes' \in Seq(Snapshots)
  BY <1>2, <1>3, EmitKeepsSnapshots
<1>5. TrialTyped'
  BY <1>1, <1>4 DEF TrialInv, TrialTyped, Ends
<1>6. LogEnds'
  BY <1>1, <1>2, <1>3, Emitted DEF LogEnds, Ended, Ends, Terminal
<1>7. Unchecked'
  BY <1>1, <1>2 DEF TrialInv, Unchecked, Ended, Ends
<1> QED BY <1>4, <1>5, <1>6, <1>7 DEF TrialInv

\* Publishing a state keeps the invariant.
LEMMA PublishStep == ASSUME TrialInv, Publish PROVE TrialInv'
<1>1. /\ Len(Steps) \in {7, 11} /\ Steps' = Steps
      /\ pc \in 1..Len(Steps) /\ pc' = pc + 1
  BY StepsLength DEF TrialInv, TrialTyped, Steps, Publish, Executing, Ended, Proceed
<1>2. Last(log) \notin Delivered /\ outcome.signed = FALSE /\ outcome'.signed = FALSE
  BY <1>1, OutcomeTyped DEF TrialInv, LogEnds, Ended, Publish
<1>3. /\ Steps[pc] \in PipelineState \ Terminal /\ Emit(Steps[pc])
      /\ log' = Append(log, Steps[pc])
  BY DEF Publish, Executing, Emit
<1>4. SnapshotsGood' /\ writes' \in Seq(Snapshots)
  BY <1>2, <1>3, EmitKeepsSnapshots DEF Publish
<1>5. TrialTyped'
  BY <1>1, <1>4 DEF TrialInv, TrialTyped, Publish
<1>6. Steps[pc] # Check /\ pc # Len(Steps)
  BY <1>1, <1>3, StepsKnown DEF PipelineState, Terminal, Check, TrialInv, TrialTyped
<1>7. LogEnds'
  <2>1. Last(log') = Steps[pc] /\ \A i \in 1..Len(log') - 1 : log'[i] \notin Delivered
    BY <1>2, <1>3, Emitted
  <2>2. ~ (pc' > Len(Steps'))
    BY <1>1, <1>6
  <2> QED BY <1>2, <1>3, <2>1, <2>2 DEF LogEnds, Ended, Delivered, Terminal
<1>8. Unchecked'
  BY <1>1, <1>2, <1>6 DEF TrialInv, TrialTyped, Unchecked, Ended, Publish
<1> QED BY <1>4, <1>5, <1>7, <1>8 DEF TrialInv

\* A check that finds no cancellation, or an answer.
LEMMA ProceedStep ==
    ASSUME TrialInv, pc < Len(Steps), Proceed,
           UNCHANGED <<store, mode, alive, log, outcome, canceller, ackAt, writes, file>>,
           Steps[pc] = Check => ackAt = 0,
           \/ late' = late
           \/ Steps[pc] = SendMessage /\ late' = IF ackAt # 0 THEN late + 1 ELSE late
    PROVE  TrialInv'
<1>1. /\ Len(Steps) \in {7, 11} /\ Steps' = Steps /\ mode \in {"passive", "authorized"}
      /\ pc \in 1..Len(Steps) - 1 /\ pc' = pc + 1
  BY StepsLength DEF TrialInv, TrialTyped, Steps, Proceed
<1>2. outcome.signed = FALSE
  BY <1>1, OutcomeTyped DEF TrialInv, LogEnds, Ended
<1>3. SnapshotsGood'
  BY SnapshotsKept
<1>4. LogEnds'
  BY <1>1 DEF TrialInv, LogEnds, Ended
<1>5. ackAt # 0 /\ late' # late => late = 0 /\ late' = 1 /\ Steps[pc] = SendMessage
  <2> SUFFICES ASSUME ackAt # 0, late' # late PROVE late = 0
    BY DEF TrialInv, TrialTyped
  <2>1. Steps[pc] = SendMessage /\ mode = "authorized" /\ Len(Steps) = 11
    BY <1>1, StepsKnown
  <2>2. pc \in {7, 10}
    BY <1>1, <2>1, StepsKnown
  <2>3. SUFFICES ASSUME late = 1 PROVE FALSE
    BY DEF TrialInv, TrialTyped
  <2>4. PICK i \in ackAt..pc - 1 : Steps[i] = SendMessage
    BY <1>1, <2>3 DEF TrialInv, Unchecked, Ended
  <2>5. ackAt \in 1..11 /\ i \in 1..11
    BY <1>1, <2>1, <2>4 DEF TrialInv, TrialTyped
  <2>6. i = 7 /\ pc = 10
    BY <1>1, <2>1, <2>2, <2>4, <2>5, StepsKnown
  <2>7. Steps[8] = Check /\ 8 \in ackAt..pc - 1
    BY <1>1, <2>1, <2>4, <2>5, <2>6, StepsKnown
  <2> QED BY <1>1, <2>7 DEF TrialInv, Unchecked, Ended
<1>6. TrialTyped'
  BY <1>1, <1>5 DEF TrialInv, TrialTyped
<1>7. Unchecked'
  <2>1. Unchecked /\ ackAt \in 0..Len(Steps)
    BY DEF TrialInv, TrialTyped
  <2>2. ackAt = 0 => late' = 0
    BY <2>1 DEF Unchecked
  <2> SUFFICES ASSUME ackAt # 0
               PROVE  /\ ackAt <= pc'
                      /\ \A i \in ackAt..pc' - 1 : Steps[i] # Check
                      /\ late' = 1 => \E i \in ackAt..pc' - 1 : Steps[i] = SendMessage
    BY <1>1, <2>1, <2>2 DEF Unchecked
  <2>3. /\ ackAt <= pc
        /\ \A i \in ackAt..pc - 1 : Steps[i] # Check
        /\ late = 1 => \E i \in ackAt..pc - 1 : Steps[i] = SendMessage
    BY <1>1, <2>1 DEF Unchecked, Ended
  <2>4. Steps[pc] # Check
    OBVIOUS
  <2>5. \A i \in ackAt..pc' - 1 : i = pc \/ i \in ackAt..pc - 1
    BY <1>1, <2>1
  <2>6. pc \in ackAt..pc' - 1 /\ \A i \in ackAt..pc - 1 : i \in ackAt..pc' - 1
    BY <1>1, <2>1, <2>3
  <2> QED BY <1>1, <1>5, <2>1, <2>3, <2>4, <2>5, <2>6
<1> QED BY <1>3, <1>4, <1>6, <1>7 DEF TrialInv

\* So does ensureActive,
LEMMA EnsureActiveStep == ASSUME TrialInv, EnsureActive PROVE TrialInv'
<1>1. /\ pc \in 1..Len(Steps) /\ Steps[pc] = Check /\ Len(Steps) \in {7, 11}
      /\ mode \in {"passive", "authorized"} /\ pc <= Len(Steps)
      /\ pc < Len(Steps)
  <2>1. Executing({Check})
    BY DEF EnsureActive
  <2> QED BY <2>1, Running, AwaitsPrecede
<1>2. late' = late /\ late \in {0, 1} /\ (ackAt = 0 => late = 0)
  BY DEF EnsureActive, TrialInv, TrialTyped, Unchecked
<1>3. CASE ackAt # 0
  <2>1. Ends("CANCELLED")
    BY <1>3 DEF EnsureActive
  <2> QED BY <1>1, <1>2, <2>1, EndsStep DEF EnsureActive
<1>4. CASE ackAt = 0
  <2>1. Proceed /\ UNCHANGED <<log, writes>>
    BY <1>4 DEF EnsureActive
  <2> QED BY <1>1, <1>2, <1>4, <2>1, ProceedStep DEF EnsureActive
<1> QED BY <1>3, <1>4

\* a fetch that ends,
LEMMA FetchedStep == ASSUME TrialInv, Fetched PROVE TrialInv'
<1>1. /\ pc \in 1..Len(Steps) /\ Steps[pc] = Get /\ Len(Steps) \in {7, 11}
      /\ mode \in {"passive", "authorized"} /\ pc <= Len(Steps)
      /\ pc < Len(Steps)
  <2>1. Executing({Get})
    BY DEF Fetched
  <2> QED BY <2>1, Running, AwaitsPrecede
<1>2. late' = late /\ late \in {0, 1} /\ (ackAt = 0 => late = 0)
  BY DEF Fetched, TrialInv, TrialTyped, Unchecked
<1>3. CASE Ends("FAILED")
  BY <1>1, <1>2, <1>3, EndsStep DEF Fetched
<1>4. CASE Proceed /\ UNCHANGED <<log, writes>>
  <2>1. Steps[pc] # Check
    BY <1>1 DEF Check, Get
  <2> QED BY <1>1, <1>2, <1>4, <2>1, ProceedStep DEF Fetched
<1> QED BY <1>3, <1>4 DEF Fetched

\* a message that has been sent,
LEMMA SentStep == ASSUME TrialInv, Sent PROVE TrialInv'
<1>1. /\ pc \in 1..Len(Steps) /\ Steps[pc] = SendMessage /\ Len(Steps) \in {7, 11}
      /\ mode \in {"passive", "authorized"} /\ pc <= Len(Steps)
      /\ pc < Len(Steps)
  <2>1. Executing({SendMessage})
    BY DEF Sent
  <2> QED BY <2>1, Running, AwaitsPrecede
<1>2. Steps[pc] # Check
  BY <1>1 DEF Check, SendMessage
<1>3. CASE Proceed /\ UNCHANGED <<log, writes>>
  BY <1>1, <1>2, <1>3, ProceedStep DEF Sent
<1>4. CASE Ends("FAILED")
  <2>1. late' \in {0, 1} /\ (ackAt = 0 => late' = 0)
    <3>1. CASE ackAt = 0
      BY <3>1 DEF Sent, TrialInv, Unchecked
    <3>2. CASE ackAt # 0
      <4>1. late = 0
        <5>1. SUFFICES ASSUME late = 1 PROVE FALSE
          BY DEF TrialInv, TrialTyped
        <5>2. mode = "authorized" /\ pc \in {7, 10}
          BY <1>1, AwaitsPrecede
        <5>3. PICK i \in ackAt..pc - 1 : Steps[i] = SendMessage
          BY <1>1, <3>2, <5>1 DEF TrialInv, Unchecked, Ended
        <5>4. ackAt \in 1..11 /\ i \in 1..11 /\ Len(Steps) = 11
          <6>1. Len(Steps) = 11
            BY <5>2, StepsKnown
          <6>2. ackAt \in 0..Len(Steps)
            BY DEF TrialInv, TrialTyped
          <6>3. ackAt \in 1..11
            BY <3>2, <6>1, <6>2
          <6> QED BY <5>2, <5>3, <6>1, <6>3
        <5>5. i = 7 /\ pc = 10
          BY <1>1, <5>2, <5>3, <5>4, StepsKnown
        <5>6. Steps[8] = Check /\ 8 \in ackAt..pc - 1
          BY <5>2, <5>3, <5>4, <5>5, StepsKnown
        <5> QED BY <1>1, <3>2, <5>6 DEF TrialInv, Unchecked, Ended
      <4> QED BY <3>2, <4>1 DEF Sent
    <3> QED BY <3>1, <3>2
  <2> QED BY <1>1, <1>4, <2>1, EndsStep DEF Sent
<1> QED BY <1>3, <1>4 DEF Sent

\* the receipt,
LEMMA CompleteStep == ASSUME TrialInv, Complete PROVE TrialInv'
<1>1. /\ Len(Steps) \in {7, 11} /\ Steps' = Steps
      /\ pc \in 1..Len(Steps) /\ pc' = pc + 1
      /\ Steps[pc] = "COMPLETED"
  BY StepsLength DEF TrialInv, TrialTyped, Steps, Complete, Executing, Ended, Proceed
<1>2. Last(log) \notin Delivered /\ outcome.signed = FALSE
  BY <1>1, OutcomeTyped DEF TrialInv, LogEnds, Ended
<1>3. outcome'.signed = TRUE
  BY DEF Complete
<1>4. pc = Len(Steps) /\ Steps[pc] # Check /\ pc' = Len(Steps') + 1
  BY <1>1, StepsKnown DEF TrialInv, TrialTyped, Check
<1>5. /\ log' \in Seq(PipelineState) /\ log' # <<>> /\ log'[1] = "CREATED"
      /\ Last(log') = "COMPLETED"
      /\ \A i \in 1..Len(log') - 1 : log'[i] \notin Delivered
  <2>1. log' = Append(log, "COMPLETED") /\ "COMPLETED" \in PipelineState
    BY DEF Complete, PipelineState
  <2> QED BY <1>2, <2>1, Emitted
<1>6. \A b \in BOOLEAN : GoodSnapshot(Snapshot(log', b))
  BY <1>5, SnapshotOfLog DEF GoodSnapshot
<1>7. /\ writes' \in Seq(Snapshots)
      /\ \A i \in 1..Len(writes') : GoodSnapshot(writes'[i])
  <2>1. PICK x, y : x = Snapshot(log', FALSE) /\ y = Snapshot(log', TRUE)
    OBVIOUS
  <2>2. GoodSnapshot(x) /\ GoodSnapshot(y) /\ Saved(<<x, y>>)
    BY <1>6, <2>1 DEF Complete
  <2>3. x \in Snapshots /\ y \in Snapshots
    BY <2>2 DEF GoodSnapshot
  <2>4. /\ <<x, y>> \in Seq(Snapshots) /\ Len(<<x, y>>) = 2
        /\ \A i \in 1..Len(<<x, y>>) : <<x, y>>[i] = x \/ <<x, y>>[i] = y
    BY <2>3
  <2>5. writes \in Seq(Snapshots) /\ \A i \in 1..Len(writes) : GoodSnapshot(writes[i])
    BY DEF TrialInv, TrialTyped, SnapshotsGood
  <2>6. /\ writes' \in Seq(Snapshots)
        /\ \A i \in 1..Len(writes') :
                 \/ \E j \in 1..Len(writes) : writes'[i] = writes[j]
                 \/ \E j \in 1..Len(<<x, y>>) : writes'[i] = <<x, y>>[j]
    BY <2>2, <2>4, <2>5, SavedElements
  <2> QED BY <2>2, <2>4, <2>5, <2>6
<1>8. SnapshotsGood'
  <2>1. GoodSnapshot(Snapshot(log', outcome'.signed))
    BY <1>3, <1>6
  <2>2. /\ file' = NoRun \/ GoodSnapshot(file')
        /\ (canceller.pc = "copy" => canceller.log # <<>> /\ canceller.log[1] = "CREATED")'
    BY DEF TrialInv, SnapshotsGood, Complete
  <2> QED BY <1>7, <2>1, <2>2 DEF SnapshotsGood
<1>9. TrialTyped'
  BY <1>1, <1>3, <1>7 DEF TrialInv, TrialTyped, Complete
<1>10. LogEnds'
  BY <1>1, <1>4, <1>5 DEF LogEnds, Ended, Terminal
<1>11. Unchecked'
  <2>1. Unchecked /\ ackAt \in 0..Len(Steps) /\ ackAt' = ackAt /\ late' = late
        /\ canceller' = canceller
    BY DEF TrialInv, TrialTyped, Complete
  <2>2. ackAt # 0 =>
        /\ ackAt <= pc
        /\ \A i \in ackAt..pc - 1 : Steps[i] # Check
        /\ late = 1 => \E i \in ackAt..pc - 1 : Steps[i] = SendMessage
    BY <1>1, <2>1 DEF Unchecked, Ended
  <2>3. ackAt # 0 => \A i \in ackAt..pc' - 1 : i = pc \/ i \in ackAt..pc - 1
    BY <1>1, <2>1
  <2>4. \A i \in ackAt..pc - 1 : i \in ackAt..pc' - 1
    BY <1>1, <2>1
  <2> QED BY <1>1, <1>4, <2>1, <2>2, <2>3, <2>4 DEF Unchecked
<1> QED BY <1>8, <1>9, <1>10, <1>11 DEF TrialInv

\* A step that changes neither the log nor the executor keeps all but the
\* snapshots.
LEMMA CancellerStep ==
    ASSUME TrialInv, UNCHANGED <<store, mode, pc, log, outcome, ackAt, late, file>>,
           alive' \in BOOLEAN, writes' \in Seq(Snapshots),
           canceller' \in [pc : CancellerPc, log : Seq(PipelineState)],
           canceller.pc = "cancelled" => canceller' = canceller
    PROVE  TrialTyped' /\ LogEnds' /\ Unchecked'
<1>1. Steps' = Steps
  BY DEF Steps
<1>2. TrialTyped'
  BY <1>1 DEF TrialInv, TrialTyped
<1>3. LogEnds'
  BY <1>1 DEF TrialInv, LogEnds, Ended
<1>4. Unchecked'
  BY <1>1 DEF TrialInv, Unchecked, Ended
<1> QED BY <1>2, <1>3, <1>4

\* A snapshot that reaches the directory keeps the invariant.
LEMMA WriteFileStep == ASSUME TrialInv, WriteFile PROVE TrialInv'
<1>1. writes \in Seq(Snapshots) /\ \A i \in 1..Len(writes) : GoodSnapshot(writes[i])
  BY DEF TrialInv, TrialTyped, SnapshotsGood
<1>2. writes # <<>> /\ file' = Head(writes) /\ writes' = Tail(writes)
  BY DEF WriteFile
<1>3. /\ writes' \in Seq(Snapshots) /\ file' = writes[1] /\ 1 \in 1..Len(writes)
      /\ \A i \in 1..Len(writes') : writes'[i] = writes[i + 1] /\ i + 1 \in 1..Len(writes)
  BY <1>1, <1>2
<1>4. SnapshotsGood'
  BY <1>1, <1>3 DEF TrialInv, SnapshotsGood, WriteFile, GoodSnapshot, Snapshot
<1>5. TrialTyped' /\ LogEnds' /\ Unchecked'
  <2>1. UNCHANGED <<store, mode, alive, pc, log, outcome, canceller, ackAt, late>>
    BY DEF WriteFile
  <2>2. Steps' = Steps
    BY <2>1 DEF Steps
  <2> QED BY <1>3, <2>1, <2>2 DEF TrialInv, TrialTyped, LogEnds, Unchecked, Ended
<1> QED BY <1>4, <1>5 DEF TrialInv

\* So does a client's read of the run it cancels,
LEMMA CancelReadStep == ASSUME TrialInv, CancelRead PROVE TrialInv'
<1>1. SnapshotsGood'
  BY DEF TrialInv, SnapshotsGood, GoodSnapshot, Snapshots, Snapshot, CancelRead
<1>2. canceller' \in [pc : CancellerPc, log : Seq(PipelineState)]
  BY DEF TrialInv, SnapshotsGood, GoodSnapshot, Snapshots, CancelRead, CancellerPc
<1>3. TrialTyped' /\ LogEnds' /\ Unchecked'
  BY <1>2, CancellerStep DEF CancelRead, TrialInv, TrialTyped
<1> QED BY <1>1, <1>3 DEF TrialInv

\* Every reply leaves the request with its type.
LEMMA Replies ==
    \A reply \in CancellerPc :
        [pc |-> reply, log |-> <<>>] \in [pc : CancellerPc, log : Seq(PipelineState)]
OBVIOUS

\* a cancellation of the copy it has read,
LEMMA CancelCopyStep == ASSUME TrialInv, CancelCopy PROVE TrialInv'
<1>1. CASE Last(canceller.log) \in Terminal
  <2>1. /\ canceller' = [pc |-> "refused", log |-> <<>>]
        /\ UNCHANGED <<store, mode, alive, pc, log, answer, outcome, ackAt, late, writes, file>>
    BY <1>1 DEF CancelCopy, Replied
  <2>2. SnapshotsGood'
    BY <2>1, SnapshotsKept
  <2>3. /\ alive' \in BOOLEAN /\ writes' \in Seq(Snapshots)
        /\ canceller' \in [pc : CancellerPc, log : Seq(PipelineState)]
        /\ canceller.pc # "cancelled"
    BY <2>1, Replies DEF TrialInv, TrialTyped, CancellerPc, CancelCopy
  <2> QED BY <2>1, <2>2, <2>3, CancellerStep DEF TrialInv
<1>2. CASE Last(canceller.log) \notin Terminal
  <2> DEFINE states == Append(canceller.log, "CANCELLED")
  <2>1. /\ canceller' = [pc |-> "copy cancelled", log |-> <<>>]
        /\ Saved(<<Snapshot(states, FALSE)>>)
        /\ UNCHANGED <<store, mode, alive, pc, log, answer, outcome, ackAt, late, file>>
    BY <1>2 DEF CancelCopy, Replied
  <2>2. canceller.log \in Seq(PipelineState) /\ canceller.log # <<>>
        /\ canceller.log[1] = "CREATED"
    BY DEF TrialInv, TrialTyped, SnapshotsGood, CancelCopy
  <2>3. states \in Seq(PipelineState) /\ states # <<>> /\ states[1] = "CREATED"
    BY <2>2 DEF PipelineState
  <2> HIDE DEF states
  <2>4. GoodSnapshot(Snapshot(states, FALSE))
    BY <2>3, SnapshotOfLog DEF GoodSnapshot
  <2>5. PICK x : x = Snapshot(states, FALSE)
    OBVIOUS
  <2>6. /\ x \in Snapshots /\ Saved(<<x>>)
        /\ GoodSnapshot(x)
    BY <2>1, <2>4, <2>5 DEF GoodSnapshot
  <2>7. <<x>> \in Seq(Snapshots) /\ Len(<<x>>) = 1 /\ <<x>>[1] = x
    BY <2>6, OneElement
  <2>8. writes \in Seq(Snapshots) /\ \A i \in 1..Len(writes) : GoodSnapshot(writes[i])
    BY DEF TrialInv, TrialTyped, SnapshotsGood
  <2>9. /\ writes' \in Seq(Snapshots)
        /\ \A i \in 1..Len(writes') :
              \/ \E j \in 1..Len(writes) : writes'[i] = writes[j]
              \/ \E j \in 1..Len(<<x>>) : writes'[i] = <<x>>[j]
    BY <2>6, <2>7, <2>8, SavedElements
  <2>10. \A i \in 1..Len(writes') : GoodSnapshot(writes'[i])
    BY <2>6, <2>7, <2>8, <2>9
  <2>11. SnapshotsGood'
    BY <2>1, <2>10 DEF TrialInv, SnapshotsGood, GoodSnapshot, Snapshot
  <2>12. TrialTyped' /\ LogEnds' /\ Unchecked'
    <3>1. /\ alive' \in BOOLEAN
          /\ canceller' \in [pc : CancellerPc, log : Seq(PipelineState)]
          /\ canceller.pc # "cancelled"
      BY <2>1, Replies DEF TrialInv, TrialTyped, CancellerPc, CancelCopy
    <3> QED BY <2>1, <2>9, <3>1, CancellerStep
  <2> QED BY <2>11, <2>12 DEF TrialInv
<1> QED BY <1>1, <1>2

\* a cancellation of the executor's own run,
LEMMA CancelLiveStep == ASSUME TrialInv, CancelLive PROVE TrialInv'
<1>1. ackAt = 0 /\ late = 0 /\ pc \in 1..Len(Steps) + 1 /\ Len(Steps) \in {7, 11}
      /\ Steps' = Steps /\ outcome.signed \in BOOLEAN
  BY StepsLength DEF TrialInv, TrialTyped, Unchecked, CancelLive, Steps
<1>2. CASE ~alive \/ Last(log) \in Terminal
  <2>1. /\ canceller' = [pc |-> "refused", log |-> <<>>]
        /\ UNCHANGED <<store, mode, alive, pc, log, answer, outcome, ackAt, late, writes, file>>
    BY <1>2 DEF CancelLive, Replied
  <2>2. SnapshotsGood'
    BY <2>1, SnapshotsKept
  <2>3. /\ alive' \in BOOLEAN /\ writes' \in Seq(Snapshots)
        /\ canceller' \in [pc : CancellerPc, log : Seq(PipelineState)]
        /\ canceller.pc # "cancelled"
    BY <2>1, Replies DEF TrialInv, TrialTyped, CancellerPc, CancelLive
  <2> QED BY <2>1, <2>2, <2>3, CancellerStep DEF TrialInv
<1>3. CASE alive /\ Last(log) \notin Terminal
  <2>1. /\ canceller' = [pc |-> "cancelled", log |-> <<>>]
        /\ Emit("CANCELLED") /\ ackAt' = pc /\ log' = Append(log, "CANCELLED")
        /\ UNCHANGED <<store, mode, alive, pc, answer, outcome, late, file>>
    BY <1>3 DEF CancelLive, Replied, Emit
  <2>2. ~ (pc > Len(Steps)) /\ outcome.signed = FALSE
    BY <1>1, <1>3 DEF TrialInv, LogEnds, Ended
  <2>3. "CANCELLED" \in PipelineState /\ Last(log) \notin Delivered
    BY <1>3 DEF PipelineState, Terminal, Delivered
  <2>4. SnapshotsGood' /\ writes' \in Seq(Snapshots)
    BY <2>1, <2>2, <2>3, EmitKeepsSnapshots
  <2>5. TrialTyped'
    <3>1. canceller' \in [pc : CancellerPc, log : Seq(PipelineState)]
      BY <2>1, Replies DEF CancellerPc
    <3>2. mode' = mode /\ ackAt' \in 0..Len(Steps) /\ late' = late /\ pc' = pc
      BY <1>1, <2>1, <2>2
    <3> QED BY <1>1, <2>1, <2>4, <3>1, <3>2 DEF TrialInv, TrialTyped
  <2>6. LogEnds'
    BY <1>1, <2>1, <2>2, <2>3, Emitted DEF LogEnds, Ended, Delivered, Terminal
  <2>7. Unchecked'
    BY <1>1, <2>1, <2>2 DEF Unchecked
  <2> QED BY <2>4, <2>5, <2>6, <2>7 DEF TrialInv
<1> QED BY <1>2, <1>3 DEF CancelLive

\* and the end of the process.
LEMMA RestartStep == ASSUME TrialInv, Restart PROVE TrialInv'
<1>1. /\ alive' = FALSE /\ writes' = <<>>
      /\ canceller' = canceller \/ canceller' = [pc |-> "refused", log |-> <<>>]
      /\ UNCHANGED <<store, mode, pc, log, answer, outcome, ackAt, late, file>>
  BY DEF Restart
<1>2. SnapshotsGood'
  BY <1>1 DEF TrialInv, SnapshotsGood, GoodSnapshot, Snapshot
<1>3. /\ alive' \in BOOLEAN /\ writes' \in Seq(Snapshots)
      /\ canceller' \in [pc : CancellerPc, log : Seq(PipelineState)]
      /\ canceller.pc = "cancelled" => canceller' = canceller
  <2>1. [pc |-> "refused", log |-> <<>>] \in [pc : CancellerPc, log : Seq(PipelineState)]
    BY Replies DEF CancellerPc
  <2>2. canceller' = canceller \/ canceller.pc # "cancelled"
    BY DEF Restart
  <2>3. <<>> \in Seq(Snapshots) /\ FALSE \in BOOLEAN
    OBVIOUS
  <2> QED BY <1>1, <2>1, <2>2, <2>3 DEF TrialInv, TrialTyped
<1>4. TrialTyped' /\ LogEnds' /\ Unchecked'
  BY <1>1, <1>3, CancellerStep
<1> QED BY <1>2, <1>4 DEF TrialInv

\* Every step of the trial keeps the invariant,
LEMMA TrialStep == TrialInv /\ [TrialNext]_trialVars => TrialInv'
<1> SUFFICES ASSUME TrialInv, [TrialNext]_trialVars PROVE TrialInv'
  OBVIOUS
<1>1. CASE Execute
  BY <1>1, PublishStep, EnsureActiveStep, FetchedStep, SentStep, CompleteStep DEF Execute
<1>2. CASE WriteFile
  BY <1>2, WriteFileStep
<1>3. CASE Cancel
  BY <1>3, CancelReadStep, CancelCopyStep, CancelLiveStep DEF Cancel
<1>4. CASE Restart
  BY <1>4, RestartStep
<1>5. CASE UNCHANGED trialVars
  <2>1. SnapshotsGood'
    BY <1>5, SnapshotsKept DEF trialVars
  <2> QED BY <1>5, <2>1
       DEF trialVars, TrialInv, TrialTyped, LogEnds, Unchecked, Steps, Ended
<1> QED BY <1>1, <1>2, <1>3, <1>4, <1>5 DEF TrialNext

\* and it holds from the start.
LEMMA TrialInit == Init => TrialInv
<1> SUFFICES ASSUME Init PROVE TrialInv
  OBVIOUS
<1>1. store \in {"memory", "directory"} /\ mode \in {"passive", "authorized"}
  BY LocalTrialAssumption DEF Init
<1>2. Len(Steps) \in {7, 11} /\ pc = 1
  BY <1>1, StepsLength DEF Init
<1>3. /\ <<"CREATED">> \in Seq(PipelineState) /\ <<"CREATED">> # <<>>
      /\ <<"CREATED">>[1] = "CREATED" /\ Len(<<"CREATED">>) = 1
  BY DEF PipelineState
<1>4. GoodSnapshot(Snapshot(<<"CREATED">>, FALSE))
  BY <1>3, SnapshotOfLog DEF GoodSnapshot
<1>5. PICK x : x = Snapshot(<<"CREATED">>, FALSE)
  OBVIOUS
<1>6. /\ x \in Snapshots /\ GoodSnapshot(x)
      /\ writes = <<x>> \/ writes = <<>>
  BY <1>4, <1>5 DEF GoodSnapshot, Init
<1>7. writes \in Seq(Snapshots) /\ \A i \in 1..Len(writes) : GoodSnapshot(writes[i])
  <2>1. CASE writes = <<>>
    BY <2>1
  <2>2. CASE writes = <<x>>
    <3>1. <<x>> \in Seq(Snapshots) /\ Len(<<x>>) = 1 /\ <<x>>[1] = x
      BY <1>6, OneElement
    <3> QED BY <1>6, <2>2, <3>1
  <2> QED BY <1>6, <2>1, <2>2
<1>8. outcome.signed = FALSE
  BY DEF Init, NoOutcome
<1>9. SnapshotsGood
  BY <1>4, <1>7, <1>8 DEF SnapshotsGood, Init
<1>10. LogEnds
  <2>1. log = <<"CREATED">> /\ ~ (pc > Len(Steps))
    <3>1. log = <<"CREATED">> /\ pc = 1
      BY DEF Init
    <3> QED BY <1>2, <3>1
  <2>2. Last(log) = "CREATED" /\ Len(log) = 1
    BY <1>3, <2>1 DEF Last
  <2> QED BY <1>8, <2>1, <2>2 DEF LogEnds, Ended, Delivered
<1>11. TrialTyped
  <2>1. canceller \in [pc : CancellerPc, log : Seq(PipelineState)]
    BY Replies DEF Init, CancellerPc
  <2>2. alive = TRUE /\ ackAt = 0 /\ late = 0
    BY DEF Init
  <2>3. pc \in 1..Len(Steps) + 1 /\ ackAt \in 0..Len(Steps)
    BY <1>2, <2>2
  <2> QED BY <1>1, <1>7, <1>8, <2>1, <2>2, <2>3 DEF TrialTyped
<1>12. Unchecked
  BY DEF Unchecked, Init
<1> QED BY <1>9, <1>10, <1>11, <1>12 DEF TrialInv
-----------------------------------------------------------------------------
\* The view

\* PrefixOf is the library's IsPrefix.
LEMMA PrefixIs ==
    ASSUME NEW E, NEW s \in Seq(E), NEW t \in Seq(E)
    PROVE  IsPrefix(s, t) <=> PrefixOf(s, t)
<1>1. Len(s) \in Nat /\ Len(t) \in Nat
  OBVIOUS
<1>2. CASE Len(s) <= Len(t)
  <2>1. /\ SubSeq(s, 1, Len(s)) \in Seq(E) /\ Len(SubSeq(s, 1, Len(s))) = Len(s)
        /\ \A i \in 1..Len(s) : SubSeq(s, 1, Len(s))[i] = s[i]
    BY <1>1
  <2>2. /\ SubSeq(t, 1, Len(s)) \in Seq(E) /\ Len(SubSeq(t, 1, Len(s))) = Len(s)
        /\ \A i \in 1..Len(s) : SubSeq(t, 1, Len(s))[i] = t[i]
    BY <1>1, <1>2
  <2>3. SubSeq(s, 1, Len(s)) = SubSeq(t, 1, Len(s)) <=> \A i \in 1..Len(s) : s[i] = t[i]
    BY <1>1, <2>1, <2>2, SeqEqual
  <2> QED BY <1>2, <2>3 DEF IsPrefix, PrefixOf
<1>3. CASE ~ (Len(s) <= Len(t))
  BY <1>3 DEF IsPrefix, PrefixOf
<1> QED BY <1>2, <1>3

\* The log is only appended to, and never past the end of the trial.
LEMMA LogGrows ==
    ASSUME TrialInv, TrialNext
    PROVE  \/ log' = log
           \/ Last(log) \notin Delivered /\ \E state \in PipelineState : log' = Append(log, state)
<1>1. CASE Publish
  <2>1. Last(log) \notin Delivered
    BY <1>1, Running DEF Publish, TrialInv, LogEnds
  <2> QED BY <1>1, <2>1 DEF Publish, Emit, Executing
<1>2. CASE EnsureActive
  <2>1. Last(log) \notin Delivered
    BY <1>2, Running DEF EnsureActive, TrialInv, LogEnds
  <2> QED BY <1>2, <2>1 DEF EnsureActive, Emit, Ends, PipelineState
<1>3. CASE Fetched
  <2>1. Last(log) \notin Delivered
    BY <1>3, Running DEF Fetched, TrialInv, LogEnds
  <2>2. Ends("FAILED") \/ log' = log
    BY <1>3 DEF Fetched
  <2> QED BY <2>1, <2>2 DEF Emit, Ends, PipelineState
<1>4. CASE Sent
  <2>1. Last(log) \notin Delivered
    BY <1>4, Running DEF Sent, TrialInv, LogEnds
  <2>2. Ends("FAILED") \/ log' = log
    BY <1>4 DEF Sent
  <2> QED BY <2>1, <2>2 DEF Emit, Ends, PipelineState
<1>5. CASE Complete
  <2>1. Last(log) \notin Delivered
    BY <1>5, Running DEF Complete, TrialInv, LogEnds
  <2> QED BY <1>5, <2>1 DEF Complete, PipelineState
<1>6. CASE WriteFile \/ CancelRead \/ CancelCopy \/ Restart
  BY <1>6 DEF WriteFile, CancelRead, CancelCopy, Restart
<1>7. CASE CancelLive
  BY <1>7 DEF CancelLive, Emit, PipelineState, Terminal, Delivered
<1> QED BY <1>1, <1>2, <1>3, <1>4, <1>5, <1>6, <1>7 DEF TrialNext, Execute, Cancel

\* The log is a sequence of states that starts with the run's creation.
LEMMA LogTyped == TrialInv => log \in Seq(PipelineState) /\ log # <<>> /\ log[1] = "CREATED"
BY DEF TrialInv, SnapshotsGood, GoodSnapshot, Snapshots, Snapshot

\* A step of the trial only adds to the log, and nothing after its end.
LEMMA LogExtends ==
    ASSUME TrialInv, TrialNext
    PROVE  /\ log' \in Seq(PipelineState) /\ PrefixOf(log, log')
           /\ Last(log) \in Delivered => log' = log
<1>1. log \in Seq(PipelineState)
  BY LogTyped
<1>2. CASE log' = log
  BY <1>1, <1>2 DEF PrefixOf
<1>3. ASSUME NEW state \in PipelineState, log' = Append(log, state),
             Last(log) \notin Delivered
      PROVE  log' \in Seq(PipelineState) /\ PrefixOf(log, log')
  BY <1>1, <1>3 DEF PrefixOf
<1> QED BY <1>2, <1>3, LogGrows

\* How t begins is how what continues t begins.
LEMMA PrefixTransitive ==
    ASSUME NEW E, NEW s \in Seq(E), NEW t \in Seq(E), NEW u \in Seq(E),
           PrefixOf(s, t), PrefixOf(t, u)
    PROVE  PrefixOf(s, u)
BY DEF PrefixOf

\* The snapshots that a step takes are of the log, unless it splits the history.
LEMMA SnapshotsStep ==
    ASSUME TrialInv, TrialNext, SnapshotsFollow, ~Split'
    PROVE  SnapshotsFollow'
<1>1. /\ log \in Seq(PipelineState) /\ log' \in Seq(PipelineState)
      /\ PrefixOf(log, log') /\ PrefixOf(log', log')
  BY LogTyped, LogExtends DEF PrefixOf
<1>2. /\ writes \in Seq(Snapshots)
      /\ \A i \in 1..Len(writes) : writes[i].log \in Seq(PipelineState)
      /\ file # NoRun => file.log \in Seq(PipelineState)
  BY DEF TrialInv, TrialTyped, SnapshotsGood, GoodSnapshot, Snapshots
<1>3. /\ \A i \in 1..Len(writes) : PrefixOf(writes[i].log, log')
      /\ file # NoRun => PrefixOf(file.log, log')
  BY <1>1, <1>2, PrefixTransitive DEF SnapshotsFollow
<1>4. ASSUME NEW state \in PipelineState, Emit(state), file' = file PROVE SnapshotsFollow'
  <2>1. PICK x : x = Snapshot(log', FALSE)
    OBVIOUS
  <2>2. x \in Snapshots /\ x.log = log' /\ Saved(<<x>>)
    BY <1>1, <1>4, <2>1, SnapshotOfLog DEF Emit
  <2>3. <<x>> \in Seq(Snapshots) /\ Len(<<x>>) = 1 /\ <<x>>[1] = x
    BY <2>2, OneElement
  <2>4. \A i \in 1..Len(writes') :
              \/ \E j \in 1..Len(writes) : writes'[i] = writes[j]
              \/ \E j \in 1..Len(<<x>>) : writes'[i] = <<x>>[j]
    BY <1>2, <2>2, <2>3, SavedElements
  <2>5. \A i \in 1..Len(writes') : PrefixOf(writes'[i].log, log')
    <3>1. ASSUME NEW i \in 1..Len(writes') PROVE PrefixOf(writes'[i].log, log')
      <4>1. CASE \E j \in 1..Len(writes) : writes'[i] = writes[j]
        BY <1>3, <4>1
      <4>2. CASE \E j \in 1..Len(<<x>>) : writes'[i] = <<x>>[j]
        <5>1. writes'[i] = x
          BY <2>3, <4>2
        <5> QED BY <1>1, <2>2, <5>1
      <4> QED BY <2>4, <4>1, <4>2
    <3> QED BY <3>1
  <2> QED BY <1>3, <1>4, <2>5 DEF SnapshotsFollow
<1>5. ASSUME writes' = writes, file' = file PROVE SnapshotsFollow'
  BY <1>3, <1>5 DEF SnapshotsFollow
<1>6. CASE Publish
  <2>1. Emit(Steps[pc]) /\ Steps[pc] \in PipelineState /\ file' = file
    BY <1>6 DEF Publish, Executing
  <2> QED BY <1>4, <2>1
<1>7. CASE EnsureActive \/ Fetched \/ Sent
  <2>1. /\ file' = file
        /\ writes' = writes \/ Ends("CANCELLED") \/ Ends("FAILED")
    BY <1>7 DEF EnsureActive, Fetched, Sent
  <2>2. writes' = writes \/ Emit("CANCELLED") \/ Emit("FAILED")
    BY <2>1 DEF Ends
  <2> QED BY <1>4, <1>5, <2>1, <2>2 DEF PipelineState
<1>8. CASE Complete
  <2>1. PICK x, y : x = Snapshot(log', FALSE) /\ y = Snapshot(log', TRUE)
    OBVIOUS
  <2>2. x \in Snapshots /\ x.log = log' /\ y \in Snapshots /\ y.log = log'
    BY <1>1, <2>1, SnapshotOfLog
  <2>3. Saved(<<x, y>>) /\ file' = file
    BY <1>8, <2>1 DEF Complete
  <2>4. /\ <<x, y>> \in Seq(Snapshots) /\ Len(<<x, y>>) = 2
        /\ \A i \in 1..Len(<<x, y>>) : <<x, y>>[i] = x \/ <<x, y>>[i] = y
    BY <2>2
  <2>5. \A i \in 1..Len(writes') :
              \/ \E j \in 1..Len(writes) : writes'[i] = writes[j]
              \/ \E j \in 1..Len(<<x, y>>) : writes'[i] = <<x, y>>[j]
    BY <1>2, <2>3, <2>4, SavedElements
  <2>6. \A i \in 1..Len(writes') : PrefixOf(writes'[i].log, log')
    BY <1>1, <1>3, <2>2, <2>4, <2>5
  <2> QED BY <1>3, <2>3, <2>6 DEF SnapshotsFollow
<1>9. CASE WriteFile
  <2>1. writes # <<>> /\ file' = Head(writes) /\ writes' = Tail(writes)
    BY <1>9 DEF WriteFile
  <2>2. /\ file' = writes[1] /\ 1 \in 1..Len(writes)
        /\ \A i \in 1..Len(writes') : writes'[i] = writes[i + 1] /\ i + 1 \in 1..Len(writes)
    BY <1>2, <2>1
  <2> QED BY <1>3, <2>2 DEF SnapshotsFollow
<1>10. CASE CancelRead
  BY <1>5, <1>10 DEF CancelRead
<1>11. CASE CancelCopy
  <2>1. CASE Last(canceller.log) \in Terminal
    BY <1>5, <1>11, <2>1 DEF CancelCopy
  <2>2. CASE Last(canceller.log) \notin Terminal
    <3>1. canceller' = [pc |-> "copy cancelled", log |-> <<>>]
      BY <1>11, <2>2 DEF CancelCopy, Replied
    <3>2. Split'
      BY <3>1 DEF Split
    <3> QED BY <3>2
  <2> QED BY <2>1, <2>2
<1>12. CASE CancelLive
  <2>1. file' = file /\ (writes' = writes \/ Emit("CANCELLED"))
    BY <1>12 DEF CancelLive
  <2> QED BY <1>4, <1>5, <2>1 DEF PipelineState
<1>13. CASE Restart
  BY <1>3, <1>13 DEF Restart, SnapshotsFollow
<1> QED BY <1>6, <1>7, <1>8, <1>9, <1>10, <1>11, <1>12, <1>13
        DEF TrialNext, Execute, Cancel

\* A second history stays.
LEMMA SplitStays == ASSUME TrialNext, Split PROVE Split'
<1>1. CASE Execute \/ WriteFile
  BY <1>1 DEF Split, Execute, WriteFile, Publish, EnsureActive, Fetched, Sent, Complete
<1>2. CASE Cancel \/ Restart
  BY <1>2 DEF Split, Cancel, CancelRead, CancelCopy, CancelLive, Restart
<1> QED BY <1>1, <1>2 DEF TrialNext

\* A step of the trial, at which the streams may end.
LEMMA TrialStepKeepsView ==
    ASSUME TrialInv, ViewInv, TrialNext, UNCHANGED <<page, net>>, stream' \in {stream, NoStream}
    PROVE  ViewInv'
<1>1. ViewTyped'
  <2>1. NoStream \in [open : BOOLEAN, sent : Nat, stuck : BOOLEAN]
    BY DEF NoStream
  <2> QED BY <2>1 DEF ViewInv, ViewTyped
<1> SUFFICES ASSUME ~Split' PROVE SnapshotsFollow' /\ MessagesFollow' /\ PageFollows'
  BY <1>1 DEF ViewInv
<1>2. SnapshotsFollow /\ MessagesFollow /\ PageFollows
  BY SplitStays DEF ViewInv
<1>3. SnapshotsFollow'
  BY <1>2, SnapshotsStep
<1>4. /\ log \in Seq(PipelineState) /\ log' \in Seq(PipelineState) /\ PrefixOf(log, log')
      /\ Last(log) \in Delivered => log' = log
  BY LogTyped, LogExtends
<1>5. \A i \in 1..Len(log) : log'[i] = log[i] /\ i \in 1..Len(log')
  BY <1>4 DEF PrefixOf
<1>6. MessagesFollow'
  BY <1>2, <1>5 DEF MessagesFollow
<1>7. PrefixOf(page.shown, log') /\ (page.state \in Delivered => page.state = Last(log'))
  <2>1. page.shown \in Seq(PipelineState)
    BY DEF ViewInv, ViewTyped
  <2> QED BY <1>2, <1>4, <2>1, PrefixTransitive DEF PageFollows
<1>8. PageFollows'
  <2>1. page.shown \in Seq(PipelineState) /\ net \in Seq([id : Nat, state : PipelineState])
    BY DEF ViewInv, ViewTyped
  <2>2. Len(page.shown) \in Nat /\ (net # <<>> => net[Len(net)].id \in Nat)
    <3>1. net # <<>> => Len(net) \in 1..Len(net)
      BY <2>1
    <3>2. \A i \in 1..Len(net) : net[i] \in [id : Nat, state : PipelineState]
      BY <2>1, ElementOfSeq
    <3> QED BY <2>1, <3>1, <3>2
  <2> QED BY <1>2, <1>7, <2>2 DEF PageFollows, NoStream
<1> QED BY <1>3, <1>6, <1>8

\* What is served is of the log.
LEMMA ServedGood ==
    ASSUME TrialInv, Served # NoRun
    PROVE  /\ GoodSnapshot(Served)
           /\ SnapshotsFollow => PrefixOf(Served.log, log)
<1>1. GoodSnapshot(Snapshot(log, outcome.signed)) /\ (file = NoRun \/ GoodSnapshot(file))
  BY DEF TrialInv, SnapshotsGood
<1>2. CASE file # NoRun
  BY <1>1, <1>2 DEF Served, SnapshotsFollow
<1>3. CASE file = NoRun
  <2>1. Served = Snapshot(log, outcome.signed)
    BY <1>3 DEF Served
  <2>2. Served.log = log
    BY <2>1 DEF Snapshot
  <2>3. PrefixOf(log, log)
    BY LogTyped DEF PrefixOf
  <2> QED BY <1>1, <2>1, <2>2, <2>3
<1> QED BY <1>2, <1>3

\* A part of the log that ends as a trial that is delivered ends is all of it.
LEMMA DeliveredIsLast ==
    ASSUME TrialInv, NEW i \in 1..Len(log), log[i] \in Delivered
    PROVE  i = Len(log) /\ log[i] = Last(log)
BY LogTyped DEF TrialInv, LogEnds, Last

\* The page after a snapshot of the run.
LEMMA RefreshedFollows ==
    ASSUME TrialInv, ViewInv, ~Split, Served # NoRun, page' = Refreshed(Served)
    PROVE  /\ PrefixOf(page'.shown, log)
           /\ page'.state \in Delivered => page'.state = Last(log)
<1>1. /\ GoodSnapshot(Served) /\ PrefixOf(Served.log, log)
  BY ServedGood DEF ViewInv
<1>2. page'.shown = Served.log /\ page'.state = Last(Served.log)
  BY DEF Refreshed
<1>3. /\ Served.log \in Seq(PipelineState) /\ Len(Served.log) \in 1..Len(log)
      /\ Last(Served.log) = log[Len(Served.log)]
  <2>1. Served.log \in Seq(PipelineState) /\ Served.log # <<>>
    BY <1>1 DEF GoodSnapshot, Snapshots
  <2>2. Len(Served.log) \in Nat /\ Len(Served.log) > 0 /\ Len(log) \in Nat
    BY <2>1, LogTyped
  <2> QED BY <1>1, <2>1, <2>2 DEF PrefixOf, Last
<1> QED BY <1>1, <1>2, <1>3, DeliveredIsLast

\* The page after a snapshot has its type.
LEMMA RefreshedTyped ==
    ASSUME TrialInv, ViewInv, Served # NoRun
    PROVE  /\ Refreshed(Served) \in
                [pc : {"loading", "connecting", "open", "waiting", "settled", "dead"},
                 shown : Seq(PipelineState), state : PipelineState]
           /\ Refreshed(Served).pc # "open"
<1>1. Served.log \in Seq(PipelineState) /\ Served.log # <<>>
  BY ServedGood DEF GoodSnapshot, Snapshots
<1>2. Last(Served.log) \in PipelineState
  BY <1>1 DEF Last
<1> QED BY <1>1, <1>2 DEF Refreshed

\* The library's FoldLeft over the messages that a page receives.
Fold == INSTANCE FoldProofs WITH Op <- Received

\* It is the fold that FoldProofs is about.
LEMMA FoldIsFold ==
    ASSUME NEW base, NEW seq
    PROVE  FoldLeft(Received, base, seq) = Fold!Folded(base, seq)
BY DEF FoldLeft, MapThenFoldSet, Max, Fold!Folded, Fold!FoldLeft,
       Fold!MapThenFoldSet, Fold!Max

\* The pages that a message reaches.
Pages == [pc : {"open", "settled"}, shown : Seq(PipelineState), state : PipelineState]

\* A message leaves the page with its type.
LEMMA ReceivedTyped ==
    ASSUME NEW view \in Pages, NEW message \in [id : Nat, state : PipelineState]
    PROVE  Received(view, message) \in Pages
BY DEF Received, Shown, Pages

\* The views that follow the log when the message with this id, or this many
\* events, is the last they have received.
Following(id) ==
    {view \in Pages :
        /\ PrefixOf(view.shown, log)
        /\ view.state \in Delivered => view.state = Last(log)
        /\ view.pc = "open" => id <= Len(view.shown)}

\* A message that follows what the page shows leaves it following the log.
LEMMA ReceivedFollows ==
    ASSUME TrialInv, NEW id \in Nat, NEW view \in Following(id),
           NEW message \in [id : Nat, state : PipelineState],
           message.id \in 1..Len(log), message.state = log[message.id], message.id <= id + 1
    PROVE  Received(view, message) \in Following(message.id)
<1>1. /\ view \in Pages /\ PrefixOf(view.shown, log)
      /\ view.state \in Delivered => view.state = Last(log)
      /\ view.pc = "open" => id <= Len(view.shown)
  BY DEF Following
<1>2. Received(view, message) \in Pages
  BY <1>1, ReceivedTyped
<1>3. CASE view.pc = "settled"
  BY <1>1, <1>3 DEF Received, Following
<1>4. CASE view.pc = "open"
  <2>1. message.id <= Len(view.shown) + 1 /\ view.shown \in Seq(PipelineState)
        /\ Len(view.shown) \in Nat /\ log \in Seq(PipelineState) /\ Len(log) \in Nat
    BY <1>1, <1>4, LogTyped DEF Pages
  <2>2. /\ PrefixOf(Shown(view.shown, message), log)
        /\ message.id <= Len(Shown(view.shown, message))
    <3>1. CASE message.id <= Len(view.shown)
      BY <1>1, <3>1 DEF Shown
    <3>2. CASE message.id = Len(view.shown) + 1
      <4>1. /\ Shown(view.shown, message) = Append(view.shown, message.state)
            /\ Len(Append(view.shown, message.state)) = message.id
            /\ Append(view.shown, message.state)[message.id] = log[message.id]
            /\ \A i \in 1..Len(view.shown) :
                  Append(view.shown, message.state)[i] = view.shown[i]
        BY <2>1, <3>2 DEF Shown
      <4> QED BY <1>1, <2>1, <3>2, <4>1 DEF PrefixOf
    <3> QED BY <2>1, <3>1, <3>2
  <2>3. message.state \in Delivered => message.state = Last(log)
    BY DeliveredIsLast
  <2>4. /\ Received(view, message).shown = Shown(view.shown, message)
        /\ Received(view, message).state = message.state
    BY <1>4 DEF Received
  <2> QED BY <1>2, <2>2, <2>3, <2>4 DEF Following
<1> QED BY <1>1, <1>3, <1>4 DEF Pages

\* The browser dispatches what it has received, in one fold.
LEMMA DeliverStep ==
    ASSUME TrialInv, ViewInv, Deliver, UNCHANGED trialVars
    PROVE  ViewInv'
<1>1. /\ page.pc = "open" /\ net # <<>> /\ net' = <<>>
      /\ page' = FoldLeft(Received, page, net)
      /\ stream' = IF page'.pc = "settled" THEN NoStream ELSE stream
  BY DEF Deliver
<1>2. /\ page \in Pages /\ net \in Seq([id : Nat, state : PipelineState])
      /\ stream \in [open : BOOLEAN, sent : Nat, stuck : BOOLEAN]
  BY <1>1 DEF ViewInv, ViewTyped, Pages
<1>3. \A i \in 1..Len(net) : net[i] \in [id : Nat, state : PipelineState]
  BY <1>2, ElementOfSeq
<1>4. page' \in Pages
  <2> DEFINE I == [i \in 0..Len(net) |-> Pages]
  <2>1. page \in I[0]
    BY <1>2
  <2>2. \A i \in 1..Len(net) : \A view \in I[i - 1] : Received(view, net[i]) \in I[i]
    BY <1>2, <1>3, ReceivedTyped
  <2>3. I[Len(net)] = Pages
    BY <1>2
  <2> HIDE DEF I
  <2>4. Fold!Folded(page, net) \in I[Len(net)]
    BY <1>2, <2>1, <2>2, Fold!FoldInduction
  <2> QED BY <1>1, <2>3, <2>4, FoldIsFold
<1>5. ViewTyped'
  <2>1. NoStream \in [open : BOOLEAN, sent : Nat, stuck : BOOLEAN]
    BY DEF NoStream
  <2>2. stream' \in [open : BOOLEAN, sent : Nat, stuck : BOOLEAN]
    BY <1>1, <1>2, <2>1
  <2> QED BY <1>1, <1>4, <2>2 DEF ViewTyped, Pages
<1> SUFFICES ASSUME ~Split' PROVE SnapshotsFollow' /\ MessagesFollow' /\ PageFollows'
  BY <1>5 DEF ViewInv
<1>6. SnapshotsFollow /\ MessagesFollow /\ PageFollows
  BY DEF ViewInv, Split, trialVars
<1>7. Len(net) \in Nat /\ Len(net) > 0 /\ Len(page.shown) \in Nat
  BY <1>1, <1>2 DEF Pages
<1>8. page' \in Following(net[Len(net)].id)
  <2> DEFINE Id(i) == IF i = 0 THEN Len(page.shown) ELSE net[i].id
             I == [i \in 0..Len(net) |-> Following(Id(i))]
  <2>1. page \in Following(Len(page.shown))
    BY <1>2, <1>6, <1>7 DEF Following, PageFollows
  <2>2. page \in I[0]
    BY <1>7, <2>1
  <2>3. ASSUME NEW i \in 1..Len(net), NEW view \in I[i - 1]
        PROVE  Received(view, net[i]) \in I[i]
    <3>1. /\ i - 1 \in 0..Len(net) /\ i \in 0..Len(net) /\ Id(i - 1) \in Nat
          /\ Id(i) = net[i].id
      BY <1>3, <1>7
    <3>2. /\ net[i].id \in 1..Len(log) /\ net[i].state = log[net[i].id]
          /\ net[i].id <= Id(i - 1) + 1
      BY <1>3, <1>6, <1>7 DEF MessagesFollow
    <3>3. view \in Following(Id(i - 1))
      BY <3>1
    <3> HIDE DEF Id
    <3>4. Received(view, net[i]) \in Following(net[i].id)
      BY <1>3, <3>1, <3>2, <3>3, ReceivedFollows
    <3> QED BY <3>1, <3>4
  <2>4. I[Len(net)] = Following(net[Len(net)].id)
    BY <1>7
  <2> HIDE DEF I
  <2>5. Fold!Folded(page, net) \in I[Len(net)]
    BY <1>2, <2>2, <2>3, Fold!FoldInduction
  <2> QED BY <1>1, <2>4, <2>5, FoldIsFold
<1>9. /\ PrefixOf(page'.shown, log')
      /\ page'.state \in Delivered => page'.state = Last(log')
      /\ page'.pc = "open" => net[Len(net)].id <= Len(page'.shown)
  BY <1>8 DEF Following, trialVars
<1>10. PageFollows'
  <2>1. page'.pc = "open" => stream.sent <= Len(page'.shown)
    <3>1. stream.sent <= net[Len(net)].id
      BY <1>1, <1>6 DEF PageFollows
    <3>2. Len(net) \in 1..Len(net) /\ Len(page'.shown) \in Nat /\ stream.sent \in Nat
      BY <1>2, <1>4, <1>7 DEF Pages
    <3>3. net[Len(net)].id \in Nat
      BY <1>3, <3>2
    <3> QED BY <1>9, <3>1, <3>2, <3>3
  <2>2. page'.pc \in {"open", "settled"} /\ ~NoStream.open
    BY <1>4 DEF Pages, NoStream
  <2> QED BY <1>1, <1>9, <2>1, <2>2 DEF PageFollows
<1>11. MessagesFollow'
  BY <1>1 DEF MessagesFollow
<1> QED BY <1>6, <1>10, <1>11 DEF SnapshotsFollow, trialVars

\* The messages of a stream are the events after the last it sent.
LEMMA MessagesOf ==
    ASSUME NEW run, GoodSnapshot(run), NEW sent \in Nat
    PROVE  LET m == SubSeq(Message(run), sent + 1, Len(run.log))
           IN  /\ m \in Seq([id : Nat, state : PipelineState])
               /\ Len(m) = IF sent < Len(run.log) THEN Len(run.log) - sent ELSE 0
               /\ \A i \in 1..Len(m) : /\ sent + i \in 1..Len(run.log)
                                       /\ m[i].id = sent + i
                                       /\ m[i].state = run.log[sent + i]
<1> DEFINE n == Len(run.log)
           m == SubSeq(Message(run), sent + 1, n)
<1>1. run.log \in Seq(PipelineState) /\ n \in Nat /\ DOMAIN run.log = 1..n
  BY DEF GoodSnapshot, Snapshots
<1>2. \A i \in 1..n : run.log[i] \in PipelineState
  BY <1>1, ElementOfSeq
<1>3. \A i \in 1..n : /\ Message(run)[i].id = i /\ Message(run)[i].state = run.log[i]
                      /\ Message(run)[i] \in [id : Nat, state : PipelineState]
  BY <1>1, <1>2 DEF Message
<1> HIDE DEF n
<1>4. \A i \in sent + 1..n : Message(run)[i] \in [id : Nat, state : PipelineState]
  <2>1. \A i \in sent + 1..n : i \in 1..n
    BY <1>1
  <2> QED BY <1>3, <2>1
<1>5. /\ m \in Seq([id : Nat, state : PipelineState])
      /\ Len(m) = IF sent + 1 <= n THEN n - (sent + 1) + 1 ELSE 0
      /\ \A i \in 1..n - (sent + 1) + 1 : m[i] = Message(run)[sent + 1 + i - 1]
  <2>1. sent + 1 \in Int /\ n \in Int
    BY <1>1
  <2> QED BY <1>4, <2>1, SubSeqProperties
<1> HIDE DEF m
<1>6. Len(m) = IF sent < n THEN n - sent ELSE 0
  BY <1>1, <1>5
<1>7. ASSUME NEW i \in 1..Len(m)
      PROVE  sent + i \in 1..n /\ m[i].id = sent + i /\ m[i].state = run.log[sent + i]
  <2>1. i \in 1..n - (sent + 1) + 1 /\ sent + 1 + i - 1 = sent + i /\ sent + i \in 1..n
    BY <1>1, <1>6
  <2>2. m[i] = Message(run)[sent + i]
    BY <1>5, <2>1
  <2> QED BY <1>3, <2>1, <2>2
<1> QED BY <1>5, <1>6, <1>7 DEF m, n

\* What a stream sends follows the log, whatever it is read from.
LEMMA PushStep ==
    ASSUME TrialInv, ViewInv, Push, UNCHANGED trialVars
    PROVE  ViewInv'
<1> DEFINE run == Served
           m == SubSeq(Message(run), stream.sent + 1, Len(run.log))
<1>1. /\ stream.open /\ run # NoRun /\ page' = page
      /\ net' = net \o m
      /\ \E over \in BOOLEAN :
            stream' = [stream EXCEPT !.sent = Len(run.log), !.open = over]
  BY DEF Push
<1>2. GoodSnapshot(run) /\ stream.sent \in Nat
  BY <1>1, ServedGood DEF ViewInv, ViewTyped
<1>3. run.log \in Seq(PipelineState) /\ Len(run.log) \in Nat
  BY <1>2 DEF GoodSnapshot, Snapshots
<1>4. /\ m \in Seq([id : Nat, state : PipelineState])
      /\ Len(m) = IF stream.sent < Len(run.log) THEN Len(run.log) - stream.sent ELSE 0
      /\ \A i \in 1..Len(m) : /\ stream.sent + i \in 1..Len(run.log)
                              /\ m[i].id = stream.sent + i
                              /\ m[i].state = run.log[stream.sent + i]
  <2> HIDE DEF run
  <2> QED BY <1>2, MessagesOf
<1> HIDE DEF m, run
<1>5. /\ net \in Seq([id : Nat, state : PipelineState])
      /\ stream \in [open : BOOLEAN, sent : Nat, stuck : BOOLEAN]
      /\ page.shown \in Seq(PipelineState)
  BY DEF ViewInv, ViewTyped
<1>6. /\ net' \in Seq([id : Nat, state : PipelineState])
      /\ Len(net') = Len(net) + Len(m)
      /\ \A i \in 1..Len(net) + Len(m) :
            net'[i] = IF i <= Len(net) THEN net[i] ELSE m[i - Len(net)]
  <2>1. net' = net \o m
    BY <1>1
  <2>2. /\ net \o m \in Seq([id : Nat, state : PipelineState])
        /\ Len(net \o m) = Len(net) + Len(m)
        /\ \A i \in 1..Len(net) + Len(m) :
              (net \o m)[i] = IF i <= Len(net) THEN net[i] ELSE m[i - Len(net)]
    BY <1>4, <1>5, ConcatProperties, Zenon
  <2> QED BY <2>1, <2>2
<1>7. ViewTyped'
  BY <1>1, <1>3, <1>5, <1>6 DEF ViewInv, ViewTyped
<1> SUFFICES ASSUME ~Split' PROVE SnapshotsFollow' /\ MessagesFollow' /\ PageFollows'
  BY <1>7 DEF ViewInv
<1>8. SnapshotsFollow /\ MessagesFollow /\ PageFollows
  BY DEF ViewInv, Split, trialVars
<1>9. PrefixOf(run.log, log) /\ page.pc = "open"
  BY <1>1, <1>8, ServedGood DEF PageFollows, run
<1>10. /\ Len(net) \in Nat /\ Len(m) \in Nat /\ Len(page.shown) \in Nat /\ Len(log) \in Nat
       /\ \A i \in 1..Len(net) : net[i] \in [id : Nat, state : PipelineState]
  <2>1. \A i \in 1..Len(net) : net[i] \in [id : Nat, state : PipelineState]
    BY <1>5, ElementOfSeq
  <2> QED BY <1>4, <1>5, <2>1, LogTyped
<1> DEFINE last == IF net = <<>> THEN Len(page.shown) ELSE net[Len(net)].id
<1>11. stream.sent <= last /\ last \in Nat
  <2>1. net # <<>> => Len(net) \in 1..Len(net)
    BY <1>5, <1>10
  <2> QED BY <1>8, <1>9, <1>10, <2>1 DEF PageFollows
<1>12. MessagesFollow'
  <2> SUFFICES ASSUME NEW i \in 1..Len(net')
               PROVE  /\ net'[i].id \in 1..Len(log) /\ net'[i].state = log[net'[i].id]
                      /\ net'[i].id <= 1 + IF i = 1 THEN Len(page.shown) ELSE net'[i - 1].id
    BY <1>1 DEF MessagesFollow, trialVars
  <2>1. CASE i <= Len(net)
    <3>1. i \in 1..Len(net) /\ net'[i] = net[i] /\ (i # 1 => net'[i - 1] = net[i - 1])
      BY <1>6, <1>10, <2>1
    <3> QED BY <1>8, <3>1 DEF MessagesFollow
  <2>2. CASE i > Len(net)
    <3> DEFINE j == i - Len(net)
    <3>1. j \in 1..Len(m) /\ net'[i] = m[j]
      BY <1>6, <1>10, <2>2
    <3>2. /\ net'[i].id = stream.sent + j /\ net'[i].state = run.log[stream.sent + j]
          /\ stream.sent + j \in 1..Len(run.log)
      BY <1>4, <3>1
    <3>3. net'[i].id \in 1..Len(log) /\ net'[i].state = log[net'[i].id]
      BY <1>3, <1>9, <1>10, <3>2 DEF PrefixOf
    <3>4. CASE j = 1
      <4>1. net'[i].id = stream.sent + 1
        BY <3>2, <3>4
      <4>2. CASE i = 1
        <5>1. last = Len(page.shown)
          BY <1>5, <1>10, <3>4, <4>2
        <5> QED BY <1>2, <1>10, <1>11, <3>3, <4>1, <4>2, <5>1
      <4>3. CASE i # 1
        <5>1. /\ i - 1 = Len(net) /\ i - 1 \in 1..Len(net) /\ net # <<>>
              /\ net'[i - 1] = net[i - 1]
          BY <1>6, <1>10, <2>2, <3>4, <4>3
        <5>2. net'[i - 1].id = last
          BY <5>1
        <5> QED BY <1>2, <1>11, <3>3, <4>1, <4>3, <5>2
      <4> QED BY <4>2, <4>3
    <3>5. CASE j # 1
      <4>1. /\ i # 1 /\ j - 1 \in 1..Len(m) /\ net'[i - 1] = m[j - 1]
        <5>1. /\ i # 1 /\ j - 1 \in 1..Len(m) /\ i - 1 \in 1..Len(net) + Len(m)
              /\ ~ (i - 1 <= Len(net)) /\ (i - 1) - Len(net) = j - 1
          <6>1. PICK p \in Nat, q \in Nat : p = Len(net) /\ q = Len(m)
            BY <1>10
          <6>2. i \in 1..p + q /\ i > p /\ i - p \in 1..q /\ i - p # 1
            BY <1>6, <2>2, <3>1, <3>5, <6>1
          <6>3. i # 1 /\ (i - p) - 1 \in 1..q /\ i - 1 \in 1..p + q /\ ~ (i - 1 <= p)
            BY <6>1, <6>2
          <6>4. (i - 1) - p = (i - p) - 1
            BY <6>1, <6>2
          <6> QED BY <6>1, <6>3, <6>4
        <5> QED BY <1>6, <5>1
      <4>2. net'[i - 1].id = stream.sent + (j - 1)
        BY <1>4, <4>1
      <4> QED BY <1>2, <3>1, <3>2, <3>3, <4>1, <4>2
    <3> QED BY <3>4, <3>5
  <2> QED BY <1>10, <2>1, <2>2
<1>13. PageFollows'
  <2> SUFFICES stream'.sent <= IF net' = <<>> THEN Len(page.shown) ELSE net'[Len(net')].id
    BY <1>1, <1>8, <1>9 DEF PageFollows, trialVars
  <2>1. stream'.sent = Len(run.log)
    BY <1>1, <1>5
  <2>2. CASE stream.sent < Len(run.log)
    <3>1. Len(m) = Len(run.log) - stream.sent /\ Len(m) \in 1..Len(m) /\ net' # <<>>
      <4>1. Len(m) = Len(run.log) - stream.sent
        BY <1>4, <2>2
      <4>2. Len(m) \in 1..Len(m)
        BY <1>2, <1>3, <2>2, <4>1
      <4>3. Len(net') # 0
        BY <1>6, <1>10, <4>2
      <4> QED BY <4>1, <4>2, <4>3, EmptySeq
    <3>2. net'[Len(net')] = m[Len(m)]
      BY <1>6, <1>10, <3>1
    <3>3. net'[Len(net')].id = Len(run.log)
      BY <1>2, <1>3, <1>4, <3>1, <3>2
    <3> QED BY <1>3, <2>1, <3>1, <3>3
  <2>3. CASE ~ (stream.sent < Len(run.log))
    <3>1. m = <<>>
      BY <1>4, <2>3, EmptySeq
    <3>2. net' = net
      BY <1>1, <1>5, <3>1
    <3> QED BY <1>2, <1>3, <1>11, <2>1, <2>3, <3>2
  <2> QED BY <2>2, <2>3
<1>14. SnapshotsFollow'
  BY <1>8 DEF SnapshotsFollow, trialVars
<1> QED BY <1>12, <1>13, <1>14

\* Where the page may be.
PagePc == {"loading", "connecting", "open", "waiting", "settled", "dead"}

\* The stream has its type.
Streams == [open : BOOLEAN, sent : Nat, stuck : BOOLEAN]

\* A message has its type.
Messages == [id : Nat, state : PipelineState]

\* The stream when there is none, and when it has just been opened.
LEMMA NoStreamIs ==
    /\ NoStream \in Streams /\ NoStream.open = FALSE /\ NoStream.sent = 0
    /\ [NoStream EXCEPT !.open = TRUE] \in Streams
    /\ [NoStream EXCEPT !.open = TRUE].sent = 0
BY DEF NoStream, Streams

\* A step of the page leaves the log, and what it starts from is the invariant.
LEMMA Unsplit ==
    ASSUME ViewInv, UNCHANGED trialVars
    PROVE  /\ log' = log /\ Split' = Split
           /\ ~Split => SnapshotsFollow' /\ SnapshotsFollow /\ MessagesFollow /\ PageFollows
BY DEF ViewInv, trialVars, Split, SnapshotsFollow

\* The page moves on, and shows what it did.
LEMMA GotoStep ==
    ASSUME TrialInv, ViewInv, UNCHANGED trialVars,
           NEW where \in PagePc, page' = [page EXCEPT !.pc = where],
           stream' \in Streams, net' \in Seq(Messages),
           ~Split => /\ net' = <<>>
                     /\ where # "open" => ~stream'.open
                     /\ where = "open" => stream'.sent = 0
    PROVE  ViewInv'
<1>1. page \in [pc : PagePc, shown : Seq(PipelineState), state : PipelineState]
  BY DEF ViewInv, ViewTyped, PagePc
<1>2. /\ page' \in [pc : PagePc, shown : Seq(PipelineState), state : PipelineState]
      /\ page'.shown = page.shown /\ page'.state = page.state /\ page'.pc = where
  BY <1>1
<1>3. ViewTyped'
  BY <1>2 DEF ViewTyped, PagePc, Streams, Messages
<1>4. ASSUME ~Split PROVE MessagesFollow' /\ PageFollows'
  <2>1. net' = <<>> /\ Len(page.shown) >= 0
    BY <1>1, <1>4
  <2>2. MessagesFollow'
    BY <2>1 DEF MessagesFollow
  <2>3. PageFollows
    BY <1>4, Unsplit
  <2>4. PageFollows'
    BY <1>2, <1>4, <2>1, <2>3, Unsplit DEF PageFollows
  <2> QED BY <2>2, <2>4
<1> QED BY <1>3, <1>4, Unsplit DEF ViewInv

\* The page looks at the run again, with no stream open.
LEMMA RefreshStep ==
    ASSUME TrialInv, ViewInv, UNCHANGED trialVars, UNCHANGED <<stream, net>>,
           page.pc # "open", Served # NoRun, page' = Refreshed(Served)
    PROVE  ViewInv'
<1>1. ViewTyped' /\ page'.pc # "open"
  BY RefreshedTyped DEF ViewInv, ViewTyped
<1>2. ASSUME ~Split PROVE MessagesFollow' /\ PageFollows'
  <2>1. /\ PrefixOf(page'.shown, log)
        /\ page'.state \in Delivered => page'.state = Last(log)
    BY <1>2, RefreshedFollows
  <2>2. net' = <<>> /\ ~stream'.open
    BY <1>2, Unsplit DEF PageFollows
  <2>3. PageFollows'
    BY <1>1, <1>2, <2>1, <2>2, Unsplit DEF PageFollows
  <2>4. MessagesFollow'
    BY <2>2 DEF MessagesFollow
  <2> QED BY <2>3, <2>4
<1> QED BY <1>1, <1>2, Unsplit DEF ViewInv

\* Only the server's end of the stream changes.
LEMMA StreamStep ==
    ASSUME TrialInv, ViewInv, UNCHANGED trialVars, UNCHANGED <<page, net>>,
           stream' \in Streams, stream'.sent = stream.sent,
           stream'.open => stream.open
    PROVE  ViewInv'
<1>1. ViewTyped'
  BY DEF ViewInv, ViewTyped, Streams
<1>2. ASSUME ~Split PROVE MessagesFollow' /\ PageFollows'
  <2>1. MessagesFollow /\ PageFollows /\ log' = log
    BY <1>2, Unsplit
  <2> QED BY <2>1 DEF MessagesFollow, PageFollows
<1> QED BY <1>1, <1>2, Unsplit DEF ViewInv

\* Every step of the page keeps its invariant.
LEMMA ViewStep ==
    ASSUME TrialInv, ViewInv, View \/ Push \/ PushFails \/ Expire \/ WindowReset,
           UNCHANGED trialVars
    PROVE  ViewInv'
<1>1. /\ stream \in Streams /\ net \in Seq(Messages) /\ <<>> \in Seq(Messages)
      /\ page.pc \in PagePc
      /\ {"connecting", "open", "waiting", "dead"} \subseteq PagePc
  BY DEF ViewInv, ViewTyped, Streams, Messages, PagePc
<1>2. ~Split /\ page.pc # "open" => ~stream.open /\ net = <<>>
  BY Unsplit DEF PageFollows
<1>3. CASE Load
  <2>1. page.pc = "loading" /\ UNCHANGED <<stream, net>>
    BY <1>3 DEF Load
  <2>2. CASE page' = [page EXCEPT !.pc = "dead"]
    BY <1>1, <1>2, <2>1, <2>2, GotoStep
  <2>3. CASE Served # NoRun /\ page' = Refreshed(Served)
    BY <2>1, <2>3, RefreshStep
  <2> QED BY <1>3, <2>2, <2>3 DEF Load, Goto
<1>4. CASE Connect
  <2>1. page.pc = "connecting" /\ net' = <<>>
    BY <1>4 DEF Connect
  <2>2. CASE page' = [page EXCEPT !.pc = "waiting"] /\ UNCHANGED stream
    BY <1>1, <1>2, <2>1, <2>2, GotoStep
  <2>3. CASE /\ page' = [page EXCEPT !.pc = "open"]
             /\ stream' = [NoStream EXCEPT !.open = TRUE]
    BY <1>1, <1>2, <2>1, <2>3, GotoStep, NoStreamIs
  <2> QED BY <1>4, <2>2, <2>3 DEF Connect, Goto
<1>5. CASE Deliver
  BY <1>5, DeliverStep
<1>6. CASE Disconnected
  <2>1. page' = [page EXCEPT !.pc = "waiting"]
    BY <1>6 DEF Disconnected, Goto
  <2>2. CASE ~stream.open /\ net = <<>> /\ UNCHANGED <<stream, net>>
    BY <1>1, <2>1, <2>2, GotoStep
  <2>3. CASE stream' = NoStream /\ net' = <<>>
    BY <1>1, <2>1, <2>3, GotoStep, NoStreamIs
  <2> QED BY <1>6, <2>2, <2>3 DEF Disconnected
<1>7. CASE Backoff
  <2>1. page.pc = "waiting" /\ UNCHANGED <<stream, net>>
    BY <1>7 DEF Backoff
  <2>2. CASE page' = [page EXCEPT !.pc = "connecting"]
    BY <1>1, <1>2, <2>1, <2>2, GotoStep
  <2>3. CASE Served # NoRun /\ page' = Refreshed(Served)
    BY <2>1, <2>3, RefreshStep
  <2> QED BY <1>7, <2>2, <2>3 DEF Backoff, Goto
<1>8. CASE Push
  BY <1>8, PushStep
<1>9. CASE PushFails \/ Expire \/ WindowReset
  <2>1. UNCHANGED <<page, net>>
    BY <1>9 DEF PushFails, Expire, WindowReset
  <2>2. /\ stream' \in Streams /\ stream'.sent = stream.sent
        /\ stream'.open => stream.open
    BY <1>1, <1>9 DEF PushFails, Expire, WindowReset, Streams
  <2> QED BY <2>1, <2>2, StreamStep
<1> QED BY <1>3, <1>4, <1>5, <1>6, <1>7, <1>8, <1>9 DEF View

-----------------------------------------------------------------------------
\* The trial and its page

\* The inductive invariant of the service.
ServiceInv == TrialInv /\ ViewInv

\* A step is of the trial, which leaves the page, or of the page, or of neither.
LEMMA NextIs ==
    ASSUME Next
    PROVE  \/ TrialNext /\ UNCHANGED <<page, net>> /\ stream' \in {stream, NoStream}
           \/ (View \/ Push \/ PushFails \/ Expire \/ WindowReset) /\ UNCHANGED trialVars
           \/ UNCHANGED <<trialVars, viewVars>>
<1>1. CASE Verify
  BY <1>1 DEF Verify
<1>2. CASE ProcessEnds
  BY <1>2 DEF ProcessEnds, TrialNext
<1>3. CASE (Execute \/ WriteFile \/ Cancel) /\ UNCHANGED viewVars
  BY <1>3 DEF TrialNext, viewVars
<1>4. CASE (View \/ Push \/ PushFails \/ Expire \/ WindowReset) /\ UNCHANGED trialVars
  BY <1>4
<1> QED BY <1>1, <1>2, <1>3, <1>4 DEF Next

\* Every step keeps the invariant,
LEMMA ServiceStep == ServiceInv /\ [Next]_vars => ServiceInv'
<1> SUFFICES ASSUME ServiceInv, [Next]_vars PROVE ServiceInv'
  OBVIOUS
<1>1. TrialInv /\ ViewInv
  BY DEF ServiceInv
<1>2. CASE TrialNext /\ UNCHANGED <<page, net>> /\ stream' \in {stream, NoStream}
  BY <1>1, <1>2, TrialStep, TrialStepKeepsView DEF ServiceInv
<1>3. CASE (View \/ Push \/ PushFails \/ Expire \/ WindowReset) /\ UNCHANGED trialVars
  BY <1>1, <1>3, TrialStep, ViewStep DEF ServiceInv
<1>4. CASE UNCHANGED <<trialVars, viewVars>>
  <2>1. TrialInv'
    BY <1>1, <1>4, TrialStep
  <2>2. ViewInv'
    <3>1. /\ UNCHANGED trialVars /\ UNCHANGED <<page, net>> /\ stream' = stream
      BY <1>4 DEF viewVars
    <3>2. stream \in Streams
      BY <1>1 DEF ViewInv, ViewTyped, Streams
    <3> QED BY <1>1, <3>1, <3>2, StreamStep
  <2> QED BY <2>1, <2>2 DEF ServiceInv
<1> QED BY <1>2, <1>3, <1>4, NextIs DEF vars

\* it holds from the start,
LEMMA ServiceStarts == ServiceInit => ServiceInv
<1> SUFFICES ASSUME Init, ViewInit PROVE ViewInv
  BY TrialInit DEF ServiceInit, ServiceInv
<1>1. /\ page = [pc |-> "loading", shown |-> <<>>, state |-> "CREATED"]
      /\ stream = NoStream /\ net = <<>>
  BY DEF ViewInit
<1>2. ViewTyped
  BY <1>1, NoStreamIs DEF ViewTyped, Streams, PipelineState
<1>3. log = <<"CREATED">> /\ file = NoRun
  BY DEF Init
<1>4. SnapshotsFollow
  <2>1. PICK x : x = Snapshot(<<"CREATED">>, FALSE)
    OBVIOUS
  <2>2. x.log = log
    BY <1>3, <2>1 DEF Snapshot
  <2>3. writes = <<x>> \/ writes = <<>>
    BY <2>1 DEF Init
  <2>4. PrefixOf(log, log)
    BY <1>3 DEF PrefixOf
  <2>5. \A i \in 1..Len(writes) : writes[i] = x
    BY <2>3
  <2> QED BY <1>3, <2>2, <2>4, <2>5 DEF SnapshotsFollow
<1>5. MessagesFollow /\ PageFollows
  BY <1>1, <1>3, NoStreamIs DEF MessagesFollow, PageFollows, PrefixOf, Delivered
<1> QED BY <1>2, <1>4, <1>5 DEF ViewInv

\* and so always.
LEMMA ServiceInvariance == Spec => []ServiceInv
<1> QED BY ServiceStarts, ServiceStep, PTL DEF Spec

\* A function on 1..n is a sequence.
LEMMA FunctionIsSeq ==
    ASSUME NEW S, NEW n \in Nat, NEW f \in [1..n -> S]
    PROVE  f \in Seq(S) /\ Len(f) = n
BY SeqDef

-----------------------------------------------------------------------------
\* The fetches

\* The library's FoldLeft over the hops of a fetch.
Hopping == INSTANCE FoldProofs WITH Op <- FetchHop

\* It is the fold that FoldProofs is about.
LEMMA HoppingIsFold ==
    ASSUME NEW base, NEW seq
    PROVE  FoldLeft(FetchHop, base, seq) = Hopping!Folded(base, seq)
BY DEF FoldLeft, MapThenFoldSet, Max, Hopping!Folded, Hopping!FoldLeft,
       Hopping!MapThenFoldSet, Hopping!Max

\* The calls that may be in the loop of a fetch with these limits, or come out
\* of it.
Calls ==
    [limits : Limits, outcome : {"going", "failed", "success", "error"},
     calls : Nat, bytes : Nat, clock : Nat, lookup : Nat, peers : SUBSET Address]

\* Of those, the ones within the limits that they carry: a call may overrun
\* its deadline only by the lookup that its deadline does not interrupt.
BoundedCalls(limits) ==
    {call \in Calls :
        /\ call.limits = limits
        /\ call.peers \subseteq PublicAddress
        /\ call.calls <= limits.redirects + 1
        /\ call.outcome = "going" => call.calls <= limits.redirects
        /\ call.outcome # "failed" =>
              /\ call.bytes <= limits.bytes
              /\ call.clock <= limits.timeout + call.lookup}

\* One request, and what becomes of it, keeps a call within its limits.
LEMMA HopStaysBounded ==
    ASSUME NEW limits \in Limits, NEW call \in BoundedCalls(limits), NEW hop \in Hop
    PROVE  FetchHop(call, hop) \in BoundedCalls(limits)
<1> DEFINE after == Requested(call, hop)
<1>1. /\ call \in Calls /\ call.limits = limits
      /\ call.peers \subseteq PublicAddress
      /\ call.calls <= limits.redirects + 1
      /\ call.outcome = "going" => call.calls <= limits.redirects
      /\ call.outcome # "failed" =>
            /\ call.bytes <= limits.bytes
            /\ call.clock <= limits.timeout + call.lookup
  BY DEF BoundedCalls
<1>2. /\ limits.timeout \in Nat /\ limits.bytes \in Nat /\ limits.redirects \in Nat
      /\ call.calls \in Nat /\ call.bytes \in Nat /\ call.clock \in Nat
      /\ call.lookup \in Nat
  BY <1>1 DEF Limits, Calls
<1>3. /\ hop.lookup \in Nat /\ hop.request \in Nat /\ hop.bytes \in Nat
      /\ hop.peer \in Address /\ hop.status \in {"success", "redirect", "error"}
  BY EgressAssumption DEF Hop
<1>4. /\ after \in Calls /\ after.limits = limits /\ after.outcome = call.outcome
      /\ after.calls = call.calls + 1 /\ after.bytes = call.bytes + hop.bytes
      /\ after.clock = call.clock + hop.lookup + hop.request /\ after.lookup = hop.lookup
      /\ after.peers = call.peers \cup {hop.peer}
  <2>1. /\ after.limits = limits /\ after.outcome = call.outcome
        /\ after.calls = call.calls + 1 /\ after.bytes = call.bytes + hop.bytes
        /\ after.clock = call.clock + hop.lookup + hop.request /\ after.lookup = hop.lookup
        /\ after.peers = call.peers \cup {hop.peer}
    BY <1>1 DEF Requested, Calls
  <2>2. /\ call.calls + 1 \in Nat /\ call.bytes + hop.bytes \in Nat
        /\ call.clock + hop.lookup + hop.request \in Nat
        /\ call.peers \cup {hop.peer} \in SUBSET Address
    BY <1>1, <1>2, <1>3 DEF Calls
  <2>3. after \in Calls
    BY <1>1, <1>3, <2>2 DEF Requested, Calls
  <2> QED BY <2>1, <2>3
<1> HIDE DEF after

\* A call that fails keeps what it did.
<1>5. ASSUME NEW c \in Calls, c.limits = limits, c.peers \subseteq PublicAddress,
             c.calls <= limits.redirects + 1
      PROVE  Failed(c) \in BoundedCalls(limits)
  BY <1>5 DEF Failed, BoundedCalls, Calls
<1>6. CASE call.outcome # "going"
  BY <1>6 DEF FetchHop
<1>7. CASE call.outcome = "going" /\ (Remaining(call) <= 0 \/ ~Validated(hop) \/ ~Approved(hop))
  BY <1>1, <1>5, <1>7 DEF FetchHop
<1>8. CASE call.outcome = "going" /\ Remaining(call) > 0 /\ Validated(hop) /\ Approved(hop)
  <2>1. after.peers \subseteq PublicAddress /\ after.calls <= limits.redirects + 1
    BY <1>1, <1>2, <1>4, <1>8 DEF Approved
  <2>2. Failed(after) \in BoundedCalls(limits)
    BY <1>4, <1>5, <2>1
  <2>3. Remaining(call) = limits.timeout - call.clock /\ ~ (Remaining(call) <= 0)
    BY <1>1, <1>2, <1>8 DEF Remaining
  <2>4. CASE ~Answered(hop, Remaining(call), call.limits.bytes - call.bytes)
             \/ ~WithinBudget(after)
    BY <1>8, <2>2, <2>3, <2>4 DEF FetchHop, after
  <2>5. CASE Answered(hop, Remaining(call), call.limits.bytes - call.bytes)
             /\ WithinBudget(after)
    <3>1. after.bytes <= limits.bytes /\ after.clock <= limits.timeout + after.lookup
      BY <1>1, <1>2, <1>3, <1>4, <2>3, <2>5 DEF Answered
    <3>2. CASE hop.status # "redirect"
      <4>1. FetchHop(call, hop) = [after EXCEPT !.outcome = hop.status]
        BY <1>8, <2>3, <2>5, <3>2 DEF FetchHop, after
      <4>2. hop.status \in {"success", "error"}
        BY <1>3, <3>2
      <4>3. [after EXCEPT !.outcome = hop.status] \in BoundedCalls(limits)
        BY <1>4, <2>1, <3>1, <4>2 DEF BoundedCalls, Calls
      <4> QED BY <4>1, <4>3
    <3>3. CASE hop.status = "redirect" /\ (~hop.location \/ call.calls = limits.redirects)
      BY <1>1, <1>8, <2>2, <2>3, <2>5, <3>3 DEF FetchHop, after
    <3>4. CASE hop.status = "redirect" /\ hop.location /\ call.calls # limits.redirects
      <4>1. FetchHop(call, hop) = after
        BY <1>1, <1>8, <2>3, <2>5, <3>4 DEF FetchHop, after
      <4>2. after.calls <= limits.redirects
        BY <1>1, <1>2, <1>4, <1>8, <3>4
      <4> QED BY <1>4, <2>1, <3>1, <4>1, <4>2 DEF BoundedCalls
    <3> QED BY <3>2, <3>3, <3>4
  <2> QED BY <2>4, <2>5
<1>9. Remaining(call) \in Int
  BY <1>1, <1>2 DEF Remaining
<1> QED BY <1>6, <1>7, <1>8, <1>9

\* However the network behaves, a fetch stays within its limits, whatever they
\* are.
THEOREM FetchIsBounded ==
    ASSUME NEW limits \in Limits, NEW hops, hops \subseteq Hop, NEW call \in Fetches(limits, hops)
    PROVE  call.limits = limits /\ Bounded(call)
<1>1. limits.redirects + 1 \in Nat
  BY DEF Limits
<1>2. PICK path \in [1..(limits.redirects + 1) -> hops] : call = Fetch(path, limits)
  BY DEF Fetches
<1>3. path \in [1..(limits.redirects + 1) -> Hop]
  BY <1>2
<1>4. path \in Seq(Hop) /\ Len(path) \in Nat
  BY <1>1, <1>3, FunctionIsSeq
<1>5. Started(limits) \in BoundedCalls(limits)
  BY DEF Started, BoundedCalls, Calls, Limits
<1> DEFINE I == [i \in 0..Len(path) |-> BoundedCalls(limits)]
<1>6. Started(limits) \in I[0]
  BY <1>4, <1>5
<1>7. ASSUME NEW i \in 1..Len(path), NEW c \in I[i - 1]
      PROVE  FetchHop(c, path[i]) \in I[i]
  <2>1. path[i] \in Hop /\ c \in BoundedCalls(limits) /\ I[i] = BoundedCalls(limits)
    <3>1. i - 1 \in 0..Len(path) /\ i \in 0..Len(path)
      BY <1>4
    <3> QED BY <1>4, <3>1, ElementOfSeq
  <2> QED BY <2>1, HopStaysBounded
<1>8. I[Len(path)] = BoundedCalls(limits)
  BY <1>4
<1> HIDE DEF I
<1>9. Hopping!Folded(Started(limits), path) \in I[Len(path)]
  BY <1>4, <1>6, <1>7, Hopping!FoldInduction
<1>10. call \in BoundedCalls(limits)
  BY <1>2, <1>8, <1>9, HoppingIsFold DEF Fetch
<1> QED BY <1>10 DEF BoundedCalls, Bounded

\* The fetches of a trial are within theirs.
LEMMA ResultsBounded ==
    ASSUME mode \in {"passive", "authorized"}
    PROVE  \A call \in Results[mode] : call.limits = FetchLimits[mode] /\ Bounded(call)
<1>1. /\ Results[mode] = Fetches(FetchLimits[mode], Hops)
      /\ FetchLimits[mode] \in Limits
  BY DEF Results, FetchLimits, Limits
<1>2. Hops \subseteq Hop
  BY LocalTrialAssumption
<1> QED BY <1>1, <1>2, FetchIsBounded

-----------------------------------------------------------------------------
\* The score

\* The equation that the weight of the assertions in S is defined by.
Weighs(f, S) ==
    f = [s \in SUBSET S |->
            IF s = {} THEN 0
            ELSE LET x == CHOOSE x \in s : TRUE IN x.weight + f[s \ {x}]]

\* Weight is what that equation defines, if anything satisfies it.
LEMMA WeightIs ==
    ASSUME NEW S, \E f : Weighs(f, S)
    PROVE  \E f : Weighs(f, S) /\ Weight(S) = f[S]
<1> DEFINE f == CHOOSE f : Weighs(f, S)
<1>1. Weighs(f, S)
  OBVIOUS
<1>2. Weight(S) = f[S]
  BY DEF Weight, MapThenSumSet, MapThenFoldSet, Weighs
<1> QED BY <1>1, <1>2

\* No assertion weighs nothing,
LEMMA WeightOfNone == Weight({}) = 0
<1> DEFINE g == [s \in SUBSET {} |-> 0]
<1>1. g = [s \in SUBSET {} |->
             IF s = {} THEN 0
             ELSE LET x == CHOOSE x \in s : TRUE IN x.weight + g[s \ {x}]]
  OBVIOUS
<1>2. Weighs(g, {})
  BY <1>1 DEF Weighs
<1>3. PICK f : Weighs(f, {}) /\ Weight({}) = f[{}]
  BY <1>2, WeightIs
<1> QED BY <1>3 DEF Weighs

\* and one its weight.
LEMMA WeightOfOne == ASSUME NEW a, a.weight \in Nat PROVE Weight({a}) = a.weight
<1> DEFINE g == [s \in SUBSET {a} |-> IF s = {} THEN 0 ELSE a.weight]
<1>1. \A s \in SUBSET {a} : s = {} \/ s = {a}
  OBVIOUS
<1>2. (CHOOSE x \in {a} : TRUE) = a
  OBVIOUS
<1>3. ASSUME NEW s \in SUBSET {a}
      PROVE  g[s] = IF s = {} THEN 0
                    ELSE LET x == CHOOSE x \in s : TRUE IN x.weight + g[s \ {x}]
  <2>1. CASE s = {}
    BY <2>1
  <2>2. CASE s = {a}
    <3>1. s \ {a} = {} /\ {} \in SUBSET {a} /\ s # {}
      BY <2>2
    <3>2. (CHOOSE x \in s : TRUE) = a
      BY <1>2, <2>2
    <3> QED BY <3>1, <3>2
  <2> QED BY <1>1, <2>1, <2>2
<1>4. g = [s \in SUBSET {a} |->
             IF s = {} THEN 0
             ELSE LET x == CHOOSE x \in s : TRUE IN x.weight + g[s \ {x}]]
  BY <1>3
<1>5. Weighs(g, {a})
  BY <1>4 DEF Weighs
<1>6. PICK f : Weighs(f, {a}) /\ Weight({a}) = f[{a}]
  BY <1>5, WeightIs
<1>7. f[{}] = 0
  BY <1>6 DEF Weighs
<1>8. f[{a}] = a.weight + f[{a} \ {a}]
  BY <1>2, <1>6 DEF Weighs
<1> QED BY <1>6, <1>7, <1>8

\* Nothing of n is nothing.
LEMMA TenthsOfNone == ASSUME NEW n \in Nat \ {0} PROVE Tenths(0, n) = 0
BY DEF Tenths

\* Two quotients of the authorized plan.
LEMMA TenthsKnown == Tenths(100, 1) = 1000 /\ Tenths(90, 3) = 300
BY DEF Tenths

\* The passive plan asserts nothing about capability,
LEMMA PassiveSpecs ==
    \A spec \in PassivePlan.specs :
        spec.dimension # "capability"
<1>1. PassivePlan.specs =
        {Assertion("assert_http_success", "evidence", 1),
                Assertion("assert_provenance", "evidence", 1),
                Assertion("assert_https", "evidence", 1),
                Assertion("assert_calls", "efficiency", 1),
                Assertion("assert_latency", "efficiency", 1)}
  BY DEF PassivePlan
<1>2. \A id, d, w : Assertion(id, d, w).dimension = d
  BY DEF Assertion
<1> QED BY <1>1, <1>2

\* The expected answer: the one assertion about capability
Marker == Assertion("assert_a2a_expected_marker", "capability", 3)

\* of the authorized plan; and the only one that is critical.
LEMMA AuthorizedSpecs ==
    /\ Marker \in AuthorizedPlan.specs
    /\ Marker.weight = 3 /\ Marker.dimension = "capability"
    /\ Marker.id = "assert_a2a_expected_marker"
    /\ \A spec \in AuthorizedPlan.specs :
          spec = Marker \/ /\ spec.dimension \in {"evidence", "reliability", "efficiency"}
                           /\ spec.weight \in {1, 2}
<1>1. AuthorizedPlan.specs =
         {Marker,
                Assertion("assert_a2a_protocol", "evidence", 2),
                Assertion("assert_a2a_repeatable", "reliability", 2),
                Assertion("assert_a2a_budget", "efficiency", 1),
                Assertion("assert_a2a_latency", "efficiency", 1)}
  BY DEF AuthorizedPlan, Marker
<1>2. \A id, d, w : /\ Assertion(id, d, w).dimension = d
                    /\ Assertion(id, d, w).weight = w
                    /\ Assertion(id, d, w).id = id
  BY DEF Assertion
<1> QED BY <1>1, <1>2 DEF Marker

\* A sequence of one element.
LEMMA SingletonSeq ==
    ASSUME NEW S, NEW x \in S
    PROVE  <<x>> \in Seq(S)
OBVIOUS

\* The image of a finite set is finite.
LEMMA FiniteImage ==
    ASSUME NEW S, IsFiniteSet(S), NEW f
    PROVE  IsFiniteSet({f[x] : x \in S})
<1> DEFINE T == {f[x] : x \in S}
           g == [x \in S |-> f[x]]
<1>1. g \in [S -> T] /\ \A t \in T : \E x \in S : g[x] = t
  OBVIOUS
<1>2. g \in Surjection(S, T)
  BY <1>1 DEF Surjection
<1> HIDE DEF T, g
<1>3. IsFiniteSet(T)
  BY <1>2, FS_Surjection
<1> QED BY <1>3 DEF T

\* However many claims a discovery has found, those of the report are finite.
LEMMA ClaimsFinite ==
    ASSUME outcome.found \in Finding
    PROVE  IsFiniteSet(PassiveClaims)
<1> DEFINE one == <<"claim_public_surface">>
           all == one \o outcome.found
           places == {j \in DOMAIN all : j <= MaxClaims}
<1> DEFINE T == STRING \cup {"claim_public_surface"}
<1>1. outcome.found \in Seq(T) /\ one \in Seq(T)
  <2>1. outcome.found \in Seq(STRING)
    BY LocalTrialAssumption
  <2>2. outcome.found \in Seq(T)
    BY <2>1
  <2>3. "claim_public_surface" \in T
    OBVIOUS
  <2>4. one \in Seq(T)
    BY <2>3, SingletonSeq
  <2> QED BY <2>2, <2>4
<1>2. all \in Seq(T)
  <2> HIDE DEF one, T
  <2> QED BY <1>1, ConcatProperties
<1> HIDE DEF T
<1>3. Len(all) \in Nat /\ DOMAIN all = 1..Len(all)
  BY <1>2, LenProperties
<1> HIDE DEF all
<1>4. IsFiniteSet(1..Len(all))
  BY <1>3, FS_Interval
<1>5. IsFiniteSet(places)
  <2>1. places \subseteq 1..Len(all)
    BY <1>3
  <2> HIDE DEF places
  <2> QED BY <1>4, <2>1, FS_Subset
<1>6. PassiveClaims = {all[i] : i \in places}
  BY DEF PassiveClaims, all
<1> HIDE DEF places
<1> QED BY <1>5, <1>6, FiniteImage

\* A passive report covers none of its claims, and scores no capability,
\* whatever the plan's assertions came to.
LEMMA PassiveReportMatches ==
    ASSUME mode = "passive", outcome.found \in Finding
    PROVE  /\ TrialReport.score.coverage = 0
           /\ TrialReport.score.badge = "not-verified"
           /\ TrialReport.score.dimensions["capability"] = 0
           /\ TrialReport.score.untested = Claims
<1> DEFINE assertions == evaluateAssertions(PassivePlan.specs, outcome.holds)
           score == calculateScore(assertions, Claims, {})
<1>1. TrialReport.score = score
  <2>1. Plan = PassivePlan /\ Tested = {}
    BY DEF Plan, Tested
  <2> QED BY <2>1 DEF TrialReport, Report
<1>2. score.untested = Claims
  BY DEF calculateScore
<1>3. score.coverage = 0
  <2> DEFINE n == Cardinality(Claims)
  <2>1. CASE Claims = {}
    BY <2>1 DEF calculateScore
  <2>2. CASE Claims # {}
    <3>1. IsFiniteSet(Claims)
      BY ClaimsFinite DEF Claims
    <3>2. n \in Nat \ {0}
      BY <2>2, <3>1, FS_CardinalityType, FS_EmptySet
    <3>3. Cardinality({} \cap Claims) = 0
      <4>1. {} \cap Claims = {}
        OBVIOUS
      <4> QED BY <4>1, FS_EmptySet
    <3>4. score.coverage = Tenths(100 * Cardinality({} \cap Claims), n)
      BY <2>2 DEF calculateScore
    <3> QED BY <3>2, <3>3, <3>4, TenthsOfNone
  <2> QED BY <2>1, <2>2
<1>4. score.badge = "not-verified"
  <2>1. score.badge = Badge(score.coverage)
    BY DEF calculateScore
  <2> QED BY <1>3, <2>1 DEF Badge
<1>5. score.dimensions["capability"] = 0
  <2>1. score.dimensions["capability"] = DimensionScore(assertions, "capability")
    BY DEF calculateScore, Dimension, DIMENSION_POINTS
  <2>2. {a \in assertions : a.dimension = "capability"} = {}
    BY PassiveSpecs DEF evaluateAssertions
  <2> HIDE DEF assertions, score
  <2> QED BY <2>1, <2>2, WeightOfNone DEF DimensionScore
<1> HIDE DEF score
<1> QED BY <1>1, <1>2, <1>3, <1>4, <1>5

\* An authorized one covers its claim, and scores capability by the marker.
LEMMA AuthorizedReportMatches ==
    ASSUME mode = "authorized"
    PROVE  LET marker == "assert_a2a_expected_marker" \in outcome.holds
               score == TrialReport.score
           IN  /\ score.coverage = 1000 /\ score.untested = {}
               /\ score.dimensions["capability"] = IF marker THEN 300 ELSE 0
               /\ score.critical = {} <=> marker
<1> DEFINE assertions == evaluateAssertions(AuthorizedPlan.specs, outcome.holds)
           claims == {"claim_a2a"}
           score == calculateScore(assertions, claims, claims)
           marker == "assert_a2a_expected_marker" \in outcome.holds
           judged == [id |-> Marker.id, dimension |-> Marker.dimension,
                      weight |-> Marker.weight, passed |-> marker]
<1>1. TrialReport.score = score
  <2>1. Plan = AuthorizedPlan /\ Tested = claims /\ Claims = claims
    BY DEF Plan, Tested, Claims
  <2> QED BY <2>1 DEF TrialReport, Report
<1>2. score.untested = {}
  BY DEF calculateScore
<1>3. score.coverage = 1000
  <2>1. Cardinality(claims) = 1 /\ claims # {} /\ claims \cap claims = claims
    BY FS_Singleton
  <2>2. score.coverage = Tenths(100 * Cardinality(claims), Cardinality(claims))
    BY <2>1 DEF calculateScore
  <2> QED BY <2>1, <2>2, TenthsKnown
<1>4. /\ judged \in assertions
      /\ \A a \in assertions :
            \/ a = judged
            \/ /\ a.dimension \in {"evidence", "reliability", "efficiency"}
               /\ a.weight \in {1, 2}
  <2>1. judged \in assertions
    BY AuthorizedSpecs DEF evaluateAssertions
  <2>2. ASSUME NEW spec \in AuthorizedPlan.specs
        PROVE  LET a == [id |-> spec.id, dimension |-> spec.dimension, weight |-> spec.weight,
                         passed |-> spec.id \in outcome.holds]
               IN  \/ a = judged
                   \/ /\ a.dimension \in {"evidence", "reliability", "efficiency"}
                      /\ a.weight \in {1, 2}
    BY AuthorizedSpecs
  <2> QED BY <2>1, <2>2 DEF evaluateAssertions
<1>5. judged.dimension = "capability" /\ judged.weight = 3 /\ judged.passed = marker
  BY AuthorizedSpecs
<1> HIDE DEF judged, assertions
<1>6. score.dimensions["capability"] = IF marker THEN 300 ELSE 0
  <2> DEFINE relevant == {a \in assertions : a.dimension = "capability"}
  <2>1. score.dimensions["capability"] = DimensionScore(assertions, "capability")
    BY DEF calculateScore, Dimension, DIMENSION_POINTS
  <2>2. relevant = {judged}
    BY <1>4, <1>5
  <2>3. {a \in relevant : a.passed} = IF marker THEN {judged} ELSE {}
    BY <1>5, <2>2
  <2>4. Weight(relevant) = 3
    BY <1>5, <2>2, WeightOfOne
  <2>5. Weight({a \in relevant : a.passed}) = IF marker THEN 3 ELSE 0
    BY <1>5, <2>3, WeightOfOne, WeightOfNone
  <2>6. DIMENSION_POINTS["capability"] = 30
    BY DEF DIMENSION_POINTS
  <2> DEFINE earned == Weight({a \in relevant : a.passed})
  <2>7. DimensionScore(assertions, "capability") = Tenths(earned * 30, 3)
    BY <2>4, <2>6 DEF DimensionScore
  <2> HIDE DEF score, relevant, marker, earned
  <2>8. CASE marker
    BY <2>1, <2>5, <2>7, <2>8, TenthsKnown DEF earned
  <2>9. CASE ~marker
    BY <2>1, <2>5, <2>7, <2>9, TenthsOfNone DEF earned
  <2> QED BY <2>8, <2>9
<1>7. score.critical = {} <=> marker
  <2>1. score.critical =
          {a \in assertions : ~a.passed /\ (a.dimension = "safety" \/ a.weight >= 3)}
    BY DEF calculateScore
  <2> HIDE DEF score, marker
  <2> QED BY <1>4, <1>5, <2>1
<1> HIDE DEF score
<1> QED BY <1>1, <1>2, <1>3, <1>6, <1>7

-----------------------------------------------------------------------------
\* The evidence root

\* The library's FoldLeft over the layers of the Merkle tree.
Climbing == INSTANCE FoldProofs WITH Op <- Climbed

\* It is the fold that FoldProofs is about.
LEMMA ClimbingIsFold ==
    ASSUME NEW base, NEW seq
    PROVE  FoldLeft(Climbed, base, seq) = Climbing!Folded(base, seq)
BY DEF FoldLeft, MapThenFoldSet, Max, Climbing!Folded, Climbing!FoldLeft,
       Climbing!MapThenFoldSet, Climbing!Max

\* A hash determines what it is of.
LEMMA HashBinds ==
    ASSUME NEW purpose, NEW v, NEW w, Hash(purpose, v) = Hash(purpose, w)
    PROVE  v = w
BY DEF Hash

\* A layer of m nodes, of whatever they are.
IsSequence(layer, m) == m \in Nat /\ Len(layer) = m /\ \E T : layer \in Seq(T)

\* A function on 1..m is one.
LEMMA LayerOf ==
    ASSUME NEW m \in Nat, NEW f, DOMAIN f = 1..m, f = [i \in 1..m |-> f[i]]
    PROVE  IsSequence(f, m)
<1> DEFINE T == {f[i] : i \in 1..m}
<1>1. f \in [1..m -> T]
  OBVIOUS
<1> HIDE DEF T
<1>2. f \in Seq(T) /\ Len(f) = m
  BY <1>1, FunctionIsSeq
<1> QED BY <1>2 DEF IsSequence

\* The layer above has half as many nodes, rounded up.
LEMMA ParentsLayer ==
    ASSUME NEW m, NEW layer, IsSequence(layer, m)
    PROVE  IsSequence(Parents(layer), (m + 1) \div 2)
<1> DEFINE p == Parents(layer)
           h == (m + 1) \div 2
<1>1. m \in Nat /\ Len(layer) = m /\ h \in Nat
  BY DEF IsSequence
<1>2. DOMAIN p = 1..h /\ p = [i \in 1..h |-> p[i]]
  BY <1>1 DEF Parents
<1> HIDE DEF p, h
<1>3. IsSequence(p, h)
  BY <1>1, <1>2, LayerOf
<1> QED BY <1>3 DEF p, h

\* One layer up, nothing of the layer below is lost.
LEMMA ParentsBind ==
    ASSUME NEW m, NEW a, NEW b, IsSequence(a, m), IsSequence(b, m), Parents(a) = Parents(b)
    PROVE  a = b
<1>1. m \in Nat /\ Len(a) = m /\ Len(b) = m
  BY DEF IsSequence
<1>2. ASSUME NEW j \in 1..m PROVE a[j] = b[j]
  <2>1. PICK i \in 1..((m + 1) \div 2) : j = 2 * i - 1 \/ (j = 2 * i /\ 2 * i <= m)
    <3>1. CASE \E k \in Nat : j = 2 * k
      <4>1. PICK k \in Nat : j = 2 * k
        BY <3>1
      <4>2. k \in 1..((m + 1) \div 2) /\ 2 * k <= m
        BY <1>1, <4>1
      <4> QED BY <4>1, <4>2
    <3>2. CASE \E k \in Nat : j = 2 * k + 1
      <4>1. PICK k \in Nat : j = 2 * k + 1
        BY <3>2
      <4>2. k + 1 \in 1..((m + 1) \div 2) /\ j = 2 * (k + 1) - 1
        BY <1>1, <4>1
      <4> QED BY <4>2
    <3>3. \E k \in Nat : j = 2 * k \/ j = 2 * k + 1
      <4>1. (j \div 2) \in Nat /\ (j = 2 * (j \div 2) \/ j = 2 * (j \div 2) + 1)
        BY <1>1
      <4> QED BY <4>1
    <3> QED BY <3>1, <3>2, <3>3
  <2> DEFINE right(layer) == IF 2 * i <= m THEN layer[2 * i] ELSE Absent
  <2>2. /\ Parents(a)[i] = Hash("node", <<a[2 * i - 1], right(a)>>)
        /\ Parents(b)[i] = Hash("node", <<b[2 * i - 1], right(b)>>)
    BY <1>1 DEF Parents
  <2> HIDE DEF right
  <2>3. <<a[2 * i - 1], right(a)>> = <<b[2 * i - 1], right(b)>>
    BY <2>2, HashBinds
  <2>4. a[2 * i - 1] = b[2 * i - 1] /\ right(a) = right(b)
    BY <2>3
  <2> QED BY <2>1, <2>4 DEF right
<1>3. PICK A : a \in Seq(A)
  BY DEF IsSequence
<1>4. PICK B : b \in Seq(B)
  BY DEF IsSequence
<1>5. a \in Seq(A \cup B) /\ b \in Seq(A \cup B)
  <2>1. A \subseteq A \cup B /\ B \subseteq A \cup B
    OBVIOUS
  <2> QED BY <1>3, <1>4, <2>1, SeqMonotonic
<1> QED BY <1>1, <1>2, <1>5, SeqEqual

\* A layer determines, with its size, the layer it was climbed from.
LEMMA ClimbedBinds ==
    ASSUME NEW m, NEW a, NEW b, NEW x, NEW y, IsSequence(a, m), IsSequence(b, m)
    PROVE  /\ \E k : IsSequence(Climbed(a, x), k) /\ IsSequence(Climbed(b, y), k)
           /\ Climbed(a, x) = Climbed(b, y) => a = b
<1>1. Len(a) = m /\ Len(b) = m
  BY DEF IsSequence
<1>2. CASE m > 1
  <2>1. Climbed(a, x) = Parents(a) /\ Climbed(b, y) = Parents(b)
    BY <1>1, <1>2 DEF Climbed
  <2>2. IsSequence(Parents(a), (m + 1) \div 2) /\ IsSequence(Parents(b), (m + 1) \div 2)
    BY ParentsLayer
  <2>3. Parents(a) = Parents(b) => a = b
    BY ParentsBind
  <2> QED BY <2>1, <2>2, <2>3
<1>3. CASE ~(m > 1)
  BY <1>1, <1>3 DEF Climbed
<1> QED BY <1>2, <1>3

\* The sequences of n elements.
SeqsOf(T, n) == {s \in Seq(T) : Len(s) = n}

\* A sequence of n + 1 elements continues one of n.
LEMMA AllButLast ==
    ASSUME NEW T, NEW n \in Nat, NEW t \in SeqsOf(T, n + 1)
    PROVE  \E s \in SeqsOf(T, n) : Climbing!Extends(t, s, n)
<1> DEFINE s == [i \in 1..n |-> t[i]]
<1>1. t \in Seq(T) /\ Len(t) = n + 1 /\ DOMAIN t = 1..n + 1
  BY LenProperties DEF SeqsOf
<1>2. s \in [1..n -> T]
  BY <1>1, ElementOfSeq
<1>3. s \in SeqsOf(T, n)
  BY <1>2, FunctionIsSeq DEF SeqsOf
<1>4. Climbing!Extends(t, s, n)
  BY <1>1 DEF Climbing!Extends
<1> QED BY <1>3, <1>4

\* However many layers are climbed.
LEMMA ClimbBinds ==
    ASSUME NEW T, NEW n \in Nat, NEW s \in SeqsOf(T, n), NEW t \in SeqsOf(T, n),
           NEW m, NEW a, NEW b, IsSequence(a, m), IsSequence(b, m),
           Climbing!Folded(a, s) = Climbing!Folded(b, t)
    PROVE  a = b
<1> DEFINE Up(base, seq) == Climbing!Folded(base, seq)
           P(k) == \A u, v \in SeqsOf(T, k) :
                       /\ \E l : IsSequence(Up(a, u), l) /\ IsSequence(Up(b, v), l)
                       /\ Up(a, u) = Up(b, v) => a = b
           S == {k \in Nat : P(k)}
<1>1. P(0)
  <2> TAKE u, v \in SeqsOf(T, 0)
  <2>1. u = <<>> /\ v = <<>>
    BY DEF SeqsOf
  <2>2. Up(a, <<>>) = a /\ Up(b, <<>>) = b
    BY Climbing!FoldEmpty
  <2> HIDE DEF Up
  <2> QED BY <2>1, <2>2
<1>2. ASSUME NEW k \in Nat, P(k) PROVE P(k + 1)
  <2> TAKE u, v \in SeqsOf(T, k + 1)
  <2> HIDE DEF P, Up
  <2>1. PICK u0 \in SeqsOf(T, k) : Climbing!Extends(u, u0, k)
    BY AllButLast
  <2>2. PICK v0 \in SeqsOf(T, k) : Climbing!Extends(v, v0, k)
    BY AllButLast
  <2>3. Up(a, u) = Climbed(Up(a, u0), u[k + 1])
    BY <2>1, Climbing!FoldNext DEF Up
  <2>4. Up(b, v) = Climbed(Up(b, v0), v[k + 1])
    BY <2>2, Climbing!FoldNext DEF Up
  <2>5. /\ \E l : IsSequence(Up(a, u0), l) /\ IsSequence(Up(b, v0), l)
        /\ Up(a, u0) = Up(b, v0) => a = b
    BY <1>2 DEF P
  <2>6. PICK l : IsSequence(Up(a, u0), l) /\ IsSequence(Up(b, v0), l)
    BY <2>5
  <2>7. /\ \E h : IsSequence(Up(a, u), h) /\ IsSequence(Up(b, v), h)
        /\ Up(a, u) = Up(b, v) => Up(a, u0) = Up(b, v0)
    BY <2>3, <2>4, <2>6, ClimbedBinds
  <2> QED BY <2>5, <2>7
<1> HIDE DEF P
<1>3. 0 \in S /\ \A k \in Nat : k \in S => k + 1 \in S
  BY <1>1, <1>2
<1> HIDE DEF S
<1>4. \A k \in Nat : k \in S
  BY <1>3, Climbing!NatSetInduction
<1>5. P(n)
  BY <1>4 DEF S
<1> QED BY <1>5 DEF P

\* The leaves are a layer, of as many nodes as there are items,
LEMMA ItemHashesLayer ==
    ASSUME NEW E, NEW items \in Seq(E)
    PROVE  IsSequence(ItemHashes(items), Len(items))
<1> DEFINE n == Len(items)
           h == ItemHashes(items)
<1>1. n \in Nat /\ DOMAIN items = 1..n
  BY LenProperties
<1>2. DOMAIN h = 1..n /\ h = [i \in 1..n |-> h[i]]
  BY <1>1 DEF ItemHashes
<1> HIDE DEF n, h
<1>3. IsSequence(h, n)
  BY <1>1, <1>2, LayerOf
<1> QED BY <1>3 DEF n, h

\* and determine them.
LEMMA ItemHashesBind ==
    ASSUME NEW E, NEW items \in Seq(E), NEW other \in Seq(E),
           ItemHashes(items) = ItemHashes(other)
    PROVE  items = other
<1>1. /\ DOMAIN items = 1..Len(items) /\ Len(items) \in Nat
      /\ DOMAIN other = 1..Len(other) /\ Len(other) \in Nat
  BY LenProperties
<1>2. Len(items) = Len(other)
  <2>1. IsSequence(ItemHashes(items), Len(items)) /\ IsSequence(ItemHashes(other), Len(other))
    BY ItemHashesLayer
  <2> QED BY <2>1 DEF IsSequence
<1>3. ASSUME NEW i \in 1..Len(items) PROVE items[i] = other[i]
  <2>1. /\ ItemHashes(items)[i] = Hash("item", items[i])
        /\ ItemHashes(other)[i] = Hash("item", other[i])
    BY <1>1, <1>2 DEF ItemHashes
  <2> QED BY <2>1, HashBinds
<1> QED BY <1>2, <1>3, SeqEqual

\* The root determines the evidence, however much there is (evidenceRoot of
\* packages/evidence): its first component is the number of items, and a tree
\* over as many leaves has the same root only if it has the same leaves.
THEOREM RootBindsItems ==
    ASSUME NEW E, NEW items \in Seq(E), NEW other \in Seq(E),
           evidenceRoot(items) = evidenceRoot(other)
    PROVE  items = other
<1> DEFINE a == ItemHashes(items)
           b == ItemHashes(other)
<1>1. <<Len(items), FoldLeft(Climbed, a, a)>> = <<Len(other), FoldLeft(Climbed, b, b)>>
  BY HashBinds DEF evidenceRoot
<1>2. Len(items) = Len(other) /\ Climbing!Folded(a, a) = Climbing!Folded(b, b)
  <2>1. Len(items) = Len(other) /\ FoldLeft(Climbed, a, a) = FoldLeft(Climbed, b, b)
    BY <1>1
  <2> HIDE DEF a, b
  <2> QED BY <2>1, ClimbingIsFold
<1>3. IsSequence(a, Len(items)) /\ IsSequence(b, Len(items))
  BY <1>2, ItemHashesLayer
<1>4. PICK A : a \in Seq(A)
  BY <1>3 DEF IsSequence
<1>5. PICK B : b \in Seq(B)
  BY <1>3 DEF IsSequence
<1>6. a \in Seq(A \cup B) /\ b \in Seq(A \cup B) /\ Len(a) = Len(b)
  <2>1. A \subseteq A \cup B /\ B \subseteq A \cup B
    OBVIOUS
  <2>2. Len(a) = Len(b)
    BY <1>3 DEF IsSequence
  <2> HIDE DEF a, b
  <2> QED BY <1>4, <1>5, <2>1, <2>2, SeqMonotonic
<1>7. a = b
  <2> DEFINE T == A \cup B
             n == Len(items)
  <2>1. a \in SeqsOf(T, n) /\ b \in SeqsOf(T, n) /\ n \in Nat
    BY <1>3, <1>6 DEF SeqsOf, IsSequence
  <2> HIDE DEF a, b, T, n
  <2>2. IsSequence(a, n) /\ IsSequence(b, n)
    BY <1>3 DEF n
  <2> QED BY <1>2, <2>1, <2>2, ClimbBinds
<1> QED BY <1>7, ItemHashesBind

-----------------------------------------------------------------------------
\* The chain of events

\* What an event of the chain is made of.
LEMMA LinkedIs ==
    ASSUME NEW i, NEW state, NEW previous
    PROVE  LET event == Linked(i, state, previous)
           IN  /\ event.index = i /\ event.state = state /\ event.previous = previous
               /\ event.hash = Hash("event", [index |-> i, state |-> state,
                                              previous |-> previous])
BY DEF Linked

\* A link is determined by its hash.
LEMMA LinkBinds ==
    ASSUME NEW i, NEW j, NEW s, NEW t, NEW p, NEW q, Linked(i, s, p).hash = Linked(j, t, q).hash
    PROVE  i = j /\ s = t /\ p = q
<1>1. [index |-> i, state |-> s, previous |-> p] = [index |-> j, state |-> t, previous |-> q]
  BY LinkedIs, HashBinds
<1>2. /\ [index |-> i, state |-> s, previous |-> p].index = i
      /\ [index |-> j, state |-> t, previous |-> q].index = j
      /\ [index |-> i, state |-> s, previous |-> p].state = s
      /\ [index |-> j, state |-> t, previous |-> q].state = t
      /\ [index |-> i, state |-> s, previous |-> p].previous = p
      /\ [index |-> j, state |-> t, previous |-> q].previous = q
  OBVIOUS
<1> QED BY <1>1, <1>2

\* The head of an intact chain determines it, however long it is: event by
\* event from the last, a hash determines the index, the state and the hash
\* before it (appendEvent, and the chain check of verifyBundle).
THEOREM HeadBindsEvents ==
    ASSUME NEW E, NEW events \in Seq(E), NEW other \in Seq(E), events # <<>>, other # <<>>,
           ChainIntact(events), ChainIntact(other), ChainHead(events) = ChainHead(other)
    PROVE  events = other
<1> DEFINE Before(c, i) == IF i = 1 THEN Genesis ELSE c[i - 1].hash
           n == Len(events)
<1>1. /\ n \in Nat \ {0} /\ Len(other) \in Nat \ {0}
      /\ DOMAIN events = 1..n /\ DOMAIN other = 1..Len(other)
  BY LenProperties, EmptySeq
<1>2. /\ \A i \in 1..n : events[i] = Linked(i - 1, events[i].state, Before(events, i))
      /\ \A i \in 1..Len(other) : other[i] = Linked(i - 1, other[i].state, Before(other, i))
  BY <1>1 DEF ChainIntact
<1> HIDE DEF Before
<1>3. events[n].hash = other[Len(other)].hash
  BY DEF ChainHead, Last
<1>4. n = Len(other)
  <2> DEFINE m == Len(other)
  <2>1. n \in 1..n /\ m \in 1..m
    BY <1>1
  <2>2. /\ events[n] = Linked(n - 1, events[n].state, Before(events, n))
        /\ other[m] = Linked(m - 1, other[m].state, Before(other, m))
    BY <1>2, <2>1
  <2> HIDE DEF n, m
  <2>3. Linked(n - 1, events[n].state, Before(events, n)).hash =
          Linked(m - 1, other[m].state, Before(other, m)).hash
    BY <1>3, <2>2 DEF m
  <2>4. n - 1 = m - 1
    BY <2>3, LinkBinds
  <2>5. n \in Nat /\ m \in Nat
    BY <1>1 DEF m
  <2> QED BY <2>4, <2>5 DEF m

\* Equal hashes at a place make the events equal there, and the hashes before.
<1>5. ASSUME NEW i \in 1..n, events[i].hash = other[i].hash
      PROVE  events[i] = other[i] /\ Before(events, i) = Before(other, i)
  <2>1. /\ events[i] = Linked(i - 1, events[i].state, Before(events, i))
        /\ other[i] = Linked(i - 1, other[i].state, Before(other, i))
    BY <1>2, <1>4
  <2>2. Linked(i - 1, events[i].state, Before(events, i)).hash =
          Linked(i - 1, other[i].state, Before(other, i)).hash
    BY <1>5, <2>1
  <2>3. events[i].state = other[i].state /\ Before(events, i) = Before(other, i)
    BY <2>2, LinkBinds
  <2> QED BY <2>1, <2>3
<1> DEFINE P(k) == k < n => events[n - k].hash = other[n - k].hash
           S == {k \in Nat : P(k)}
<1>6. P(0)
  <2>1. n - 0 = n
    BY <1>1
  <2> QED BY <1>3, <1>4, <2>1
<1>7. ASSUME NEW k \in Nat, P(k) PROVE P(k + 1)
  <2> SUFFICES ASSUME k + 1 < n
               PROVE  events[n - (k + 1)].hash = other[n - (k + 1)].hash
    OBVIOUS
  <2>1. n - k \in 1..n /\ n - k # 1 /\ (n - k) - 1 = n - (k + 1)
    <3>1. n \in Nat /\ k \in Nat /\ k + 1 < n
      BY <1>1
    <3> HIDE DEF n
    <3> QED BY <3>1
  <2>2. events[n - k].hash = other[n - k].hash
    BY <1>1, <1>7
  <2>3. Before(events, n - k) = Before(other, n - k)
    BY <1>5, <2>1, <2>2
  <2> QED BY <2>1, <2>3 DEF Before
<1> HIDE DEF P
<1>8. 0 \in S /\ \A k \in Nat : k \in S => k + 1 \in S
  BY <1>6, <1>7
<1> HIDE DEF S
<1>9. \A k \in Nat : k \in S
  BY <1>8, Climbing!NatSetInduction
<1>10. \A i \in 1..n : events[i] = other[i]
  <2> TAKE i \in 1..n
  <2>1. n - i \in Nat /\ n - i < n /\ n - (n - i) = i
    BY <1>1
  <2>2. P(n - i)
    BY <1>9, <2>1 DEF S
  <2>3. events[i].hash = other[i].hash
    BY <2>1, <2>2 DEF P
  <2> QED BY <1>5, <2>3
<1> QED BY <1>4, <1>10, SeqEqual

-----------------------------------------------------------------------------
\* The chain a run publishes

\* The library's FoldLeft of appendEvent over the states of a run.
Linking == INSTANCE FoldProofs WITH Op <- appendEvent

\* It is the fold that FoldProofs is about.
LEMMA LinkingIsFold ==
    ASSUME NEW base, NEW seq
    PROVE  FoldLeft(appendEvent, base, seq) = Linking!Folded(base, seq)
BY DEF FoldLeft, MapThenFoldSet, Max, Linking!Folded, Linking!FoldLeft,
       Linking!MapThenFoldSet, Linking!Max

\* The hash that event i is linked to.
Before(events, i) == IF i = 1 THEN Genesis ELSE events[i - 1].hash

\* The chain of the first n of these states.
ChainOf(events, states, n) ==
    /\ IsSequence(events, n)
    /\ \A i \in 1..n : events[i] = Linked(i - 1, states[i], Before(events, i))

\* appendEvent links the next state to the chain of those before it.
LEMMA ChainGrows ==
    ASSUME NEW n \in Nat, NEW s, NEW t, Linking!Extends(t, s, n),
           NEW events, ChainOf(events, s, n)
    PROVE  ChainOf(appendEvent(events, t[n + 1]), t, n + 1)
<1> DEFINE next == Linked(n, t[n + 1], ChainHead(events))
           longer == appendEvent(events, t[n + 1])
<1>1. PICK T : events \in Seq(T)
  BY DEF ChainOf, IsSequence
<1>2. Len(events) = n /\ events \in Seq(T \cup {next}) /\ next \in T \cup {next}
  BY <1>1, SeqMonotonic DEF ChainOf, IsSequence
<1>3. longer = Append(events, next)
  BY <1>2 DEF appendEvent
<1> DEFINE U == T \cup {next}
<1> HIDE DEF U, next
<1>4. /\ Append(events, next) \in Seq(U) /\ Len(Append(events, next)) = n + 1
      /\ \A i \in 1..n : Append(events, next)[i] = events[i]
      /\ Append(events, next)[n + 1] = next
  BY <1>2 DEF U
<1>5. IsSequence(longer, n + 1)
  BY <1>3, <1>4 DEF IsSequence
<1> HIDE DEF longer
<1>6. /\ \A i \in 1..n : longer[i] = events[i]
      /\ longer[n + 1] = next
  BY <1>3, <1>4
<1>7. ChainHead(events) = Before(longer, n + 1)
  <2>1. CASE n = 0
    BY <1>1, <1>2, <2>1 DEF ChainHead, Before
  <2>2. CASE n # 0
    <3>1. events # <<>> /\ Last(events) = events[n]
      BY <1>1, <1>2, <2>2 DEF Last
    <3>2. n \in 1..n /\ n + 1 # 1 /\ (n + 1) - 1 = n
      BY <2>2
    <3> QED BY <1>6, <3>1, <3>2 DEF ChainHead, Before
  <2> QED BY <2>1, <2>2
<1>8. ASSUME NEW i \in 1..n + 1
      PROVE  longer[i] = Linked(i - 1, t[i], Before(longer, i))
  <2>1. CASE i = n + 1
    <3>1. longer[n + 1] = Linked(n, t[n + 1], Before(longer, n + 1)) /\ (n + 1) - 1 = n
      BY <1>6, <1>7 DEF next
    <3> QED BY <2>1, <3>1
  <2>2. CASE i # n + 1
    <3>1. i \in 1..n /\ (i # 1 => i - 1 \in 1..n)
      BY <2>2
    <3>2. longer[i] = Linked(i - 1, s[i], Before(events, i)) /\ s[i] = t[i]
      BY <1>6, <3>1 DEF ChainOf, Linking!Extends
    <3>3. Before(longer, i) = Before(events, i)
      BY <1>6, <3>1 DEF Before
    <3> QED BY <3>2, <3>3
  <2> QED BY <2>1, <2>2
<1> QED BY <1>5, <1>8 DEF ChainOf, longer

\* A run's chain links its states, in their order.
LEMMA ChainIs ==
    ASSUME NEW S, NEW n \in Nat, NEW states \in SeqsOf(S, n)
    PROVE  ChainOf(Chain(states), states, n)
<1> DEFINE P(k) == \A s \in SeqsOf(S, k) : ChainOf(Linking!Folded(<<>>, s), s, k)
           Q == {k \in Nat : P(k)}
<1>1. P(0)
  <2> TAKE s \in SeqsOf(S, 0)
  <2>1. s = <<>>
    BY DEF SeqsOf
  <2>2. Linking!Folded(<<>>, <<>>) = <<>>
    BY Linking!FoldEmpty
  <2>3. <<>> \in Seq({}) /\ Len(<<>>) = 0
    OBVIOUS
  <2>4. IsSequence(<<>>, 0)
    BY <2>3 DEF IsSequence
  <2>5. ChainOf(<<>>, <<>>, 0)
    BY <2>4 DEF ChainOf
  <2> QED BY <2>1, <2>2, <2>5
<1>2. ASSUME NEW k \in Nat, P(k) PROVE P(k + 1)
  <2> TAKE t \in SeqsOf(S, k + 1)
  <2> HIDE DEF P
  <2>1. PICK s \in SeqsOf(S, k) : Climbing!Extends(t, s, k)
    BY AllButLast
  <2>2. Linking!Extends(t, s, k)
    BY <2>1 DEF Climbing!Extends, Linking!Extends
  <2>3. Linking!Folded(<<>>, t) = appendEvent(Linking!Folded(<<>>, s), t[k + 1])
    BY <2>2, Linking!FoldNext
  <2>4. ChainOf(Linking!Folded(<<>>, s), s, k)
    BY <1>2 DEF P
  <2> QED BY <2>2, <2>3, <2>4, ChainGrows
<1> HIDE DEF P
<1>3. 0 \in Q /\ \A k \in Nat : k \in Q => k + 1 \in Q
  BY <1>1, <1>2
<1> HIDE DEF Q
<1>4. \A k \in Nat : k \in Q
  BY <1>3, Linking!NatSetInduction
<1>5. P(n)
  BY <1>4 DEF Q
<1> QED BY <1>5, LinkingIsFold DEF P, Chain

\* Every run publishes an intact chain of its states.
THEOREM ChainsAreIntact ==
    ASSUME NEW S, NEW states \in Seq(S)
    PROVE  ChainIntact(Chain(states)) /\ Len(Chain(states)) = Len(states)
<1> DEFINE n == Len(states)
           c == Chain(states)
<1>1. n \in Nat /\ states \in SeqsOf(S, n)
  BY LenProperties DEF SeqsOf
<1> HIDE DEF n
<1>2. ChainOf(c, states, n)
  BY <1>1, ChainIs
<1> HIDE DEF c
<1>3. Len(c) = n /\ DOMAIN c = 1..n
  BY <1>2, LenProperties DEF ChainOf, IsSequence
<1>4. ASSUME NEW i \in DOMAIN c PROVE c[i] = Linked(i - 1, c[i].state, Before(c, i))
  <2>1. c[i] = Linked(i - 1, states[i], Before(c, i))
    BY <1>2, <1>3 DEF ChainOf
  <2>2. Linked(i - 1, states[i], Before(c, i)).state = states[i]
    BY DEF Linked
  <2> QED BY <2>1, <2>2
<1> QED BY <1>3, <1>4 DEF ChainIntact, Before, c, n

-----------------------------------------------------------------------------
\* The verifier's checks

\* A set of naturals has a least element.
LEMMA LeastOf ==
    ASSUME NEW S, S \subseteq Nat, S # {}
    PROVE  Min(S) \in S /\ \A i \in S : Min(S) <= i
<1>1. \E x \in S : \A y \in S : ~ (<<y, x>> \in OpToRel(<, Nat))
  BY WFMin, NatLessThanWellFounded, Zenon
<1>2. PICK x \in S : \A y \in S : ~ (<<y, x>> \in OpToRel(<, Nat))
  BY <1>1, Zenon
<1>3. \A y \in S : ~ (y < x)
  BY <1>2 DEF OpToRel
<1>4. \A y \in S : x <= y
  BY <1>3
<1> QED BY <1>4 DEF Min

\* There are twelve checks, and "none" is not one.
LEMMA CheckNames ==
    /\ DOMAIN CheckName = 1..12
    /\ \A i \in 1..12 : CheckName[i] # "none"
BY DEF CheckName

\* Nothing mismatches exactly if the twelve checks hold.
LEMMA NoneMismatches ==
    ASSUME NEW bundle, NEW trusted
    PROVE  firstMismatch(bundle, trusted) = "none" <=>
               \A i \in 1..12 : Holds(CheckName[i], bundle, trusted)
<1> DEFINE failed == {i \in 1..12 : ~Holds(CheckName[i], bundle, trusted)}
<1>1. firstMismatch(bundle, trusted) = IF failed = {} THEN "none" ELSE CheckName[Min(failed)]
  BY CheckNames DEF firstMismatch
<1>2. failed # {} => Min(failed) \in 1..12
  <2>1. failed \subseteq 1..12 /\ failed \subseteq Nat
    OBVIOUS
  <2> HIDE DEF failed
  <2> QED BY <2>1, LeastOf
<1>3. CASE failed = {}
  BY <1>1, <1>3
<1>4. CASE failed # {}
  <2>1. CheckName[Min(failed)] # "none"
    BY <1>2, <1>4, CheckNames
  <2> QED BY <1>1, <1>4, <2>1
<1> QED BY <1>3, <1>4

\* The check that is blamed: those before it hold, and it does not.
LEMMA FirstMismatches ==
    ASSUME NEW bundle, NEW trusted, NEW i \in 1..12, ~Holds(CheckName[i], bundle, trusted),
           \A j \in 1..i - 1 : Holds(CheckName[j], bundle, trusted)
    PROVE  firstMismatch(bundle, trusted) = CheckName[i]
<1> DEFINE failed == {j \in 1..12 : ~Holds(CheckName[j], bundle, trusted)}
<1>1. i \in failed /\ failed \subseteq Nat /\ \A j \in failed : i <= j
  OBVIOUS
<1>2. firstMismatch(bundle, trusted) = CheckName[Min(failed)]
  BY <1>1, CheckNames DEF firstMismatch
<1> HIDE DEF failed
<1>3. Min(failed) \in failed /\ \A j \in failed : Min(failed) <= j
  BY <1>1, LeastOf
<1>4. Min(failed) \in Nat /\ i \in Nat /\ Min(failed) <= i /\ i <= Min(failed)
  BY <1>1, <1>3
<1>5. Min(failed) = i
  BY <1>4
<1> QED BY <1>2, <1>5

\* What each check compares.
LEMMA ChecksAre ==
    ASSUME NEW bundle, NEW trusted
    PROVE  /\ Holds("event-chain", bundle, trusted) <=>
                  EventChain(bundle.events, bundle.receipt.payload.head)
           /\ Holds("evidence-items", bundle, trusted) <=>
                  ItemHashes(bundle.report.evidence) = bundle.receipt.payload.items
           /\ Holds("evidence-root", bundle, trusted) <=>
                  /\ evidenceRoot(bundle.report.evidence) = bundle.root
                  /\ evidenceRoot(bundle.report.evidence) = bundle.receipt.payload.root
           /\ Holds("report", bundle, trusted) <=>
                  Hash("report", bundle.report) = bundle.receipt.payload.report
           /\ Holds("sealed-plan", bundle, trusted) <=>
                  /\ Hash("plan", bundle.report.plan) = bundle.report.planHash
                  /\ bundle.report.planHash = bundle.receipt.payload.planHash
           /\ Holds("seed-opening", bundle, trusted) <=>
                  Commitment(bundle.report.seed, bundle.report.run) =
                      bundle.report.plan.commitment
           /\ Holds("evaluator-provenance", bundle, trusted) <=>
                  bundle.receipt.payload.provenance = bundle.report.provenance
           /\ Holds("deterministic-verdict", bundle, trusted) <=> Deterministic(bundle.report)
           /\ Holds("receipt-claims", bundle, trusted) <=>
                  ReceiptClaims(bundle.receipt, bundle.report)
           /\ Holds("signature", bundle, trusted) <=> verifySignature(bundle.receipt)
           /\ Holds("trusted-signer", bundle, trusted) <=> bundle.receipt.key \in trusted
           /\ Holds("attestation-attachment", bundle, trusted) <=>
                  (bundle.attestation.status = "anchored" =>
                      bundle.attestation.binding =
                          attestationBindingHash(bundle.receipt.payload,
                                                 bundle.attestation.uri))
BY DEF Holds

\* The order of the checks.
LEMMA CheckNamesAre ==
    /\ CheckName[1] = "event-chain" /\ CheckName[2] = "evidence-items"
    /\ CheckName[3] = "evidence-root" /\ CheckName[4] = "report"
    /\ CheckName[5] = "sealed-plan" /\ CheckName[6] = "seed-opening"
    /\ CheckName[7] = "evaluator-provenance" /\ CheckName[8] = "deterministic-verdict"
    /\ CheckName[9] = "receipt-claims" /\ CheckName[10] = "signature"
    /\ CheckName[11] = "trusted-signer" /\ CheckName[12] = "attestation-attachment"
BY DEF CheckName

\* One receipt verifies with one bundle at most: whatever a reader is given
\* with it, if the twelve checks hold then the report, the events and the root
\* are those it was issued for (verifyBundle).
THEOREM ReceiptBindsBundle ==
    ASSUME NEW E, NEW F, NEW bundle, NEW other, NEW trusted,
           bundle.events \in Seq(E), bundle.events # <<>>,
           other.events \in Seq(E), other.events # <<>>,
           bundle.report.evidence \in Seq(F), other.report.evidence \in Seq(F),
           firstMismatch(bundle, trusted) = "none", firstMismatch(other, trusted) = "none",
           bundle.receipt.payload = other.receipt.payload
    PROVE  /\ bundle.report = other.report
           /\ bundle.events = other.events
           /\ bundle.root = other.root
<1>1. \A i \in 1..12 : /\ Holds(CheckName[i], bundle, trusted)
                       /\ Holds(CheckName[i], other, trusted)
  BY NoneMismatches
<1>2. /\ Holds("event-chain", bundle, trusted) /\ Holds("event-chain", other, trusted)
      /\ Holds("evidence-root", bundle, trusted) /\ Holds("evidence-root", other, trusted)
      /\ Holds("report", bundle, trusted) /\ Holds("report", other, trusted)
  <2>1. 1 \in 1..12 /\ 3 \in 1..12 /\ 4 \in 1..12
    OBVIOUS
  <2> QED BY <1>1, <2>1, CheckNamesAre
<1>3. bundle.report = other.report
  <2>1. /\ Hash("report", bundle.report) = bundle.receipt.payload.report
        /\ Hash("report", other.report) = other.receipt.payload.report
    BY <1>2, ChecksAre
  <2> QED BY <2>1, HashBinds
<1>4. bundle.root = other.root
  BY <1>2, <1>3, ChecksAre
<1>5. /\ ChainIntact(bundle.events) /\ ChainIntact(other.events)
      /\ ChainHead(bundle.events) = ChainHead(other.events)
  BY <1>2, ChecksAre DEF EventChain
<1>6. bundle.events = other.events
  BY <1>5, HeadBindsEvents
<1> QED BY <1>3, <1>4, <1>6

-----------------------------------------------------------------------------
\* The bundle

\* A report agrees with its own plan, seed and verdict.
ReportSound(report) ==
    /\ Hash("plan", report.plan) = report.planHash
    /\ Commitment(report.seed, report.run) = report.plan.commitment
    /\ Deterministic(report)

\* The receipt is the one that key gives to this bundle.
SignedAs(bundle, key) ==
    bundle.receipt =
        signReceipt(Payload(bundle.report, bundle.events,
                            evidenceRoot(bundle.report.evidence), key), key)

\* An attestation that is attached is bound to this receipt.
Binds(bundle) ==
    bundle.attestation.status = "anchored" =>
        bundle.attestation.binding =
            attestationBindingHash(bundle.receipt.payload, bundle.attestation.uri)

\* What a receipt's payload says of a report.
LEMMA PayloadIs ==
    ASSUME NEW report, NEW events, NEW root, NEW key
    PROVE  LET p == Payload(report, events, root, key)
           IN  /\ p.run = report.run /\ p.target = report.target /\ p.mode = Mode(report)
               /\ p.planHash = report.planHash /\ p.commitment = report.plan.commitment
               /\ p.provenance = report.provenance /\ p.root = root
               /\ p.items = ItemHashes(report.evidence)
               /\ p.report = Hash("report", report) /\ p.head = ChainHead(events)
               /\ p.score = report.score.overall /\ p.coverage = report.score.coverage
               /\ p.keyId = Hash("key", key)
BY DEF Payload

\* What a receipt is made of.
LEMMA ReceiptIs ==
    ASSUME NEW payload, NEW key
    PROVE  LET r == signReceipt(payload, key)
           IN  /\ r.payload = payload /\ r.key = key
               /\ r.signature = Hash("signature", <<key, payload>>)
BY DEF signReceipt

\* What is left to check of a bundle whose receipt was made for it.
LEMMA SignedChecks ==
    ASSUME NEW bundle, NEW key, NEW trusted, SignedAs(bundle, key)
    PROVE  /\ Holds("event-chain", bundle, trusted) <=> ChainIntact(bundle.events)
           /\ Holds("evidence-items", bundle, trusted)
           /\ Holds("evidence-root", bundle, trusted) <=>
                  evidenceRoot(bundle.report.evidence) = bundle.root
           /\ Holds("report", bundle, trusted)
           /\ Holds("sealed-plan", bundle, trusted) <=>
                  Hash("plan", bundle.report.plan) = bundle.report.planHash
           /\ Holds("evaluator-provenance", bundle, trusted)
           /\ Holds("receipt-claims", bundle, trusted)
           /\ Holds("signature", bundle, trusted)
           /\ Holds("trusted-signer", bundle, trusted) <=> key \in trusted
           /\ Holds("attestation-attachment", bundle, trusted) <=> Binds(bundle)
<1> DEFINE root == evidenceRoot(bundle.report.evidence)
           p == Payload(bundle.report, bundle.events, root, key)
           r == bundle.receipt
<1>1. r.payload = p /\ r.key = key /\ r.signature = Hash("signature", <<key, p>>)
  BY ReceiptIs DEF SignedAs
<1>2. /\ p.run = bundle.report.run /\ p.target = bundle.report.target
      /\ p.mode = Mode(bundle.report)
      /\ p.planHash = bundle.report.planHash
      /\ p.commitment = bundle.report.plan.commitment
      /\ p.provenance = bundle.report.provenance /\ p.root = root
      /\ p.items = ItemHashes(bundle.report.evidence)
      /\ p.report = Hash("report", bundle.report) /\ p.head = ChainHead(bundle.events)
      /\ p.score = bundle.report.score.overall /\ p.coverage = bundle.report.score.coverage
      /\ p.keyId = Hash("key", key)
  BY PayloadIs
<1> HIDE DEF p
<1>3. ReceiptClaims(r, bundle.report)
  BY <1>1, <1>2 DEF ReceiptClaims
<1>4. verifySignature(r)
  BY <1>1 DEF verifySignature
<1>5. Holds("attestation-attachment", bundle, trusted) <=> Binds(bundle)
  BY ChecksAre DEF Binds
<1>6. /\ Holds("event-chain", bundle, trusted) <=> ChainIntact(bundle.events)
      /\ Holds("evidence-items", bundle, trusted)
      /\ Holds("evidence-root", bundle, trusted) <=> root = bundle.root
      /\ Holds("report", bundle, trusted)
  BY <1>1, <1>2, ChecksAre DEF EventChain
<1>7. /\ Holds("sealed-plan", bundle, trusted) <=>
             Hash("plan", bundle.report.plan) = bundle.report.planHash
      /\ Holds("evaluator-provenance", bundle, trusted)
      /\ Holds("receipt-claims", bundle, trusted)
      /\ Holds("signature", bundle, trusted)
      /\ Holds("trusted-signer", bundle, trusted) <=> key \in trusted
  BY <1>1, <1>2, <1>3, <1>4, ChecksAre
<1> QED BY <1>5, <1>6, <1>7

\* The twelve, one by one.
LEMMA TwelveChecks ==
    ASSUME NEW i \in 1..12
    PROVE  \/ i = 1 \/ i = 2 \/ i = 3 \/ i = 4 \/ i = 5 \/ i = 6 \/ i = 7 \/ i = 8 \/ i = 9
           \/ i = 10 \/ i = 11 \/ i = 12
OBVIOUS

\* A bundle signed as it is is valid exactly if it does not contradict itself
\* and its key is trusted.
LEMMA SignedIsValid ==
    ASSUME NEW bundle, NEW key, NEW trusted, SignedAs(bundle, key)
    PROVE  firstMismatch(bundle, trusted) = "none" <=>
               /\ ChainIntact(bundle.events)
               /\ evidenceRoot(bundle.report.evidence) = bundle.root
               /\ ReportSound(bundle.report)
               /\ key \in trusted
               /\ Binds(bundle)
<1>1. /\ Holds("seed-opening", bundle, trusted) <=>
             Commitment(bundle.report.seed, bundle.report.run) =
                 bundle.report.plan.commitment
      /\ Holds("deterministic-verdict", bundle, trusted) <=> Deterministic(bundle.report)
  BY ChecksAre
<1>2. (\A i \in 1..12 : Holds(CheckName[i], bundle, trusted)) <=>
        /\ Holds("event-chain", bundle, trusted) /\ Holds("evidence-items", bundle, trusted)
        /\ Holds("evidence-root", bundle, trusted) /\ Holds("report", bundle, trusted)
        /\ Holds("sealed-plan", bundle, trusted) /\ Holds("seed-opening", bundle, trusted)
        /\ Holds("evaluator-provenance", bundle, trusted)
        /\ Holds("deterministic-verdict", bundle, trusted)
        /\ Holds("receipt-claims", bundle, trusted) /\ Holds("signature", bundle, trusted)
        /\ Holds("trusted-signer", bundle, trusted)
        /\ Holds("attestation-attachment", bundle, trusted)
  <2>1. /\ 1 \in 1..12 /\ 2 \in 1..12 /\ 3 \in 1..12 /\ 4 \in 1..12 /\ 5 \in 1..12
        /\ 6 \in 1..12 /\ 7 \in 1..12 /\ 8 \in 1..12 /\ 9 \in 1..12 /\ 10 \in 1..12
        /\ 11 \in 1..12 /\ 12 \in 1..12
    OBVIOUS
  <2> QED BY <2>1, TwelveChecks, CheckNamesAre
<1> QED BY <1>1, <1>2, SignedChecks, NoneMismatches DEF ReportSound

\* The fields of a bundle.
IsBundle(b) ==
    b = [report |-> b.report, events |-> b.events, root |-> b.root,
         receipt |-> b.receipt, attestation |-> b.attestation]

\* The fields of the trial's report.
LEMMA ReportIs ==
    LET r == TrialReport
    IN  /\ r.run = "run" /\ r.target = "target" /\ r.claims = Claims /\ r.plan = Plan
        /\ r.planHash = Hash("plan", Plan) /\ r.holds = outcome.holds
        /\ r.assertions = evaluateAssertions(Plan.specs, outcome.holds)
        /\ r.score = calculateScore(r.assertions, Claims, Tested)
        /\ r.evidence = Items /\ r.seed = "seed"
        /\ DOMAIN r = {"run", "target", "claims", "plan", "planHash", "holds", "assertions",
                       "score", "evidence", "seed", "provenance"}
BY DEF TrialReport, Report

\* What its plan and its claims are.
LEMMA PlanIs ==
    /\ Plan.commitment = Commitment("seed", "run") /\ Plan.claimIds = Tested
    /\ Plan.specs # {}
    /\ DOMAIN Plan = {"commitment", "authorized", "claimIds", "specs"}
<1>1. CASE mode = "passive"
  BY <1>1 DEF Plan, Tested, PassivePlan
<1>2. CASE mode # "passive"
  BY <1>2 DEF Plan, Tested, AuthorizedPlan
<1> QED BY <1>1, <1>2

\* It agrees with itself, whatever the trial found.
LEMMA TrialReportSound == ReportSound(TrialReport)
BY ReportIs, PlanIs DEF ReportSound, Deterministic, Commitment

\* And so does the bundle made of it.
LEMMA BundleIs ==
    LET b == ServedBundle
    IN  /\ IsBundle(b) /\ b.report = TrialReport /\ b.events = Chain(Served.log)
        /\ b.root = evidenceRoot(Items) /\ SignedAs(b, SigningKey)
        /\ b.attestation.status = "disabled"
BY ReportIs DEF ServedBundle, Bundle, IsBundle, SignedAs

-----------------------------------------------------------------------------
\* The changed bundles

\* The served log is of a run that has got beyond its creation.
ServedComplete == \E S : Served.log \in Seq(S) /\ Len(Served.log) >= 2 /\ Served.log[1] = "CREATED"

\* The chain that such a run is served with.
LEMMA ServedChain ==
    ASSUME ServedComplete
    PROVE  LET c == Chain(Served.log)
               n == Len(Served.log)
           IN  /\ n \in Nat /\ n >= 2 /\ IsSequence(c, n) /\ DOMAIN c = 1..n
               /\ \A i \in 1..n : c[i] = Linked(i - 1, Served.log[i], Before(c, i))
               /\ Served.log[1] = "CREATED"
               /\ ChainIntact(c)
<1> DEFINE c == Chain(Served.log)
           n == Len(Served.log)
<1>1. PICK S : Served.log \in Seq(S) /\ Len(Served.log) >= 2 /\ Served.log[1] = "CREATED"
  BY DEF ServedComplete
<1>2. n \in Nat /\ n >= 2 /\ Served.log \in SeqsOf(S, n)
  BY <1>1, LenProperties DEF SeqsOf
<1>3. ChainIntact(c)
  BY <1>1, ChainsAreIntact
<1> HIDE DEF c, n
<1>4. ChainOf(c, Served.log, n)
  BY <1>2, ChainIs DEF c
<1>5. IsSequence(c, n) /\ \A i \in 1..n : c[i] = Linked(i - 1, Served.log[i], Before(c, i))
  BY <1>4 DEF ChainOf
<1>6. DOMAIN c = 1..n
  BY <1>5, LenProperties DEF IsSequence
<1> QED BY <1>1, <1>2, <1>3, <1>5, <1>6 DEF c, n

\* To change the first event breaks it,
LEMMA EventChanged ==
    ASSUME ServedComplete
    PROVE  ~ChainIntact([Chain(Served.log) EXCEPT ![1].state = "PLANNING"])
<1> DEFINE c == Chain(Served.log)
           n == Len(Served.log)
           d == [c EXCEPT ![1].state = "PLANNING"]
           first == Linked(0, "CREATED", Genesis)
<1>1. n \in Nat /\ n >= 2 /\ DOMAIN c = 1..n /\ c[1] = first
  <2>1. /\ n \in Nat /\ n >= 2 /\ DOMAIN c = 1..n /\ Served.log[1] = "CREATED"
        /\ \A i \in 1..n : c[i] = Linked(i - 1, Served.log[i], Before(c, i))
    BY ServedChain
  <2> HIDE DEF c, n
  <2>2. 1 \in 1..n /\ 1 - 1 = 0
    BY <2>1
  <2>3. c[1] = Linked(0, Served.log[1], Before(c, 1))
    BY <2>1, <2>2
  <2>4. Before(c, 1) = Genesis
    BY DEF Before
  <2> QED BY <2>1, <2>3, <2>4
<1> HIDE DEF c, n
<1>2. 1 \in DOMAIN d /\ d[1] = [first EXCEPT !.state = "PLANNING"]
  BY <1>1
<1>3. d[1].state = "PLANNING" /\ d[1].hash = first.hash
  BY <1>2 DEF Linked
<1> HIDE DEF d, first
<1> SUFFICES ASSUME ChainIntact(d) PROVE FALSE
  BY DEF c, d
<1>4. d[1] = Linked(1 - 1, d[1].state, Genesis)
  BY <1>2 DEF ChainIntact
<1>5. Linked(1 - 1, "PLANNING", Genesis).hash = Linked(0, "CREATED", Genesis).hash
  BY <1>3, <1>4 DEF first
<1>6. "PLANNING" = "CREATED"
  BY <1>5, LinkBinds
<1> QED BY <1>6

\* and to drop the last leaves it intact with another head.
LEMMA LastEventChanged ==
    ASSUME ServedComplete
    PROVE  /\ ChainIntact(Front(Chain(Served.log)))
           /\ ChainHead(Front(Chain(Served.log))) # ChainHead(Chain(Served.log))
<1> DEFINE c == Chain(Served.log)
           n == Len(Served.log)
           f == Front(c)
<1>1. /\ n \in Nat /\ n >= 2 /\ IsSequence(c, n) /\ ChainIntact(c)
      /\ \A i \in 1..n : c[i] = Linked(i - 1, Served.log[i], Before(c, i))
  BY ServedChain
<1> HIDE DEF c, n
<1>2. PICK T : c \in Seq(T) /\ Len(c) = n
  BY <1>1 DEF IsSequence
<1>3. f \in Seq(T) /\ Len(f) = n - 1 /\ \A i \in 1..n - 1 : f[i] = c[i]
  <2>1. f = SubSeq(c, 1, n - 1)
    BY <1>2 DEF Front
  <2>2. 1 \in Int /\ n - 1 \in Int /\ \A i \in 1..n - 1 : c[i] \in T
    BY <1>1, <1>2, ElementOfSeq
  <2> HIDE DEF f
  <2> QED BY <1>1, <2>1, <2>2, SubSeqProperties
<1> HIDE DEF f
<1>4. DOMAIN f = 1..n - 1 /\ DOMAIN c = 1..n
  BY <1>2, <1>3, LenProperties
<1>5. ChainIntact(f)
  <2> SUFFICES ASSUME NEW i \in 1..n - 1
               PROVE  f[i] = Linked(i - 1, f[i].state,
                                    IF i = 1 THEN Genesis ELSE f[i - 1].hash)
    BY <1>4 DEF ChainIntact
  <2>1. i \in DOMAIN c /\ f[i] = c[i] /\ (i # 1 => f[i - 1] = c[i - 1])
    BY <1>1, <1>3, <1>4
  <2>2. c[i] = Linked(i - 1, c[i].state, IF i = 1 THEN Genesis ELSE c[i - 1].hash)
    BY <1>1, <2>1 DEF ChainIntact
  <2> QED BY <2>1, <2>2
<1>6. ChainHead(f) = c[n - 1].hash /\ ChainHead(c) = c[n].hash
  BY <1>1, <1>2, <1>3 DEF ChainHead, Last
<1>7. /\ c[n - 1] = Linked((n - 1) - 1, Served.log[n - 1], Before(c, n - 1))
      /\ c[n] = Linked(n - 1, Served.log[n], Before(c, n))
  BY <1>1
<1>8. c[n - 1].hash # c[n].hash
  <2> SUFFICES ASSUME c[n - 1].hash = c[n].hash PROVE FALSE
    OBVIOUS
  <2>1. (n - 1) - 1 = n - 1
    BY <1>7, LinkBinds
  <2> QED BY <1>1, <2>1
<1> QED BY <1>5, <1>6, <1>8 DEF c, f

\* What a change to the report does.
LEMMA ReportChanged ==
    ASSUME NEW r
    PROVE  /\ r = [TrialReport EXCEPT !.target = "changed"] =>
                  r # TrialReport /\ r.evidence = Items /\ ReportSound(r)
           /\ r = [TrialReport EXCEPT !.seed = "changed"] =>
                  r # TrialReport /\ r.evidence = Items /\ ~ReportSound(r)
           /\ r = [TrialReport EXCEPT !.plan.specs = {}] =>
                  r # TrialReport /\ r.evidence = Items /\ ~ReportSound(r)
<1> DEFINE s == TrialReport
<1>0. DOMAIN s = {"run", "target", "claims", "plan", "planHash", "holds", "assertions",
                       "score", "evidence", "seed", "provenance"}
      /\ s.target = "target" /\ s.seed = "seed" /\ s.run = "run" /\ s.evidence = Items
      /\ s.planHash = Hash("plan", Plan) /\ s.plan = Plan
  BY ReportIs
<1>1. ReportSound(s)
  BY TrialReportSound
<1> HIDE DEF s
<1>2. ASSUME r = [s EXCEPT !.target = "changed"]
      PROVE  r # s /\ r.evidence = Items /\ ReportSound(r)
  <2>1. /\ r.target = "changed" /\ r.evidence = Items /\ r.plan = s.plan
        /\ r.planHash = s.planHash /\ r.seed = s.seed /\ r.run = s.run
        /\ r.assertions = s.assertions /\ r.score = s.score /\ r.holds = s.holds
        /\ r.claims = s.claims
    BY <1>0, <1>2
  <2>2. ReportSound(r)
    BY <1>1, <2>1 DEF ReportSound, Deterministic
  <2> QED BY <1>0, <2>1, <2>2
<1>3. ASSUME r = [s EXCEPT !.seed = "changed"]
      PROVE  r # s /\ r.evidence = Items /\ ~ReportSound(r)
  <2>1. r.seed = "changed" /\ r.evidence = Items /\ r.run = "run" /\ r.plan = Plan
    BY <1>0, <1>3
  <2>2. Commitment("changed", "run") # Plan.commitment
    <3>1. <<"changed", "run">> # <<"seed", "run">>
      OBVIOUS
    <3> QED BY <3>1, PlanIs, HashBinds DEF Commitment
  <2> QED BY <1>0, <2>1, <2>2 DEF ReportSound
<1>4. ASSUME r = [s EXCEPT !.plan.specs = {}]
      PROVE  r # s /\ r.evidence = Items /\ ~ReportSound(r)
  <2>1. /\ r.plan = [s.plan EXCEPT !.specs = {}] /\ r.evidence = Items
        /\ r.planHash = s.planHash
    BY <1>0, <1>4
  <2>2. r.plan.specs = {}
    BY <1>0, <2>1, PlanIs
  <2>3. r.plan # Plan
    BY <2>2, PlanIs
  <2>4. Hash("plan", r.plan) # r.planHash
    BY <1>0, <2>1, <2>3, HashBinds
  <2> QED BY <1>0, <2>1, <2>3, <2>4 DEF ReportSound
<1> QED BY <1>2, <1>3, <1>4 DEF s

\* To change the evidence leaves a report that agrees with itself.
LEMMA EvidenceChanged ==
    ASSUME NEW r, r = [TrialReport EXCEPT !.evidence[1].data = "changed"]
    PROVE  /\ r # TrialReport /\ ReportSound(r) /\ r.evidence # Items
           /\ \E E : r.evidence \in Seq(E) /\ Items \in Seq(E)
<1> DEFINE s == TrialReport
<1>0. DOMAIN s = {"run", "target", "claims", "plan", "planHash", "holds", "assertions",
                       "score", "evidence", "seed", "provenance"}
      /\ s.evidence = Items
  BY ReportIs
<1>1. ReportSound(s)
  BY TrialReportSound
<1> HIDE DEF s
<1>2. r = [s EXCEPT !.evidence[1].data = "changed"]
  BY DEF s
<1>3. /\ r.evidence = [Items EXCEPT ![1].data = "changed"] /\ r.plan = s.plan
      /\ r.planHash = s.planHash /\ r.seed = s.seed /\ r.run = s.run
      /\ r.assertions = s.assertions /\ r.score = s.score /\ r.holds = s.holds
      /\ r.claims = s.claims
  BY <1>0, <1>2
<1>4. ReportSound(r)
  BY <1>1, <1>3 DEF ReportSound, Deterministic
<1> DEFINE one == [id |-> "ev_1", data |-> "captured"]
           two == [id |-> "ev_2", data |-> "captured"]
           bad == [id |-> "ev_1", data |-> "changed"]
           E == {one, two, bad}
<1>5. Items \in Seq(E) /\ Items = <<one, two>> /\ Items[1] = one
  BY DEF Items
<1>6. [one EXCEPT !.data = "changed"] = bad /\ one.data = "captured" /\ bad.data = "changed"
  OBVIOUS
<1> HIDE DEF one, two, bad
<1>7. [Items EXCEPT ![1].data = "changed"] = [Items EXCEPT ![1] = bad]
  BY <1>5, <1>6
<1>8. 1 \in 1..Len(Items) /\ bad \in E
  BY <1>5
<1> HIDE DEF E
<1>9. r.evidence \in Seq(E) /\ r.evidence[1] = bad
  <2>1. r.evidence = [Items EXCEPT ![1] = bad] /\ Items \in Seq(E)
    BY <1>3, <1>5, <1>7 DEF E
  <2>2. [Items EXCEPT ![1] = bad] \in Seq(E) /\ [Items EXCEPT ![1] = bad][1] = bad
    BY <1>8, <2>1, ExceptSeq
  <2> QED BY <2>1, <2>2
<1>10. bad # one
  BY <1>6
<1> QED BY <1>0, <1>4, <1>5, <1>9, <1>10 DEF s

\* One assertion of the plan is the only one with its id.
LEMMA SpecOfItsOwn ==
    \E spec \in Plan.specs : \A t \in Plan.specs : t.id = spec.id => t = spec
<1>1. CASE mode = "passive"
  <2> DEFINE spec == Assertion("assert_https", "evidence", 1)
  <2>1. Plan.specs =
          {Assertion("assert_http_success", "evidence", 1),
           Assertion("assert_provenance", "evidence", 1), spec,
           Assertion("assert_calls", "efficiency", 1),
           Assertion("assert_latency", "efficiency", 1)}
    BY <1>1 DEF Plan, PassivePlan
  <2>2. \A id, d, w : Assertion(id, d, w).id = id
    BY DEF Assertion
  <2> QED BY <2>1, <2>2
<1>2. CASE mode # "passive"
  <2> DEFINE spec == Assertion("assert_a2a_expected_marker", "capability", 3)
  <2>1. Plan.specs =
          {spec, Assertion("assert_a2a_protocol", "evidence", 2),
           Assertion("assert_a2a_repeatable", "reliability", 2),
           Assertion("assert_a2a_budget", "efficiency", 1),
           Assertion("assert_a2a_latency", "efficiency", 1)}
    BY <1>2 DEF Plan, AuthorizedPlan
  <2>2. \A id, d, w : Assertion(id, d, w).id = id
    BY DEF Assertion
  <2> QED BY <2>1, <2>2
<1> QED BY <1>1, <1>2

\* To turn the verdicts over leaves a report that its own plan contradicts.
LEMMA VerdictChanged ==
    ASSUME NEW r,
           r = [TrialReport EXCEPT !.assertions = {[a EXCEPT !.passed = ~@] : a \in @}]
    PROVE  r # TrialReport /\ r.evidence = Items /\ ~ReportSound(r)
<1> DEFINE s == TrialReport
           A == evaluateAssertions(Plan.specs, outcome.holds)
           judged(spec) == [id |-> spec.id, dimension |-> spec.dimension,
                            weight |-> spec.weight, passed |-> spec.id \in outcome.holds]
           flipped == {[a EXCEPT !.passed = ~@] : a \in A}
<1>1. /\ DOMAIN s = {"run", "target", "claims", "plan", "planHash", "holds", "assertions",
                       "score", "evidence", "seed", "provenance"}
      /\ s.evidence = Items /\ s.assertions = A /\ s.plan = Plan /\ s.holds = outcome.holds
  BY ReportIs
<1> HIDE DEF s, A
<1>2. r.assertions = flipped /\ r.evidence = Items /\ r.plan = Plan /\ r.holds = outcome.holds
  <2>1. r = [s EXCEPT !.assertions = flipped]
    BY <1>1 DEF s
  <2> HIDE DEF flipped
  <2> QED BY <1>1, <2>1
<1>3. flipped # A
  <2>1. PICK spec \in Plan.specs : \A t \in Plan.specs : t.id = spec.id => t = spec
    BY SpecOfItsOwn
  <2>2. A = {judged(t) : t \in Plan.specs}
    BY DEF A, evaluateAssertions
  <2>3. judged(spec) \in A
    BY <2>2
  <2> SUFFICES ASSUME flipped = A PROVE FALSE
    OBVIOUS
  <2>4. PICK a \in A : judged(spec) = [a EXCEPT !.passed = ~@]
    BY <2>3
  <2>5. PICK t \in Plan.specs : a = judged(t)
    BY <2>2
  <2>6. [judged(t) EXCEPT !.passed = ~@].id = t.id /\ judged(spec).id = spec.id
    OBVIOUS
  <2>7. t = spec
    BY <2>1, <2>4, <2>5, <2>6
  <2>8. [judged(spec) EXCEPT !.passed = ~@].passed = ~(spec.id \in outcome.holds)
    OBVIOUS
  <2>9. judged(spec).passed = (spec.id \in outcome.holds)
    OBVIOUS
  <2>10. judged(spec).passed = [judged(spec) EXCEPT !.passed = ~@].passed
    BY <2>4, <2>5, <2>7
  <2> QED BY <2>8, <2>9, <2>10
<1>4. ~Deterministic(r)
  BY <1>2, <1>3 DEF Deterministic, A
<1> QED BY <1>1, <1>2, <1>3, <1>4 DEF ReportSound, s

\* The root of no evidence is not that of the trial's.
LEMMA RootChanged == evidenceRoot(<<>>) # evidenceRoot(Items)
<1>1. \E E : Items \in Seq(E) /\ <<>> \in Seq(E)
  <2> DEFINE E == {[id |-> "ev_1", data |-> "captured"], [id |-> "ev_2", data |-> "captured"]}
  <2>1. Items \in Seq(E) /\ <<>> \in Seq(E)
    BY DEF Items
  <2> QED BY <2>1
<1>2. Items # <<>>
  BY DEF Items
<1> QED BY <1>1, <1>2, RootBindsItems

\* The bundle with another report,
LEMMA ReportExcept ==
    ASSUME NEW b, IsBundle(b), NEW v, NEW c, c = [b EXCEPT !.report = v]
    PROVE  /\ IsBundle(c) /\ c.report = v /\ c.events = b.events
           /\ c.root = b.root /\ c.receipt = b.receipt /\ c.attestation = b.attestation
<1>1. DOMAIN b = {"report", "events", "root", "receipt", "attestation"}
  BY DEF IsBundle
<1> QED BY <1>1 DEF IsBundle

\* with other events,
LEMMA EventsExcept ==
    ASSUME NEW b, IsBundle(b), NEW v, NEW c, c = [b EXCEPT !.events = v]
    PROVE  /\ IsBundle(c) /\ c.report = b.report /\ c.events = v
           /\ c.root = b.root /\ c.receipt = b.receipt /\ c.attestation = b.attestation
<1>1. DOMAIN b = {"report", "events", "root", "receipt", "attestation"}
  BY DEF IsBundle
<1> QED BY <1>1 DEF IsBundle

\* with another root,
LEMMA RootExcept ==
    ASSUME NEW b, IsBundle(b), NEW v, NEW c, c = [b EXCEPT !.root = v]
    PROVE  /\ IsBundle(c) /\ c.report = b.report /\ c.events = b.events
           /\ c.root = v /\ c.receipt = b.receipt /\ c.attestation = b.attestation
<1>1. DOMAIN b = {"report", "events", "root", "receipt", "attestation"}
  BY DEF IsBundle
<1> QED BY <1>1 DEF IsBundle

\* with another receipt,
LEMMA ReceiptExcept ==
    ASSUME NEW b, IsBundle(b), NEW v, NEW c, c = [b EXCEPT !.receipt = v]
    PROVE  /\ IsBundle(c) /\ c.report = b.report /\ c.events = b.events
           /\ c.root = b.root /\ c.receipt = v /\ c.attestation = b.attestation
<1>1. DOMAIN b = {"report", "events", "root", "receipt", "attestation"}
  BY DEF IsBundle
<1> QED BY <1>1 DEF IsBundle

\* or with another attestation.
LEMMA AttestationExcept ==
    ASSUME NEW b, IsBundle(b), NEW v, NEW c, c = [b EXCEPT !.attestation = v]
    PROVE  /\ IsBundle(c) /\ c.report = b.report /\ c.events = b.events
           /\ c.root = b.root /\ c.receipt = b.receipt /\ c.attestation = v
<1>1. DOMAIN b = {"report", "events", "root", "receipt", "attestation"}
  BY DEF IsBundle
<1> QED BY <1>1 DEF IsBundle

\* The changes of the report itself.
ReportChange == {"evidence", "target", "plan", "seed", "verdict"}

\* What each change leaves consistent.
ChangedAs(c, what) ==
    /\ IsBundle(c) /\ c.receipt = ServedBundle.receipt
    /\ ChainIntact(c.events) <=> what # "event"
    /\ what \notin {"event", "last event"} => c.events = ServedBundle.events
    /\ what = "last event" => ChainHead(c.events) # ChainHead(ServedBundle.events)
    /\ evidenceRoot(c.report.evidence) = c.root <=> what \notin {"evidence", "root"}
    /\ c.report.evidence = Items <=> what # "evidence"
    /\ \E E : c.report.evidence \in Seq(E) /\ Items \in Seq(E)
    /\ ReportSound(c.report) <=> what \notin {"plan", "seed", "verdict"}
    /\ c.report # TrialReport <=> what \in ReportChange
    /\ Binds(c) <=> what # "attachment"
    /\ what \notin {"attached", "attachment"} => c.attestation.status = "disabled"

\* The evidence of the trial is a sequence.
LEMMA ItemsTyped == \E E : Items \in Seq(E)
<1> DEFINE E == {[id |-> "ev_1", data |-> "captured"], [id |-> "ev_2", data |-> "captured"]}
<1>1. Items \in Seq(E)
  BY DEF Items
<1> QED BY <1>1

\* The attestation's hash determines its uri.
LEMMA OtherUri ==
    ASSUME NEW p
    PROVE  attestationBindingHash(p, "uri") # attestationBindingHash(p, "other")
<1> DEFINE bound(uri) == <<p.target, p.planHash, p.score, p.coverage, p.root, uri>>
<1>1. bound("uri") # bound("other")
  OBVIOUS
<1>2. \A uri : attestationBindingHash(p, uri) = Hash("binding", bound(uri))
  BY DEF attestationBindingHash
<1> HIDE DEF bound
<1> QED BY <1>1, <1>2, HashBinds

\* Every change leaves what ChangedAs says of it.
LEMMA ChangedIs ==
    ASSUME ServedComplete, NEW what \in Change
    PROVE  ChangedAs(Changed(ServedBundle, what), what)
<1>b. PICK b : b = ServedBundle
  OBVIOUS
<1>c. PICK c : c = Changed(b, what)
  OBVIOUS
<1> SUFFICES ChangedAs(c, what)
  BY <1>b, <1>c
<1>1. /\ IsBundle(b) /\ b.report = TrialReport /\ b.events = Chain(Served.log)
      /\ b.root = evidenceRoot(Items) /\ b.attestation.status = "disabled"
  BY <1>b, BundleIs
<1>2. /\ ChainIntact(b.events) /\ ReportSound(b.report) /\ b.report.evidence = Items
      /\ Binds(b)
  BY <1>1, ServedChain, TrialReportSound, ReportIs DEF Binds
<1>3. PICK E : Items \in Seq(E)
  BY ItemsTyped
<1> DEFINE p == b.receipt.payload
           good == [status |-> "anchored", uri |-> "uri",
                    binding |-> attestationBindingHash(p, "uri")]
           bad == [status |-> "anchored", uri |-> "other",
                   binding |-> attestationBindingHash(p, "uri")]
<1>4. CASE what = "nothing"
  <2>1. c = b
    BY <1>c, <1>4 DEF Changed
  <2> QED BY <1>b, <1>1, <1>2, <1>3, <1>4, <2>1 DEF ChangedAs, ReportChange
<1>5. CASE what = "attached"
  <2>1. c = [b EXCEPT !.attestation = good]
    BY <1>c, <1>5 DEF Changed, Attached
  <2> HIDE DEF good
  <2>2. /\ IsBundle(c) /\ c.report = b.report /\ c.events = b.events /\ c.root = b.root
        /\ c.receipt = b.receipt /\ c.attestation = good
    BY <1>1, <2>1, AttestationExcept
  <2>3. Binds(c)
    BY <2>2 DEF Binds, good
  <2> QED BY <1>b, <1>1, <1>2, <1>3, <1>5, <2>2, <2>3 DEF ChangedAs, ReportChange
<1>6. CASE what = "attachment"
  <2>1. c = [Attached(b, "uri") EXCEPT !.attestation.uri = "other"]
    BY <1>c, <1>6 DEF Changed
  <2>2. Attached(b, "uri") = [b EXCEPT !.attestation = good]
    BY DEF Attached
  <2>3. c = [b EXCEPT !.attestation = bad]
    <3> HIDE DEF p
    <3>1. DOMAIN b = {"report", "events", "root", "receipt", "attestation"}
      BY <1>1 DEF IsBundle
    <3>2. c = [[b EXCEPT !.attestation = good] EXCEPT !.attestation =
                 [[b EXCEPT !.attestation = good].attestation EXCEPT !.uri = "other"]]
      BY <2>1, <2>2
    <3>3. [b EXCEPT !.attestation = good].attestation = good
      BY <3>1
    <3>4. [good EXCEPT !.uri = "other"] = bad
      OBVIOUS
    <3> HIDE DEF good, bad
    <3> QED BY <3>1, <3>2, <3>3, <3>4
  <2> HIDE DEF good, bad
  <2>4. /\ IsBundle(c) /\ c.report = b.report /\ c.events = b.events /\ c.root = b.root
        /\ c.receipt = b.receipt /\ c.attestation = bad
    BY <1>b, <1>1, <2>3, AttestationExcept
  <2>5. ~Binds(c)
    BY <2>4, OtherUri DEF Binds, bad
  <2> QED BY <1>b, <1>1, <1>2, <1>3, <1>6, <2>4, <2>5 DEF ChangedAs, ReportChange
<1>7. CASE what = "event"
  <2> DEFINE d == [b.events EXCEPT ![1].state = "PLANNING"]
  <2>1. c = [b EXCEPT !.events = d]
    BY <1>c, <1>7 DEF Changed
  <2>2. ~ChainIntact(d)
    BY <1>b, <1>1, EventChanged
  <2> HIDE DEF d
  <2>3. /\ IsBundle(c) /\ c.report = b.report /\ c.events = d /\ c.root = b.root
        /\ c.receipt = b.receipt /\ c.attestation = b.attestation
    BY <1>1, <2>1, EventsExcept
  <2> QED BY <1>b, <1>1, <1>2, <1>3, <1>7, <2>2, <2>3 DEF ChangedAs, ReportChange, Binds
<1>8. CASE what = "last event"
  <2> DEFINE d == Front(b.events)
  <2>1. c = [b EXCEPT !.events = d]
    BY <1>c, <1>8 DEF Changed
  <2>2. ChainIntact(d) /\ ChainHead(d) # ChainHead(b.events)
    BY <1>b, <1>1, LastEventChanged
  <2> HIDE DEF d
  <2>3. /\ IsBundle(c) /\ c.report = b.report /\ c.events = d /\ c.root = b.root
        /\ c.receipt = b.receipt /\ c.attestation = b.attestation
    BY <1>1, <2>1, EventsExcept
  <2> QED BY <1>b, <1>1, <1>2, <1>3, <1>8, <2>2, <2>3 DEF ChangedAs, ReportChange, Binds
<1>9. CASE what = "evidence"
  <2> DEFINE r == [b.report EXCEPT !.evidence[1].data = "changed"]
  <2>1. c = [b EXCEPT !.report = r]
    BY <1>c, <1>9 DEF Changed
  <2>2. /\ r # TrialReport /\ ReportSound(r) /\ r.evidence # Items
        /\ \E F : r.evidence \in Seq(F) /\ Items \in Seq(F)
    BY <1>b, <1>1, EvidenceChanged
  <2> HIDE DEF r
  <2>3. /\ IsBundle(c) /\ c.report = r /\ c.events = b.events /\ c.root = b.root
        /\ c.receipt = b.receipt /\ c.attestation = b.attestation
    BY <1>1, <2>1, ReportExcept
  <2>4. evidenceRoot(r.evidence) # c.root
    BY <1>b, <1>1, <2>2, <2>3, RootBindsItems
  <2> QED BY <1>b, <1>1, <1>2, <1>9, <2>2, <2>3, <2>4 DEF ChangedAs, ReportChange, Binds
<1>10. CASE what = "root"
  <2> DEFINE d == evidenceRoot(<<>>)
  <2>1. c = [b EXCEPT !.root = d]
    BY <1>c, <1>10 DEF Changed
  <2>2. d # evidenceRoot(Items)
    BY RootChanged
  <2> HIDE DEF d
  <2>3. /\ IsBundle(c) /\ c.report = b.report /\ c.events = b.events /\ c.root = d
        /\ c.receipt = b.receipt /\ c.attestation = b.attestation
    BY <1>1, <2>1, RootExcept
  <2> QED BY <1>b, <1>1, <1>2, <1>3, <1>10, <2>2, <2>3 DEF ChangedAs, ReportChange, Binds
<1>11. ASSUME NEW r, what \in {"target", "plan", "seed", "verdict"},
              c = [b EXCEPT !.report = r], r # TrialReport, r.evidence = Items,
              ReportSound(r) <=> what = "target"
       PROVE  ChangedAs(c, what)
  <2>1. /\ IsBundle(c) /\ c.report = r /\ c.events = b.events /\ c.root = b.root
        /\ c.receipt = b.receipt /\ c.attestation = b.attestation
    BY <1>1, <1>11, ReportExcept
  <2> QED BY <1>b, <1>1, <1>2, <1>3, <1>11, <2>1 DEF ChangedAs, ReportChange, Binds
<1>12. CASE what = "target"
  <2> DEFINE r == [b.report EXCEPT !.target = "changed"]
  <2>1. c = [b EXCEPT !.report = r]
    BY <1>c, <1>12 DEF Changed
  <2>2. r # TrialReport /\ r.evidence = Items /\ ReportSound(r)
    BY <1>b, <1>1, ReportChanged
  <2> HIDE DEF r
  <2> QED BY <1>11, <1>12, <2>1, <2>2
<1>13. CASE what = "plan"
  <2> DEFINE r == [b.report EXCEPT !.plan.specs = {}]
  <2>1. c = [b EXCEPT !.report = r]
    BY <1>c, <1>13 DEF Changed
  <2>2. r # TrialReport /\ r.evidence = Items /\ ~ReportSound(r)
    BY <1>b, <1>1, ReportChanged
  <2> HIDE DEF r
  <2> QED BY <1>11, <1>13, <2>1, <2>2
<1>14. CASE what = "seed"
  <2> DEFINE r == [b.report EXCEPT !.seed = "changed"]
  <2>1. c = [b EXCEPT !.report = r]
    BY <1>c, <1>14 DEF Changed
  <2>2. r # TrialReport /\ r.evidence = Items /\ ~ReportSound(r)
    BY <1>b, <1>1, ReportChanged
  <2> HIDE DEF r
  <2> QED BY <1>11, <1>14, <2>1, <2>2
<1>15. CASE what = "verdict"
  <2> DEFINE r == [b.report EXCEPT !.assertions = {[a EXCEPT !.passed = ~@] : a \in @}]
  <2>1. c = [b EXCEPT !.report = r]
    BY <1>c, <1>15 DEF Changed
  <2>2. r # TrialReport /\ r.evidence = Items /\ ~ReportSound(r)
    BY <1>b, <1>1, VerdictChanged
  <2> HIDE DEF r
  <2> QED BY <1>11, <1>15, <2>1, <2>2
<1> QED BY <1>4, <1>5, <1>6, <1>7, <1>8, <1>9, <1>10, <1>12, <1>13, <1>14, <1>15 DEF Change

-----------------------------------------------------------------------------
\* The verdict

\* The payload that the evaluator signed.
FirstPayload == Payload(TrialReport, ServedBundle.events, evidenceRoot(Items), SigningKey)

\* What its receipt says.
LEMMA ServedReceipt ==
    /\ ServedBundle.receipt = signReceipt(FirstPayload, SigningKey)
    /\ ServedBundle.receipt.payload = FirstPayload
    /\ ServedBundle.receipt.key = SigningKey
    /\ FirstPayload.head = ChainHead(ServedBundle.events)
    /\ FirstPayload.items = ItemHashes(Items)
    /\ FirstPayload.root = evidenceRoot(Items)
    /\ FirstPayload.report = Hash("report", TrialReport)
<1>1. ServedBundle.receipt = signReceipt(FirstPayload, SigningKey)
  BY BundleIs, ReportIs DEF SignedAs, FirstPayload
<1>2. /\ FirstPayload.head = ChainHead(ServedBundle.events)
      /\ FirstPayload.items = ItemHashes(Items)
      /\ FirstPayload.root = evidenceRoot(Items)
      /\ FirstPayload.report = Hash("report", TrialReport)
  BY PayloadIs, ReportIs DEF FirstPayload
<1>3. ServedBundle.receipt.payload = FirstPayload /\ ServedBundle.receipt.key = SigningKey
  <2> PICK p : p = FirstPayload
    OBVIOUS
  <2>1. signReceipt(p, SigningKey).payload = p /\ signReceipt(p, SigningKey).key = SigningKey
    BY ReceiptIs
  <2> QED BY <1>1, <2>1
<1> QED BY <1>1, <1>2, <1>3

\* A change beside what is signed leaves the bundle signed as it is.
LEMMA KeptSigned ==
    ASSUME NEW c, NEW what, ChangedAs(c, what),
           what \in {"nothing", "attached", "attachment", "root"}
    PROVE  SignedAs(c, SigningKey)
<1>1. c.report = TrialReport /\ c.events = ServedBundle.events /\ c.report.evidence = Items
      /\ c.receipt = ServedBundle.receipt
  BY DEF ChangedAs, ReportChange
<1> QED BY <1>1, ServedReceipt DEF SignedAs, FirstPayload

\* A check that fails is a mismatch:
LEMMA CheckFails ==
    ASSUME NEW bundle, NEW trusted, NEW i \in 1..12, ~Holds(CheckName[i], bundle, trusted)
    PROVE  firstMismatch(bundle, trusted) # "none"
BY NoneMismatches

\* a key that is not trusted,
LEMMA SignerFails ==
    ASSUME NEW bundle, NEW trusted, bundle.receipt.key \notin trusted
    PROVE  firstMismatch(bundle, trusted) # "none"
<1>1. ~Holds("trusted-signer", bundle, trusted)
  BY ChecksAre
<1>2. 11 \in 1..12 /\ CheckName[11] = "trusted-signer"
  BY CheckNamesAre
<1> QED BY <1>1, <1>2, CheckFails

\* a signature that is not of this payload,
LEMMA SignatureFails ==
    ASSUME NEW bundle, NEW trusted, ~verifySignature(bundle.receipt)
    PROVE  firstMismatch(bundle, trusted) # "none"
<1>1. ~Holds("signature", bundle, trusted)
  BY ChecksAre
<1>2. 10 \in 1..12 /\ CheckName[10] = "signature"
  BY CheckNamesAre
<1> QED BY <1>1, <1>2, CheckFails

\* A bundle whose receipt was kept.
LEMMA KeptVerdict ==
    ASSUME NEW c, NEW what \in Change, ChangedAs(c, what), NEW trusted, trusted = {SigningKey}
    PROVE  /\ firstMismatch(c, trusted) = "none" <=> what \in {"nothing", "attached"}
           /\ what \in DOMAIN Blamed => firstMismatch(c, trusted) = Blamed[what]
<1> DEFINE m == firstMismatch(c, trusted)
           p == FirstPayload
<1>1. /\ c.receipt.payload = p /\ c.receipt.key = SigningKey
      /\ p.head = ChainHead(ServedBundle.events) /\ p.items = ItemHashes(Items)
      /\ p.root = evidenceRoot(Items) /\ p.report = Hash("report", TrialReport)
  BY ServedReceipt DEF ChangedAs
<1> HIDE DEF m, p
<1>2. /\ ChainIntact(c.events) <=> what # "event"
      /\ what \notin {"event", "last event"} => c.events = ServedBundle.events
      /\ what = "last event" => ChainHead(c.events) # ChainHead(ServedBundle.events)
      /\ evidenceRoot(c.report.evidence) = c.root <=> what \notin {"evidence", "root"}
      /\ c.report.evidence = Items <=> what # "evidence"
      /\ ReportSound(c.report) <=> what \notin {"plan", "seed", "verdict"}
      /\ c.report # TrialReport <=> what \in ReportChange
      /\ Binds(c) <=> what # "attachment"
  BY DEF ChangedAs
<1>3. /\ Blamed["attachment"] = "attestation-attachment" /\ Blamed["event"] = "event-chain"
      /\ Blamed["evidence"] = "evidence-items" /\ Blamed["root"] = "evidence-root"
      /\ Blamed["target"] = "report" /\ Blamed["plan"] = "report" /\ Blamed["seed"] = "report"
      /\ Blamed["verdict"] = "report" /\ Blamed["last event"] = "event-chain"
      /\ DOMAIN Blamed = Change \ {"nothing", "attached"}
  BY DEF Blamed, Change
<1>4. Holds("event-chain", c, trusted) <=> what \notin {"event", "last event"}
  <2>1. Holds("event-chain", c, trusted) <=>
          ChainIntact(c.events) /\ ChainHead(c.events) = ChainHead(ServedBundle.events)
    BY <1>1, ChecksAre DEF EventChain
  <2> QED BY <1>2, <2>1
<1>5. Holds("evidence-items", c, trusted) <=> what # "evidence"
  <2>1. Holds("evidence-items", c, trusted) <=>
          ItemHashes(c.report.evidence) = ItemHashes(Items)
    BY <1>1, ChecksAre
  <2>2. PICK E : c.report.evidence \in Seq(E) /\ Items \in Seq(E)
    BY DEF ChangedAs
  <2>3. ItemHashes(c.report.evidence) = ItemHashes(Items) => c.report.evidence = Items
    BY <2>2, ItemHashesBind
  <2> QED BY <1>2, <2>1, <2>3
<1>6. what # "evidence" => (Holds("evidence-root", c, trusted) <=> what # "root")
  <2>1. Holds("evidence-root", c, trusted) <=>
          /\ evidenceRoot(c.report.evidence) = c.root
          /\ evidenceRoot(c.report.evidence) = evidenceRoot(Items)
    BY <1>1, ChecksAre
  <2> QED BY <1>2, <2>1
<1>7. Holds("report", c, trusted) <=> what \notin ReportChange
  <2>1. Holds("report", c, trusted) <=> Hash("report", c.report) = Hash("report", TrialReport)
    BY <1>1, ChecksAre
  <2> QED BY <1>2, <2>1, HashBinds
<1>8. CASE what \in {"event", "last event"}
  <2>0. ~Holds("event-chain", c, trusted)
    BY <1>4, <1>8
  <2>1. ~Holds(CheckName[1], c, trusted) /\ 1 \in 1..12
    BY <2>0, CheckNamesAre
  <2>2. \A j \in 1..1 - 1 : Holds(CheckName[j], c, trusted)
    OBVIOUS
  <2>3. m = "event-chain"
    BY <2>1, <2>2, FirstMismatches, CheckNamesAre DEF m
  <2> QED BY <1>3, <1>8, <2>3 DEF m
<1>9. CASE what = "evidence"
  <2>1. ~Holds(CheckName[2], c, trusted) /\ 2 \in 1..12
    BY <1>5, <1>9, CheckNamesAre
  <2>2. \A j \in 1..2 - 1 : Holds(CheckName[j], c, trusted)
    <3>1. Holds(CheckName[1], c, trusted)
      BY <1>4, <1>9, CheckNamesAre
    <3>2. \A j \in 1..2 - 1 : j = 1
      OBVIOUS
    <3> QED BY <3>1, <3>2
  <2>3. m = "evidence-items"
    BY <2>1, <2>2, FirstMismatches, CheckNamesAre DEF m
  <2> QED BY <1>3, <1>9, <2>3 DEF m
<1>10. CASE what = "root"
  <2>1. ~Holds(CheckName[3], c, trusted) /\ 3 \in 1..12
    BY <1>6, <1>10, CheckNamesAre
  <2>2. \A j \in 1..3 - 1 : Holds(CheckName[j], c, trusted)
    <3>1. Holds(CheckName[1], c, trusted) /\ Holds(CheckName[2], c, trusted)
      BY <1>4, <1>5, <1>10, CheckNamesAre
    <3>2. \A j \in 1..3 - 1 : j = 1 \/ j = 2
      OBVIOUS
    <3> QED BY <3>1, <3>2
  <2>3. m = "evidence-root"
    BY <2>1, <2>2, FirstMismatches, CheckNamesAre DEF m
  <2> QED BY <1>3, <1>10, <2>3 DEF m
<1>11. CASE what \in {"target", "plan", "seed", "verdict"}
  <2>1. ~Holds(CheckName[4], c, trusted) /\ 4 \in 1..12
    BY <1>7, <1>11, CheckNamesAre DEF ReportChange
  <2>2. \A j \in 1..4 - 1 : Holds(CheckName[j], c, trusted)
    <3>1. /\ Holds(CheckName[1], c, trusted) /\ Holds(CheckName[2], c, trusted)
          /\ Holds(CheckName[3], c, trusted)
      BY <1>4, <1>5, <1>6, <1>11, CheckNamesAre
    <3>2. \A j \in 1..4 - 1 : j = 1 \/ j = 2 \/ j = 3
      OBVIOUS
    <3> QED BY <3>1, <3>2
  <2>3. m = "report"
    BY <2>1, <2>2, FirstMismatches, CheckNamesAre DEF m
  <2> QED BY <1>3, <1>11, <2>3 DEF m
<1>12. CASE what \in {"nothing", "attached", "attachment"}
  <2>1. SignedAs(c, SigningKey)
    BY <1>12, KeptSigned
  <2>2. m = "none" <=> Binds(c)
    <3>1. /\ ChainIntact(c.events) /\ evidenceRoot(c.report.evidence) = c.root
          /\ ReportSound(c.report) /\ SigningKey \in trusted
      BY <1>2, <1>12
    <3> QED BY <2>1, <3>1, SignedIsValid DEF m
  <2>3. what = "attachment" => m = "attestation-attachment"
    <3> SUFFICES ASSUME what = "attachment" PROVE m = "attestation-attachment"
      OBVIOUS
    <3>1. ~Holds(CheckName[12], c, trusted) /\ 12 \in 1..12
      BY <1>2, <2>1, SignedChecks, CheckNamesAre
    <3>2. /\ Holds("event-chain", c, trusted) /\ Holds("evidence-items", c, trusted)
          /\ Holds("evidence-root", c, trusted) /\ Holds("report", c, trusted)
      BY <1>4, <1>5, <1>6, <1>7 DEF ReportChange
    <3>3. /\ Holds("sealed-plan", c, trusted)
          /\ Holds("seed-opening", c, trusted) /\ Holds("deterministic-verdict", c, trusted)
      <4>1. ReportSound(c.report)
        BY <1>2
      <4> QED BY <2>1, <4>1, SignedChecks, ChecksAre DEF ReportSound
    <3>4. /\ Holds("evaluator-provenance", c, trusted)
          /\ Holds("receipt-claims", c, trusted) /\ Holds("signature", c, trusted)
          /\ Holds("trusted-signer", c, trusted)
      <4>1. SigningKey \in trusted
        OBVIOUS
      <4> QED BY <2>1, <4>1, SignedChecks
    <3>5. \A j \in 1..12 - 1 : Holds(CheckName[j], c, trusted)
      <4>1. \A j \in 1..12 - 1 : j \in 1..12 /\ j # 12
        OBVIOUS
      <4> QED BY <3>2, <3>3, <3>4, <4>1, TwelveChecks, CheckNamesAre
    <3> QED BY <3>1, <3>5, FirstMismatches, CheckNamesAre DEF m
  <2> QED BY <1>2, <1>3, <1>12, <2>2, <2>3 DEF m
<1> QED BY <1>8, <1>9, <1>10, <1>11, <1>12 DEF Change, m

\* The payload of a receipt made for what has changed.
NewPayload(c, key) ==
    Payload(c.report, c.events, evidenceRoot(c.report.evidence), key)

\* A payload made anew is the first one exactly if nothing signed changed.
LEMMA NewPayloadIs ==
    ASSUME NEW c, NEW what \in Change \ {"event"}, ChangedAs(c, what)
    PROVE  NewPayload(c, SigningKey) = FirstPayload <=>
               what \in {"nothing", "attached", "attachment", "root"}
<1>1. /\ NewPayload(c, SigningKey).head = ChainHead(c.events)
      /\ NewPayload(c, SigningKey).report = Hash("report", c.report)
  BY PayloadIs DEF NewPayload
<1>2. CASE what \in {"nothing", "attached", "attachment", "root"}
  <2>1. c.report = TrialReport /\ c.events = ServedBundle.events /\ c.report.evidence = Items
    BY <1>2 DEF ChangedAs, ReportChange
  <2> QED BY <1>2, <2>1 DEF NewPayload, FirstPayload
<1>3. CASE what \in ReportChange
  <2>1. c.report # TrialReport
    BY <1>3 DEF ChangedAs
  <2>2. Hash("report", c.report) # Hash("report", TrialReport)
    BY <2>1, HashBinds
  <2> QED BY <1>1, <1>3, <2>2, ServedReceipt DEF ReportChange
<1>4. CASE what = "last event"
  <2>1. ChainHead(c.events) # ChainHead(ServedBundle.events)
    BY <1>4 DEF ChangedAs
  <2> QED BY <1>1, <1>4, <2>1, ServedReceipt
<1> QED BY <1>2, <1>3, <1>4 DEF Change, ReportChange

\* and a chain that is broken.
LEMMA BrokenChainFails ==
    ASSUME NEW bundle, NEW trusted, ~ChainIntact(bundle.events)
    PROVE  firstMismatch(bundle, trusted) # "none"
<1>1. ~Holds("event-chain", bundle, trusted)
  BY ChecksAre DEF EventChain
<1>2. 1 \in 1..12 /\ CheckName[1] = "event-chain"
  BY CheckNamesAre
<1> QED BY <1>1, <1>2, CheckFails

\* A payload is put in the receipt that someone else has signed.
LEMMA RewrittenVerdict ==
    ASSUME NEW c, NEW what \in Change, ChangedAs(c, what), NEW trusted, trusted = {SigningKey},
           NEW x, x = [c EXCEPT !.receipt.payload = NewPayload(c, SigningKey)]
    PROVE  firstMismatch(x, trusted) = "none" <=> what \in {"nothing", "attached"}
<1> DEFINE p == NewPayload(c, SigningKey)
           q == FirstPayload
           r == [c.receipt EXCEPT !.payload = p]
<1>1. x = [c EXCEPT !.receipt = r] /\ IsBundle(c)
  BY DEF ChangedAs
<1>2. c.receipt = signReceipt(q, SigningKey)
  BY ServedReceipt DEF ChangedAs
<1>3. q = p <=> what \in {"nothing", "attached", "attachment", "root"} \/ (q = p /\ what = "event")
  BY NewPayloadIs
<1> HIDE DEF p, q
<1>4. r = [payload |-> p, key |-> SigningKey, signature |-> Hash("signature", <<SigningKey, q>>)]
  BY <1>2 DEF signReceipt
<1> HIDE DEF r
<1>5. /\ x.events = c.events /\ x.receipt = r /\ x.report = c.report /\ x.root = c.root
      /\ x.attestation = c.attestation /\ IsBundle(x)
  BY <1>1, ReceiptExcept
<1>6. CASE what = "event"
  <2>1. ~ChainIntact(x.events)
    BY <1>5, <1>6 DEF ChangedAs
  <2> QED BY <1>6, <2>1, BrokenChainFails
<1>7. CASE what # "event" /\ p # q
  <2>1. <<SigningKey, p>> # <<SigningKey, q>>
    BY <1>7
  <2>2. ~verifySignature(x.receipt)
    BY <1>4, <1>5, <2>1, HashBinds DEF verifySignature
  <2> QED BY <1>3, <1>7, <2>2, SignatureFails
<1>8. CASE what # "event" /\ p = q
  <2>1. r = c.receipt
    BY <1>2, <1>4, <1>8 DEF signReceipt
  <2>2. x = c
    BY <1>1, <1>5, <2>1 DEF IsBundle
  <2> QED BY <2>2, KeptVerdict
<1> QED BY <1>6, <1>7, <1>8

\* The evaluator signs what has changed.
LEMMA SignedVerdict ==
    ASSUME NEW c, NEW what \in Change, ChangedAs(c, what), NEW trusted, trusted = {SigningKey},
           NEW x,
           x = [c EXCEPT !.receipt = signReceipt(NewPayload(c, SigningKey), SigningKey)]
    PROVE  firstMismatch(x, trusted) = "none" <=> what \notin Contradictory
<1> DEFINE r == signReceipt(NewPayload(c, SigningKey), SigningKey)
<1>1. /\ IsBundle(c)
      /\ ChainIntact(c.events) <=> what # "event"
      /\ evidenceRoot(c.report.evidence) = c.root <=> what \notin {"evidence", "root"}
      /\ ReportSound(c.report) <=> what \notin {"plan", "seed", "verdict"}
      /\ Binds(c) <=> what # "attachment"
      /\ what \notin {"attached", "attachment"} => c.attestation.status = "disabled"
  BY DEF ChangedAs
<1>2. /\ x.events = c.events /\ x.receipt = r /\ x.report = c.report /\ x.root = c.root
      /\ x.attestation = c.attestation
  <2> HIDE DEF r
  <2>1. x = [c EXCEPT !.receipt = r]
    BY DEF r
  <2> QED BY <1>1, <2>1, ReceiptExcept
<1>3. SignedAs(x, SigningKey)
  BY <1>2 DEF SignedAs, NewPayload
<1>4. Binds(x) <=> what # "attachment"
  <2>1. CASE what \in {"attached", "attachment"}
    <3>1. c.receipt = r
      BY <2>1, NewPayloadIs, ServedReceipt DEF ChangedAs
    <3> QED BY <1>1, <1>2, <3>1 DEF Binds
  <2>2. CASE what \notin {"attached", "attachment"}
    BY <1>1, <1>2, <2>2 DEF Binds
  <2> QED BY <2>1, <2>2
<1>5. firstMismatch(x, trusted) = "none" <=>
        /\ ChainIntact(c.events) /\ evidenceRoot(c.report.evidence) = c.root
        /\ ReportSound(c.report) /\ Binds(x)
  <2>1. SigningKey \in trusted
    OBVIOUS
  <2>2. firstMismatch(x, trusted) = "none" <=>
        /\ ChainIntact(x.events) /\ evidenceRoot(x.report.evidence) = x.root
        /\ ReportSound(x.report) /\ SigningKey \in trusted /\ Binds(x)
    BY <1>3, SignedIsValid
  <2> QED BY <1>2, <2>1, <2>2
<1> QED BY <1>1, <1>4, <1>5 DEF Contradictory, Change

\* The verdict on any bundle that may be presented, whoever has signed it.
LEMMA VerdictIs ==
    ASSUME ServedComplete, NEW what \in Change, NEW by \in Issuer, NEW pinned \in BOOLEAN,
           NEW trusted, trusted = (alive \/ pinned),
           NEW m, m = firstMismatch(Presented(what, by), TrustedKeys(pinned))
    PROVE  /\ m = "none" <=> trusted /\ Authentic(what, by)
           /\ by = "kept" /\ what \in DOMAIN Blamed /\ trusted => m = Blamed[what]
<1>1. PICK c : c = Changed(ServedBundle, what)
  OBVIOUS
<1>2. ChangedAs(c, what)
  BY <1>1, ChangedIs
<1>3. PICK keys : keys = TrustedKeys(pinned)
  OBVIOUS
<1>4. keys = IF trusted THEN {SigningKey} ELSE {}
  BY <1>3 DEF TrustedKeys
<1>5. PICK x : x = Presented(what, by)
  OBVIOUS
<1>6. m = firstMismatch(x, keys)
  BY <1>3, <1>5
<1>7. CASE ~trusted
  <2>1. m # "none"
    BY <1>4, <1>6, <1>7, SignerFails
  <2> QED BY <1>7, <2>1
<1>8. CASE trusted /\ by = "kept"
  <2>1. x = c
    BY <1>1, <1>5, <1>8 DEF Presented
  <2>2. keys = {SigningKey}
    BY <1>4, <1>8
  <2>3. /\ m = "none" <=> what \in {"nothing", "attached"}
        /\ what \in DOMAIN Blamed => m = Blamed[what]
    BY <1>2, <1>6, <2>1, <2>2, KeptVerdict
  <2> QED BY <1>8, <2>3 DEF Authentic
<1>9. CASE trusted /\ by = "rewritten"
  <2>1. x = [c EXCEPT !.receipt.payload = NewPayload(c, SigningKey)]
    BY <1>1, <1>5, <1>9 DEF Presented, NewPayload
  <2>2. keys = {SigningKey}
    BY <1>4, <1>9
  <2>3. m = "none" <=> what \in {"nothing", "attached"}
    BY <1>2, <1>6, <2>1, <2>2, RewrittenVerdict
  <2> QED BY <1>9, <2>3 DEF Authentic
<1>10. CASE trusted /\ by = "evaluator"
  <2>1. x = [c EXCEPT !.receipt = signReceipt(NewPayload(c, SigningKey), SigningKey)]
    BY <1>1, <1>5, <1>10 DEF Presented, NewPayload
  <2>2. keys = {SigningKey}
    BY <1>4, <1>10
  <2>3. m = "none" <=> what \notin Contradictory
    BY <1>2, <1>6, <2>1, <2>2, SignedVerdict
  <2> QED BY <1>10, <2>3 DEF Authentic, Contradictory
<1>11. CASE trusted /\ by = "stranger"
  <2>0. PICK k : k = "another key"
    OBVIOUS
  <2> DEFINE q == NewPayload(c, k)
  <2>a. PICK r : r = signReceipt(q, k)
    OBVIOUS
  <2>1. x = [c EXCEPT !.receipt = r]
    BY <1>1, <1>5, <1>11, <2>0, <2>a DEF Presented, NewPayload
  <2>2. IsBundle(c)
    BY <1>2 DEF ChangedAs
  <2> HIDE DEF q
  <2>3. x.receipt = r
    BY <2>1, <2>2, ReceiptExcept
  <2>b. r.key = k
    BY <2>a, ReceiptIs
  <2>4. x.receipt.key = k
    BY <2>3, <2>b
  <2>5. k \notin keys
    BY <1>4, <2>0 DEF SigningKey
  <2>6. m # "none"
    BY <1>6, <2>4, <2>5, SignerFails
  <2> QED BY <1>11, <2>6 DEF Authentic
<1> QED BY <1>7, <1>8, <1>9, <1>10, <1>11 DEF Issuer

-----------------------------------------------------------------------------
\* The report and the verdict

\* What the report of a trial is made of.
OutcomeInv ==
    /\ mode \in {"passive", "authorized"}
    /\ outcome.signed => outcome.found \in Finding

\* A complete trial leaves what its discovery found, and nothing else touches it.
LEMMA OutcomeStep == OutcomeInv /\ [Next]_vars => OutcomeInv'
<1> SUFFICES ASSUME OutcomeInv, [Next]_vars PROVE OutcomeInv'
  OBVIOUS
<1>1. CASE Complete
  <2>1. PICK holds \in Outcomes, found \in Finding :
           outcome' = [holds |-> holds, found |-> found, signed |-> TRUE]
    BY <1>1 DEF Complete
  <2>2. mode' = mode
    BY <1>1 DEF Complete
  <2> QED BY <2>1, <2>2 DEF OutcomeInv
<1>2. CASE Publish \/ EnsureActive \/ Fetched \/ Sent
  <2>1. UNCHANGED <<mode, outcome>>
    BY <1>2 DEF Publish, EnsureActive, Fetched, Sent
  <2> QED BY <2>1 DEF OutcomeInv
<1>3. CASE WriteFile \/ Cancel \/ Restart
  <2>1. UNCHANGED <<mode, outcome>>
    BY <1>3 DEF WriteFile, Cancel, CancelRead, CancelCopy, CancelLive, Restart
  <2> QED BY <2>1 DEF OutcomeInv
<1>4. CASE UNCHANGED trialVars
  BY <1>4 DEF trialVars, OutcomeInv
<1>5. [TrialNext]_trialVars
  BY NextIs DEF vars
<1> QED BY <1>1, <1>2, <1>3, <1>4, <1>5 DEF TrialNext, Execute

\* It holds from the start.
LEMMA OutcomeStarts == ServiceInit => OutcomeInv
<1> SUFFICES ASSUME Init PROVE OutcomeInv
  BY DEF ServiceInit
<1>1. PICK d \in Deployment : store = d[1] /\ mode = d[2]
  BY DEF Init
<1>2. d \in {"memory", "directory"} \X {"passive", "authorized"}
  BY LocalTrialAssumption
<1>3. mode \in {"passive", "authorized"}
  BY <1>1, <1>2
<1>4. outcome.signed = FALSE
  BY DEF Init, NoOutcome
<1> QED BY <1>3, <1>4 DEF OutcomeInv

\* And so always.
LEMMA OutcomeInvariance == Spec => []OutcomeInv
<1> QED BY OutcomeStarts, OutcomeStep, PTL DEF Spec

\* A run that is served with its receipt is complete.
LEMMA SignedIsComplete ==
    ASSUME TrialInv, Served.signed
    PROVE  ServedComplete
<1>1. Served # NoRun
  BY DEF NoRun, Snapshot
<1>2. GoodSnapshot(Served)
  BY <1>1, ServedGood
<1>3. /\ Served.log \in Seq(PipelineState) /\ Served.log # <<>>
      /\ Served.log[1] = "CREATED" /\ Last(Served.log) = "COMPLETED"
  BY <1>2 DEF GoodSnapshot, Snapshots
<1>4. Len(Served.log) >= 2
  <2>0. PICK n : n = Len(Served.log)
    OBVIOUS
  <2>1. n \in Nat \ {0}
    BY <1>3, <2>0, EmptySeq, LenProperties
  <2>2. Served.log[n] = "COMPLETED"
    BY <1>3, <2>0 DEF Last
  <2>3. n # 1
    BY <1>3, <2>2
  <2>4. n >= 2
    BY <2>1, <2>3
  <2> QED BY <2>0, <2>4
<1> QED BY <1>3, <1>4 DEF ServedComplete

\* The verifier is asked of a complete run, and answers what VerdictIs says.
LEMMA VerifyStep == ASSUME TrialInv, Verify PROVE VerifierTellsTrue'
<1>1. ServedComplete
  BY SignedIsComplete DEF Verify
<1>2. PICK what \in Change, by \in Issuer, pinned \in BOOLEAN :
         verdict' = [what |-> what, by |-> by, trusted |-> alive \/ pinned,
                     mismatch |-> firstMismatch(Presented(what, by), TrustedKeys(pinned))]
  BY DEF Verify
<1>3. PICK trusted : trusted = (alive \/ pinned)
  OBVIOUS
<1>4. PICK m : m = firstMismatch(Presented(what, by), TrustedKeys(pinned))
  OBVIOUS
<1>5. /\ m = "none" <=> trusted /\ Authentic(what, by)
      /\ by = "kept" /\ what \in DOMAIN Blamed /\ trusted => m = Blamed[what]
  BY <1>1, <1>3, <1>4, VerdictIs
<1>6. verdict' = [what |-> what, by |-> by, trusted |-> trusted, mismatch |-> m]
  BY <1>2, <1>3, <1>4
<1>7. /\ verdict'.what = what /\ verdict'.by = by
      /\ verdict'.trusted = trusted /\ verdict'.mismatch = m
  BY <1>6
<1> QED BY <1>5, <1>7 DEF VerifierTellsTrue, Authentic, Contradictory, Blamed

\* No other step touches a verdict.
LEMMA VerdictStep == ServiceInv /\ VerifierTellsTrue /\ [Next]_vars => VerifierTellsTrue'
<1> SUFFICES ASSUME ServiceInv, VerifierTellsTrue, [Next]_vars PROVE VerifierTellsTrue'
  OBVIOUS
<1>1. CASE Verify
  BY <1>1, VerifyStep DEF ServiceInv
<1>2. CASE UNCHANGED verdict
  BY <1>2 DEF VerifierTellsTrue, Authentic, Contradictory, Blamed
<1> QED BY <1>1, <1>2 DEF Next, ProcessEnds, vars

\* A cancellation that has reached the executor's own run stops it
\* (cancelRunAuthorized, and ensureActive before every await).
THEOREM CancellationStops == Spec => []CancelStopsTheTrial
<1>1. ServiceInv => CancelStopsTheTrial
  <2> SUFFICES ASSUME TrialInv, ackAt # 0
               PROVE  /\ late <= 1
                      /\ outcome.signed => \A i \in ackAt..Len(Steps) : Steps[i] # Check
    BY DEF ServiceInv, CancelStopsTheTrial
  <2>1. late <= 1
    BY DEF TrialInv, TrialTyped
  <2>2. ASSUME outcome.signed PROVE \A i \in ackAt..Len(Steps) : Steps[i] # Check
    <3>1. Len(Steps) \in Nat /\ pc \in 1..Len(Steps) + 1 /\ pc > Len(Steps)
      BY <2>2, StepsLength DEF TrialInv, TrialTyped, LogEnds, Ended
    <3>2. \A i \in ackAt..pc - 1 : Steps[i] # Check
      BY <2>2 DEF TrialInv, Unchecked
    <3> QED BY <3>1, <3>2
  <2> QED BY <2>1, <2>2
<1> QED BY <1>1, ServiceInvariance, PTL

\* The page follows the log, through every reconnection and restart
\* (LiveRun and the events route).
THEOREM ViewIsFaithful == Spec => []ViewFollowsTheLog
<1>1. ServiceInv => ViewFollowsTheLog
  <2> SUFFICES ASSUME TrialInv, ViewInv, ~Split
               PROVE  /\ IsPrefix(page.shown, log)
                      /\ page.state \in {"COMPLETED", "FAILED"} => page.state = Last(log)
    BY DEF ServiceInv, ViewFollowsTheLog
  <2>1. page.shown \in Seq(PipelineState) /\ log \in Seq(PipelineState)
    BY LogTyped DEF ViewInv, ViewTyped
  <2>2. PrefixOf(page.shown, log) /\ (page.state \in Delivered => page.state = Last(log))
    BY DEF ViewInv, PageFollows
  <2> QED BY <2>1, <2>2, PrefixIs DEF Delivered
<1> QED BY <1>1, ServiceInvariance, PTL

\* Every fetch of a trial is within the limits of its mode (safePublicFetch).
THEOREM FetchesAreBounded == Spec => []BoundedFetch
<1>1. ServiceInv => BoundedFetch
  BY ResultsBounded DEF ServiceInv, TrialInv, TrialTyped, BoundedFetch
<1> QED BY <1>1, ServiceInvariance, PTL

\* A report says of the agent what its trial supports (calculateScore).
THEOREM ReportIsTruthful == Spec => []ReportMatchesTheTrial
<1>1. OutcomeInv => ReportMatchesTheTrial
  <2> SUFFICES ASSUME OutcomeInv, outcome.signed PROVE ReportMatchesTheTrial
    BY DEF ReportMatchesTheTrial
  <2>1. mode \in {"passive", "authorized"} /\ outcome.found \in Finding
    BY DEF OutcomeInv
  <2>2. CASE mode = "passive"
    BY <2>1, <2>2, PassiveReportMatches DEF ReportMatchesTheTrial
  <2>3. CASE mode = "authorized"
    BY <2>1, <2>3, AuthorizedReportMatches DEF ReportMatchesTheTrial
  <2> QED BY <2>1, <2>2, <2>3
<1> QED BY <1>1, OutcomeInvariance, PTL

\* The verifier accepts exactly what the evaluator signed as it is, and names
\* the part that was changed after the receipt (verifyBundle).
THEOREM VerifierIsTruthful == Spec => []VerifierTellsTrue
<1>1. ServiceInit => VerifierTellsTrue
  BY DEF ServiceInit, VerifierTellsTrue
<1> QED BY <1>1, VerdictStep, ServiceInvariance, PTL DEF Spec
=============================================================================
