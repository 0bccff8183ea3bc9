------------------------------ MODULE LocalTrial ------------------------------
(***************************************************************************)
(* A trial of an external target in one process without a database: the    *)
(* executor with its I/O, the snapshots it leaves in                       *)
(* AGENTTRIAL_DATA_DIR, and a client who cancels.                          *)
(*                                                                         *)
(* An executor is a script, as in Pipeline, with an entry for each await:  *)
(* Check for ensureActive, Get and Send for the target's I/O.  The events  *)
(* it publishes between two awaits are one entry of the log, named for the *)
(* state of the last.                                                      *)
(***************************************************************************)
EXTENDS Pipeline, Egress, SequencesExt

CONSTANTS
    Hops,       \* what one request may meet: a subset of Hop
    Finding,    \* the claims a discovery may find: sequences
    Deployment, \* the stores and modes to consider
    MaxPending  \* bound of the snapshots that wait when another is taken

ASSUME LocalTrialAssumption ==
    /\ Hops \subseteq Hop
    /\ Deployment \subseteq {"memory", "directory"} \X {"passive", "authorized"}
    /\ \A found \in Finding : found \in Seq(STRING)

VARIABLES
    store,      \* "memory", or "directory" with AGENTTRIAL_DATA_DIR
    mode,       \* "passive" or "authorized"
    alive,      \* the process that started the trial
    pc,         \* of the executor, in its script
    log,        \* run.events
    answer,     \* what the last fetch came back with
    outcome,    \* what the report says, once there is a receipt
    canceller,  \* the DELETE request
    ackAt,      \* run.cancelled: the executor's pc when it was set, or 0
    late,       \* history: messages whose sending ended after that
    writes,     \* localWrites
    file        \* the snapshot in the directory

trialVars == <<store, mode, alive, pc, log, answer, outcome, canceller, ackAt, late,
               writes, file>>

Get == "safePublicFetch"
SendMessage == "safeAuthorizedA2ASend"

PassiveSteps ==
    <<"DISCOVERING", Check, Get, "EXECUTING", Check, Get, "COMPLETED">>

\* Mutant: only the first message is preceded by a check.
AuthorizedStepsOneCheck ==
    <<"DISCOVERING", Check, Get, "PLAN_SEALED", Check, "EXECUTING", SendMessage,
      "EXECUTING", SendMessage, "COMPLETED">>

AuthorizedSteps ==
    <<"DISCOVERING", Check, Get, "PLAN_SEALED", Check, "EXECUTING", SendMessage,
      Check, "EXECUTING", SendMessage, "COMPLETED">>

Steps == IF mode = "passive" THEN PassiveSteps ELSE AuthorizedSteps

Ended == pc > Len(Steps)

NoOutcome == [holds |-> {}, found |-> <<>>, signed |-> FALSE]
Snapshot(states, signed) == [log |-> states, signed |-> signed]
NoRun == Snapshot(<<>>, FALSE)

Init ==
    /\ \E d \in Deployment : store = d[1] /\ mode = d[2]
    /\ alive = TRUE
    /\ pc = 1
    /\ log = <<"CREATED">>
    /\ answer = "none"
    /\ outcome = NoOutcome
    /\ canceller = [pc |-> "idle", log |-> <<>>]
    /\ ackAt = 0 /\ late = 0
    /\ writes = IF store = "directory" THEN <<Snapshot(<<"CREATED">>, FALSE)>> ELSE <<>>
    /\ file = NoRun

-----------------------------------------------------------------------------
\* Snapshots

\* saveLocalSnapshot: each write waits for the one before it.
Saved(snapshots) ==
    writes' = IF store = "directory" THEN writes \o snapshots ELSE writes

Emit(state) ==
    /\ log' = Append(log, state)
    /\ Saved(<<Snapshot(log', FALSE)>>)

WriteFile ==
    /\ writes # <<>>
    /\ file' = Head(writes) /\ writes' = Tail(writes)
    /\ UNCHANGED <<store, mode, alive, pc, log, answer, outcome, canceller, ackAt, late>>

\* getRun: the file if there is one, or the map.
Served ==
    IF file # NoRun THEN file
    ELSE IF alive THEN Snapshot(log, outcome.signed) ELSE NoRun

-----------------------------------------------------------------------------
\* The executor

Executing(entries) ==
    alive /\ ~Ended /\ Steps[pc] \in entries /\ Len(writes) <= MaxPending

Proceed == pc' = pc + 1

\* The catch block: the trial ends in this state.
Ends(state) == Emit(state) /\ pc' = Len(Steps) + 1

Publish ==
    /\ Executing(PipelineState \ Terminal)
    /\ Emit(Steps[pc]) /\ Proceed
    /\ answer' = "none"
    /\ UNCHANGED <<store, mode, alive, outcome, canceller, ackAt, late, file>>

EnsureActive ==
    /\ Executing({Check})
    /\ IF ackAt # 0 THEN Ends("CANCELLED") ELSE Proceed /\ UNCHANGED <<log, writes>>
    /\ UNCHANGED <<store, mode, alive, answer, outcome, canceller, ackAt, late, file>>

\* The two fetches of a passive trial, and that of the Agent Card.  (Times in
\* units of three seconds, bytes in units of half the largest body.)
FetchLimits ==
    [passive |-> [timeout |-> 2, bytes |-> 2, redirects |-> 1],
     authorized |-> [timeout |-> 2, bytes |-> 1, redirects |-> 0]]

SendLimits == [timeout |-> 2, bytes |-> 2, redirects |-> 0]

Results ==
    [passive |-> Fetches(FetchLimits.passive, Hops),
     authorized |-> Fetches(FetchLimits.authorized, Hops)]

CardUsable == {Selectable(card) : card \in Card}
SendResults == Sends(SendLimits, Hops)

\* A card is used only if its hash is the authorized one and the selection
\* still stands.
Fetched ==
    /\ Executing({Get})
    /\ \E came \in {result.outcome : result \in Results[mode]} :
       \E same \in BOOLEAN, usable \in CardUsable :
          IF came = "failed" \/ (mode = "authorized" /\ ~(same /\ usable))
          THEN Ends("FAILED") /\ UNCHANGED answer
          ELSE Proceed /\ answer' = came /\ UNCHANGED <<log, writes>>
    /\ UNCHANGED <<store, mode, alive, outcome, canceller, ackAt, late, file>>

Sent ==
    /\ Executing({SendMessage})
    /\ \E came \in SendResults :
          IF came = "failed" THEN Ends("FAILED")
          ELSE Proceed /\ UNCHANGED <<log, writes>>
    /\ late' = IF ackAt # 0 THEN late + 1 ELSE late
    /\ UNCHANGED <<store, mode, alive, answer, outcome, canceller, ackAt, file>>

\* The assertions that may hold when both calls have been answered.  (Calls
\* within their deadlines are within the latency that is asserted.)
PassiveOutcomes ==
    LET sure == {"assert_provenance", "assert_calls", "assert_latency"} \cup
                IF answer = "success" THEN {"assert_http_success"} ELSE {}
    IN  {sure, sure \cup {"assert_https"}}

AuthorizedOutcomes ==
    {{"assert_a2a_protocol", "assert_a2a_budget", "assert_a2a_latency"} \cup s :
        s \in SUBSET {"assert_a2a_expected_marker", "assert_a2a_repeatable"}}

Outcomes == IF mode = "passive" THEN PassiveOutcomes ELSE AuthorizedOutcomes

\* From the observation to the receipt: a snapshot that is complete and has no
\* bundle, then one that has.
Complete ==
    /\ Executing({"COMPLETED"})
    /\ log' = Append(log, "COMPLETED") /\ Proceed
    /\ Saved(<<Snapshot(log', FALSE), Snapshot(log', TRUE)>>)
    /\ \E holds \in Outcomes, found \in Finding :
          outcome' = [holds |-> holds, found |-> found, signed |-> TRUE]
    /\ answer' = "none"
    /\ UNCHANGED <<store, mode, alive, canceller, ackAt, late, file>>

Execute == Publish \/ EnsureActive \/ Fetched \/ Sent \/ Complete

-----------------------------------------------------------------------------
\* cancelRunAuthorized: what it loads is a copy if there is a file, and the
\* executor's own run only otherwise.

CancelRead ==
    /\ canceller.pc = "idle"
    /\ canceller' = IF file # NoRun THEN [pc |-> "copy", log |-> file.log]
                                    ELSE [pc |-> "live", log |-> <<>>]
    /\ UNCHANGED <<store, mode, alive, pc, log, answer, outcome, ackAt, late, writes, file>>

Replied(reply) == canceller' = [pc |-> reply, log |-> <<>>]

CancelCopy ==
    /\ canceller.pc = "copy"
    /\ IF Last(canceller.log) \in Terminal
       THEN Replied("refused") /\ UNCHANGED writes
       ELSE /\ Saved(<<Snapshot(Append(canceller.log, "CANCELLED"), FALSE)>>)
            /\ Replied("copy cancelled")
    /\ UNCHANGED <<store, mode, alive, pc, log, answer, outcome, ackAt, late, file>>

CancelLive ==
    /\ canceller.pc = "live"
    /\ IF ~alive \/ Last(log) \in Terminal
       THEN Replied("refused") /\ UNCHANGED <<log, writes, ackAt>>
       ELSE Emit("CANCELLED") /\ ackAt' = pc /\ Replied("cancelled")
    /\ UNCHANGED <<store, mode, alive, pc, answer, outcome, late, file>>

Cancel == CancelRead \/ CancelCopy \/ CancelLive

\* The process ends: with it go the map, the executor, the writes that wait and
\* the request in progress.
Restart ==
    /\ alive
    /\ alive' = FALSE /\ writes' = <<>>
    /\ canceller' = IF canceller.pc \in {"copy", "live"} THEN [pc |-> "refused", log |-> <<>>]
                    ELSE canceller
    /\ UNCHANGED <<store, mode, pc, log, answer, outcome, ackAt, late, file>>
=============================================================================
