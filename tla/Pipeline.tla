------------------------------ MODULE Pipeline ------------------------------
(***************************************************************************)
(* The pipeline states of packages/core/src/state-machine.ts and the three *)
(* executors of packages/runtime/src/index.ts that walk through them.      *)
(*                                                                         *)
(* An executor is single-threaded JavaScript: between two awaits it runs   *)
(* to completion.  A script is what it does between them: the state its    *)
(* last emit of the segment publishes, or Check where it awaits            *)
(* ensureActive.  An await of target I/O is the gap between two entries.   *)
(* The events of one segment are one entry, so a segment adds one to the   *)
(* revision where the code adds one for each event.                        *)
(***************************************************************************)
EXTENDS Integers, Sequences

PipelineState ==
    {"CREATED", "DISCOVERING", "CLAIMS_EXTRACTED", "PLANNING", "PLAN_SEALED",
     "EXECUTING", "VERIFYING", "SCORING", "RECEIPT_SIGNED", "ATTESTING",
     "COMPLETED", "FAILED", "CANCELLED"}

Terminal == {"COMPLETED", "FAILED", "CANCELLED"}

Check == "ensureActive"

\* executeRun, with one trial in its loop: a check before each segment, before
\* the trial and after it.
FixtureScript ==
    <<Check, "DISCOVERING", Check, "PLANNING", Check, "EXECUTING",
      Check, "EXECUTING", "EXECUTING", Check, "SCORING">>

\* executeExternalRun: a check before each of the two fetches, none after.
PassiveScript == <<"DISCOVERING", Check, "EXECUTING", Check, "SCORING">>

\* executeAuthorizedExternalRun, with two messages in its loop: a check before
\* the card fetch and before each message, none after the last.
AuthorizedScript ==
    <<"DISCOVERING", Check, "PLAN_SEALED", Check, "EXECUTING", Check, "EXECUTING", "SCORING">>
=============================================================================
