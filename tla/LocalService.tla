----------------------------- MODULE LocalService -----------------------------
(***************************************************************************)
(* A trial without a database from its creation to its verification: the   *)
(* process that runs it, a client who may cancel it, the page that follows *)
(* it, and the verifier that a reader opens from its report, with the      *)
(* bundle as it is or as someone has changed it.                           *)
(***************************************************************************)
EXTENDS LiveView, Evidence

CONSTANT MaxClaims      \* of a report

VARIABLE verdict    \* what the verifier says of which bundle

vars == <<trialVars, viewVars, verdict>>

-----------------------------------------------------------------------------
\* The report and the bundle of the trial

Assertion(id, dimension, weight) ==
    [id |-> id, dimension |-> dimension, weight |-> weight]

PassivePlan ==
    [commitment |-> Commitment("seed", "run"), authorized |-> FALSE, claimIds |-> {},
     specs |-> {Assertion("assert_http_success", "evidence", 1),
                Assertion("assert_provenance", "evidence", 1),
                Assertion("assert_https", "evidence", 1),
                Assertion("assert_calls", "efficiency", 1),
                Assertion("assert_latency", "efficiency", 1)}]

AuthorizedPlan ==
    [commitment |-> Commitment("seed", "run"), authorized |-> TRUE,
     claimIds |-> {"claim_a2a"},
     specs |-> {Assertion("assert_a2a_expected_marker", "capability", 3),
                Assertion("assert_a2a_protocol", "evidence", 2),
                Assertion("assert_a2a_repeatable", "reliability", 2),
                Assertion("assert_a2a_budget", "efficiency", 1),
                Assertion("assert_a2a_latency", "efficiency", 1)}]

Plan == IF mode = "passive" THEN PassivePlan ELSE AuthorizedPlan

\* What discovery found, and then the user's own description, up to a limit.
PassiveClaims ==
    LET all == <<"claim_public_surface">> \o outcome.found
    IN  {all[i] : i \in {j \in DOMAIN all : j <= MaxClaims}}

Claims == IF mode = "passive" THEN PassiveClaims ELSE {"claim_a2a"}

\* Mutant: a surface that answered counts as a claim that was tested.
TestedIfReached ==
    IF mode = "passive" THEN {"claim_public_surface"} ELSE {"claim_a2a"}

Tested == IF mode = "passive" THEN {} ELSE {"claim_a2a"}

Items == <<[id |-> "ev_1", data |-> "captured"], [id |-> "ev_2", data |-> "captured"]>>

TrialReport == Report("run", Plan, Claims, Tested, outcome.holds, Items, "seed")

SigningKey == "signing key"

ServedBundle == Bundle(TrialReport, Chain(Served.log), SigningKey)

-----------------------------------------------------------------------------
\* The verifier

\* What someone may have changed in a bundle.  "evidence" is the page's own
\* "Modify one byte"; "attached" is loadRun's, once the receipt is anchored.
Changed(bundle, what) ==
    CASE what = "nothing" -> bundle
      [] what = "attached" -> Attached(bundle, "uri")
      [] what = "attachment" -> [Attached(bundle, "uri") EXCEPT !.attestation.uri = "other"]
      [] what = "event" -> [bundle EXCEPT !.events[1].state = "PLANNING"]
      [] what = "last event" -> [bundle EXCEPT !.events = Front(@)]
      [] what = "evidence" -> [bundle EXCEPT !.report.evidence[1].data = "changed"]
      [] what = "root" -> [bundle EXCEPT !.root = evidenceRoot(<<>>)]
      [] what = "target" -> [bundle EXCEPT !.report.target = "changed"]
      [] what = "plan" -> [bundle EXCEPT !.report.plan.specs = {}]
      [] what = "seed" -> [bundle EXCEPT !.report.seed = "changed"]
      [] what = "verdict" -> [bundle EXCEPT !.report.assertions =
                                 {[a EXCEPT !.passed = ~@] : a \in @}]

Change == {"nothing", "attached", "attachment", "event", "last event", "evidence", "root",
           "target", "plan", "seed", "verdict"}

\* And who made a receipt for it: no one, someone who cannot sign it, someone
\* with another key, or the evaluator.
Issuer == {"kept", "rewritten", "stranger", "evaluator"}

Presented(what, by) ==
    LET bundle == Changed(ServedBundle, what)
        key == IF by = "stranger" THEN "another key" ELSE SigningKey
        payload == Payload(bundle.report, bundle.events,
                           evidenceRoot(bundle.report.evidence), key)
    IN  CASE by = "kept" -> bundle
          [] by = "rewritten" -> [bundle EXCEPT !.receipt.payload = payload]
          [] OTHER -> [bundle EXCEPT !.receipt = signReceipt(payload, key)]

\* getSigningKeyRegistry without a database: the key of this process, from when
\* it was first used on; and what the reader has pinned.
TrustedKeys(pinned) == IF alive \/ pinned THEN {SigningKey} ELSE {}

NoVerdict == [what |-> "", by |-> "", trusted |-> FALSE, mismatch |-> ""]

\* From the report, which a page that shows the run complete links to.
Verify ==
    /\ verdict = NoVerdict
    /\ page.pc = "settled" /\ page.state = "COMPLETED" /\ Served.signed
    /\ \E what \in Change, by \in Issuer, pinned \in BOOLEAN :
          verdict' = [what |-> what, by |-> by, trusted |-> alive \/ pinned,
                      mismatch |-> firstMismatch(Presented(what, by), TrustedKeys(pinned))]
    /\ UNCHANGED <<trialVars, viewVars>>

-----------------------------------------------------------------------------
\* The verdict is the last thing that is of interest.
ServiceInit == Init /\ ViewInit /\ verdict = NoVerdict

\* The streams end with the process.
ProcessEnds ==
    /\ verdict = NoVerdict
    /\ Restart
    /\ stream' = NoStream /\ window' = 0
    /\ UNCHANGED <<page, net, faults, verdict>>

Next ==
    \/ /\ verdict = NoVerdict
       /\ \/ (Execute \/ WriteFile \/ Cancel) /\ UNCHANGED viewVars
          \/ (View \/ Push \/ PushFails \/ Expire \/ WindowReset) /\ UNCHANGED trialVars
       /\ UNCHANGED verdict
    \/ Verify
    \/ ProcessEnds

\* The target's I/O has deadlines, files are written, timers fire, and the
\* browser dispatches what it has received.
Fairness ==
    /\ WF_vars(Execute /\ UNCHANGED <<viewVars, verdict>>)
    /\ WF_vars(WriteFile /\ UNCHANGED <<viewVars, verdict>>)
    /\ WF_vars(View /\ UNCHANGED <<trialVars, verdict>>)
    /\ WF_vars(Push /\ UNCHANGED <<trialVars, verdict>>)
    /\ WF_vars(stream.stuck /\ Expire /\ UNCHANGED <<trialVars, verdict>>)
    /\ WF_vars(WindowReset /\ UNCHANGED <<trialVars, verdict>>)

Spec == ServiceInit /\ [][Next]_vars /\ Fairness

-----------------------------------------------------------------------------
\* PROPERTIES

\* A cancellation that reached the run itself stops it: at most one message to
\* the target still completes, and there is a receipt only if the last
\* ensureActive was over when the cancellation was acknowledged.
CancelStopsTheTrial ==
    ackAt # 0 =>
        /\ late <= 1
        /\ outcome.signed => \A i \in ackAt..Len(Steps) : Steps[i] # Check

\* Every fetch a trial is about to make stays within its limits and away from
\* addresses that are not public, however the target redirects, however slow
\* it is, and whatever its names resolve to.
BoundedFetch ==
    Executing({Get}) =>
        \A call \in Results[mode] : call.limits = FetchLimits[mode] /\ Bounded(call)

\* A passive report claims nothing of the agent's capabilities, whatever was
\* discovered and however the page answered; an authorized one is worth its
\* capability points if and only if the expected answer came, and says that it
\* is critical if it did not.
ReportMatchesTheTrial ==
    outcome.signed =>
        LET score == TrialReport.score
            marker == "assert_a2a_expected_marker" \in outcome.holds
        IN  IF mode = "passive"
            THEN /\ score.coverage = 0 /\ score.badge = "not-verified"
                 /\ score.dimensions["capability"] = 0 /\ score.untested = Claims
            ELSE /\ score.coverage = 1000 /\ score.untested = {}
                 /\ score.dimensions["capability"] = IF marker THEN 300 ELSE 0
                 /\ score.critical = {} <=> marker

\* A cancellation that marked a copy of the run puts a second history beside
\* the executor's.
Split == canceller.pc = "copy cancelled"

\* Through reconnections, refusals and a process that ends, the page shows the
\* events of the run once and in their order; and it says "complete" or
\* "failed" of a run that is.
ViewFollowsTheLog ==
    ~Split =>
        /\ IsPrefix(page.shown, log)
        /\ page.state \in {"COMPLETED", "FAILED"} => page.state = Last(log)

\* A page comes to an end with the trial, whatever happens to its streams, if
\* the process does not end first.
ViewerSettles == <>(page.pc \in {"settled", "dead"} \/ ~alive)

\* What contradicts itself, whoever has signed it.
Contradictory == {"attachment", "event", "evidence", "root", "plan", "seed", "verdict"}

Authentic(what, by) ==
    \/ what \in {"nothing", "attached"} /\ by # "stranger"
    \/ by = "evaluator" /\ what \notin Contradictory

\* The check that names what was changed under the receipt.
Blamed ==
    [what \in Change \ {"nothing", "attached"} |->
        CASE what = "attachment" -> "attestation-attachment"
          [] what \in {"event", "last event"} -> "event-chain"
          [] what = "evidence" -> "evidence-items"
          [] what = "root" -> "evidence-root"
          [] what \in {"target", "plan", "seed", "verdict"} -> "report"]

\* The verifier calls a bundle valid if and only if the evaluator signed it as
\* it is, it does not contradict itself, and the key was trusted; and of a
\* bundle changed after its receipt it names the part.
VerifierTellsTrue ==
    verdict # NoVerdict =>
        /\ verdict.mismatch = "none" <=> verdict.trusted /\ Authentic(verdict.what, verdict.by)
        /\ verdict.by = "kept" /\ verdict.what \in DOMAIN Blamed /\ verdict.trusted =>
               verdict.mismatch = Blamed[verdict.what]
=============================================================================
