------------------------------- MODULE Evidence -------------------------------
(***************************************************************************)
(* packages/evidence/src/index.ts: the chain of a run's events, the root   *)
(* of its evidence, the receipt over both and the report, and what a       *)
(* reader checks of such a bundle.                                         *)
(*                                                                         *)
(* A hash is what was hashed, with its purpose: equal when that is equal,  *)
(* as for SHA-256 of canonical JSON.  A public key stands for its secret   *)
(* key as well, and no one signs with a key that is not theirs.            *)
(***************************************************************************)
EXTENDS Scoring, Sequences, SequencesExt

Hash(purpose, value) == <<purpose, value>>

-----------------------------------------------------------------------------
\* Events and evidence

Genesis == Hash("event", "genesis")

Linked(index, state, previous) ==
    LET base == [index |-> index, state |-> state, previous |-> previous]
    IN  [index |-> index, state |-> state, previous |-> previous,
         hash |-> Hash("event", base)]

ChainHead(events) == IF events = <<>> THEN Genesis ELSE Last(events).hash

appendEvent(events, state) ==
    Append(events, Linked(Len(events), state, ChainHead(events)))

\* The events of a run that went through these states.
Chain(states) == FoldLeft(appendEvent, <<>>, states)

ItemHashes(items) == [i \in DOMAIN items |-> Hash("item", items[i])]

Absent == Hash("node", "absent")

\* One layer of the tree over the layer below it.
Parents(layer) ==
    [i \in 1..((Len(layer) + 1) \div 2) |->
        Hash("node", <<layer[2 * i - 1],
                       IF 2 * i <= Len(layer) THEN layer[2 * i] ELSE Absent>>)]

Climbed(layer, leaf) == IF Len(layer) > 1 THEN Parents(layer) ELSE layer

\* Until one node is left, and there are no more layers than leaves.
evidenceRoot(items) ==
    LET leaves == ItemHashes(items)
    IN  Hash("root", <<Len(items), FoldLeft(Climbed, leaves, leaves)>>)

-----------------------------------------------------------------------------
\* Reports and receipts

\* What the sealed assertions come to, on the ones that hold.
evaluateAssertions(specs, holds) ==
    {[id |-> spec.id, dimension |-> spec.dimension, weight |-> spec.weight,
      passed |-> spec.id \in holds] : spec \in specs}

Commitment(seed, run) == Hash("seed", <<seed, run>>)

Mode(report) ==
    IF report.plan.authorized THEN "active-external" ELSE "passive-external"

\* A report whose assertions, score and plan hash follow from the rest.
Report(run, plan, claims, tested, holds, items, seed) ==
    LET assertions == evaluateAssertions(plan.specs, holds)
    IN  [run |-> run, target |-> "target", claims |-> claims,
         plan |-> plan, planHash |-> Hash("plan", plan), holds |-> holds,
         assertions |-> assertions,
         score |-> calculateScore(assertions, claims, tested),
         evidence |-> items, seed |-> seed, provenance |-> "build"]

Payload(report, events, root, key) ==
    [run |-> report.run, target |-> report.target, mode |-> Mode(report),
     planHash |-> report.planHash, commitment |-> report.plan.commitment,
     provenance |-> report.provenance, root |-> root,
     items |-> ItemHashes(report.evidence), report |-> Hash("report", report),
     head |-> ChainHead(events), score |-> report.score.overall,
     coverage |-> report.score.coverage, keyId |-> Hash("key", key)]

signReceipt(payload, key) ==
    [payload |-> payload, key |-> key, signature |-> Hash("signature", <<key, payload>>)]

verifySignature(receipt) ==
    receipt.signature = Hash("signature", <<receipt.key, receipt.payload>>)

\* The bundle a run is completed with.
Bundle(report, events, key) ==
    LET root == evidenceRoot(report.evidence)
    IN  [report |-> report, events |-> events, root |-> root,
         receipt |-> signReceipt(Payload(report, events, root, key), key),
         attestation |-> [status |-> "disabled", uri |-> "", binding |-> Genesis]]

\* Of an anchored attachment.
attestationBindingHash(payload, uri) ==
    Hash("binding", <<payload.target, payload.planHash, payload.score, payload.coverage,
                      payload.root, uri>>)

Attached(bundle, uri) ==
    [bundle EXCEPT !.attestation =
        [status |-> "anchored", uri |-> uri,
         binding |-> attestationBindingHash(bundle.receipt.payload, uri)]]

-----------------------------------------------------------------------------
\* verifyBundle

ChainIntact(events) ==
    \A i \in DOMAIN events :
        LET previous == IF i = 1 THEN Genesis ELSE events[i - 1].hash
        IN  events[i] = Linked(i - 1, events[i].state, previous)

\* Mutant: where the chain ends is not compared with the receipt.
EventChainOpen(events, head) == ChainIntact(events)

EventChain(events, head) == ChainIntact(events) /\ ChainHead(events) = head

\* An observation of every trial was made, so all its claims were tested.
Deterministic(report) ==
    LET assertions == evaluateAssertions(report.plan.specs, report.holds)
    IN  /\ report.assertions = assertions
        /\ report.score = calculateScore(assertions, report.claims, report.plan.claimIds)

ReceiptClaims(receipt, report) ==
    LET p == receipt.payload
    IN  /\ p.run = report.run /\ p.target = report.target
        /\ p.commitment = report.plan.commitment /\ p.mode = Mode(report)
        /\ p.keyId = Hash("key", receipt.key)
        /\ p.score = report.score.overall /\ p.coverage = report.score.coverage

CheckName ==
    <<"event-chain", "evidence-items", "evidence-root", "report", "sealed-plan",
      "seed-opening", "evaluator-provenance", "deterministic-verdict", "receipt-claims",
      "signature", "trusted-signer", "attestation-attachment">>

Holds(name, bundle, trusted) ==
    LET report == bundle.report
        receipt == bundle.receipt
        p == receipt.payload
        root == evidenceRoot(report.evidence)
    IN CASE name = "event-chain" -> EventChain(bundle.events, p.head)
         [] name = "evidence-items" -> ItemHashes(report.evidence) = p.items
         [] name = "evidence-root" -> root = bundle.root /\ root = p.root
         [] name = "report" -> Hash("report", report) = p.report
         [] name = "sealed-plan" ->
                /\ Hash("plan", report.plan) = report.planHash
                /\ report.planHash = p.planHash
         [] name = "seed-opening" ->
                Commitment(report.seed, report.run) = report.plan.commitment
         [] name = "evaluator-provenance" -> p.provenance = report.provenance
         [] name = "deterministic-verdict" -> Deterministic(report)
         [] name = "receipt-claims" -> ReceiptClaims(receipt, report)
         [] name = "signature" -> verifySignature(receipt)
         [] name = "trusted-signer" -> receipt.key \in trusted
         [] name = "attestation-attachment" ->
                bundle.attestation.status = "anchored" =>
                    bundle.attestation.binding =
                        attestationBindingHash(p, bundle.attestation.uri)

\* The first check that fails, or "none": a bundle is valid if it has none.
firstMismatch(bundle, trusted) ==
    LET failed == {i \in DOMAIN CheckName : ~Holds(CheckName[i], bundle, trusted)}
    IN  IF failed = {} THEN "none" ELSE CheckName[Min(failed)]
=============================================================================
