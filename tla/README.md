# AgentTrial: a verification project

AgentTrial runs a trial against an AI agent or an API, collects evidence, scores
it and issues a signed receipt. A trial is asked for in a web process, executed
by a worker, signed by a signer, watched by browsers and cancelled by its
owner; the processes meet only in PostgreSQL. This directory models that
meeting in TLA+, checks it with TLC and proves what matters most with TLAPS.

Paths below are relative to the repository root.

## The system

| Component | State it keeps | Operations | Hard behaviour | What makes it correct |
|---|---|---|---|---|
| Job queue and leases (`packages/runtime/src/persistence.ts`) | `agenttrial_jobs`: status, attempts, lease_token, locked_until | enqueueRun, failExhaustedJobs, claimRun, renewRunLease, finishRunJob | leases that run out under a living holder, crashes, three attempts at most | one holder passes the fence; a lost lease stays lost; a settled job stays settled; every job settles |
| Worker execution (`packages/runtime/src/index.ts`, `apps/worker`) | a working copy of the run, `leaseState` (lost flag, chain of checkpoints) | processNextRun, emit, ensureActive, persistExecutionRun, the three executors | checkpoints are not awaited; every answer is stale after its await; retry from the sealed input | attempts write in order; the stored log does not shrink; a retry is clean |
| Receipt signing (same files, `apps/signer`) | `agenttrial_signing_jobs`, the unsigned report inside the run | enqueueSigningJob, claimSigningJob, processNextSigningJob, finalizePendingRun, saveSignedRun, finishSigningJob | a 30 second lease that is never renewed; failure after the receipt was saved | one signer at a time; no run both signed and waiting; a cancelled signing job stops every signer whose save has not begun |
| Run creation and cancellation (`apps/web/app/api/runs`) | unawaited saves, the run's `cancelled` flag | createRun, failQueuedRun, cancelRunDurably | cancellation races everything | an acknowledged cancellation is not followed by a receipt |
| Pipeline state machine (`packages/core/src/state-machine.ts`) | the state of one executor's run | transition | stored states are overwritten by others | terminal states are final |
| Idempotency and intake (`apps/web/app/api/runs/route.ts`) | `agenttrial_idempotency`, in-memory reservations | reserve, finalize, abandon | early returns and crashes between reservation and finalisation | one run per key; a key is never stuck |
| Authorization (`packages/runtime/src/authorizations.ts`) | `agenttrial_authorizations` | issue, verify, consume, expire | two requests with one proof | consumed at most once |
| Onchain attestation (`scripts/eas-attest.mjs`) | `agenttrial_attestations`, the chain | begin, broadcast, record, resume, confirm, fail | a broadcast is outside the database; operators overlap, die and retry | an anchored row names a mined attestation and stays; a rebroadcast has a cause |
| Signing key registry (`persistence.ts`, `apps/signer`) | `agenttrial_signing_keys`, the seeds of the signers | register, rotate, revoke | every signer registers on every poll and demotes the others | what was trusted stays trusted; a revoked key stays revoked |
| Local mode (`packages/runtime/src/index.ts`) | maps in one process, `localWrites`, a file per run | execute, snapshot, cancel, restart | cancellation changes the executor's run, or a copy of it | a cancelled run sends no more and is not signed |
| Event stream and live view (`apps/web/app/api/runs/[id]/events`, `components/live-run.tsx`) | a cursor per stream; the page's events and state | poll, send, close; refresh, connect, deduplicate, reconnect | a stream starts from the first event, whatever the page has; it may end, fall silent or be refused | each event once and in order; the page ends with the trial |
| Egress (`packages/adapters`, `packages/security`) | one call's clock, budget and address | validate, pin, request, follow a redirect | names that resolve to anything, slow answers, redirects | no address that is not public; within time, bytes and calls |
| Limits and budgets (`packages/security/src/index.ts`) | windows, counters | take, charge | refusals and boundaries | never above the limit |
| Evidence (`packages/evidence/src/index.ts`) | none (pure) | chain, root, receipt, verifyBundle | the order of checks; a part that is recomputed and not compared | valid if and only if signed as it is; the changed part is named |
| Assertions and scoring (`packages/core/src`) | none (pure) | evaluate, score | zero weights, claims that were not tested | the report says what the trial showed |
| Planner, fixtures, research, pages, operations | | | | outside this project; see *Not modelled* |

How they interact. The web process inserts the run and the job in one
transaction (`enqueueRun`), but also saves the run, unawaited, when it is created
and when it is failed. A worker claims the job under a lease, works on its own
copy of the run and queues a checkpoint for every event; at the end it either
signs the report itself or, with `AGENTTRIAL_EXECUTION_ONLY`, stores the
unsigned report and inserts a signing job. A signer claims that job, signs and
saves. The owner's cancellation locks and updates the three rows in one
transaction. Readers see the `agenttrial_runs` row only. The registry says of a
receipt whether its key was in use when it was signed, and operators anchor a
signed receipt on a chain, once the trial is over. Without a database one process
does all of this in memory, and leaves snapshots in a directory if it has one.

`PROJECT.json` lists the components with their status and, under *hazards*, every
place in this code that is hard to test, with the properties aimed at it.

## Modules

**`FencedLease`** is the abstract specification: what one job row promises to the
processes that poll it. Enqueue, Claim, Renew, Expire, Finish, Drop, Cancel, Exhaust.
`Exhaustible` says whether rows out of attempts are closed: they are in
`agenttrial_jobs` (`failExhaustedJobs`) and not in `agenttrial_signing_jobs`.

**`Pipeline`** holds the pipeline states and the scripts of the three executors:
`executeRun`, `executeExternalRun`, `executeAuthorizedExternalRun`. A script is a
sequence of segments between awaits: the state a segment publishes, or a call of
`ensureActive`.

**`DurableTrial`** is one trial in the database deployment. Its state is the three
rows (`row`, `job`, `sig`), the memory of every worker and signer (`worker`,
`signer`), what the web process has under way (`enqueueing`, `upserts`), and whose saves
wait for the row while a cancellation holds it (`waiting`). Trials share no row, so one
trial is enough. Correspondence of actions:

| Actions | Code |
|---|---|
| Enqueue, EnqueueRefused, EnqueueUnacknowledged | `enqueueRun` commits; throws; commits and the answer is lost (then `failQueuedRun`) |
| Upsert | `saveRun` without a lease |
| Cancel | `cancelRunDurably`'s transaction, and the saves that begin while it holds the row (`Saving`) |
| FailExhausted, Claim | the two statements of `claimRun` |
| Load, Advance, EnsureActive, Throw | `processNextRun` up to the executor, `emit`, `ensureActive`, an executor's throw |
| Sign, HandOff, InsertSigningJob | finishing with a receipt, or `queueSigningIfSeparated` and the two statements of `enqueueSigningJob` |
| Checkpoint | one link of `leaseState.checkpoint` |
| Persist, Save, Finish | `persistExecutionRun`, the last save and `finishRunJob` with its second call in the catch block |
| RenewalRefused, StatementFails, SaveFails, HandOffFails, WorkerCrash, LeaseExpires | the failures of the above |
| ClaimSigning, Finalize, SaveSigned, SaveRejected, FinishSigning | `processNextSigningJob` |
| SigningFails, SignerCrash, SigningLeaseExpires | its failures |

`DurableTrial` instantiates `FencedLease` twice (`JobTable`, `SigningTable`) with the
process memories as holders, and is shown to implement both.

**`Authorization`** is one authorization of an active evaluation, after its challenge was
issued. Calls of `verifyAuthorizationChallenge` and `consumeAuthorization` overlap;
each is a record with its own position and what it loaded. The deployment (`store`)
is chosen in the initial state: a database row with a compare-and-set, or one process
with a map and possibly a file per record.

| Actions | Code |
|---|---|
| Begin, Load | the route, `load` from the row or the map, and the checks up to the next await |
| ReadFile, CacheFile | `load` from the file after a restart: the read, and the map set when it arrives |
| FetchProof, FetchCard | the two fetches of `verifyAuthorizationChallenge` |
| Save, SaveUnacknowledged | `transitionAuthorizationRecord`, answered or not |
| Proceed (in Load, CacheFile, FetchCard) | `persist` up to its first await without a database: the map is set |
| WriteTemp, RenameTemp, UnlinkTemp | the rest of `persist` with a data directory |
| Fail, Restart | any error of a call; the end of the local process |
| OwnerEdits, Lapse, Cleanup | the target's site; `expiresAt` on the web's clock and on the database's; `cleanupExpiredDatabaseRecords` |

**`Grant`** is its abstract specification: an authorization is open, and it is given
to one request (`Give`) or closes without being given (`Close`). `Authorization` with
a database is shown to implement it.

**`Intake`** is the creation of runs by several requests, with or without one
`Idempotency-Key` of one client, in both deployments. A request is a record with its
position in `POST`; the consumption of an authorization is a step of `Grant`, so that
nothing else of `Authorization` is needed here (and nothing is assumed of it without a
database).

| Actions | Code |
|---|---|
| Insert, Select, DeleteLapsed | the statements of `reserveDistributedIdempotency`, with its retry |
| ReserveInMap | `reserveRunIdempotency` without a database, one step |
| ServeFixture, ServePassive, ServeActive | the three branches of `POST`: early returns, errors, `createFixtureRun`, `createExternalRun`, `consumeAuthorization` and `createAuthorizedA2ARun` |
| Finalize, Abandon | `finalizeRunIdempotency`; `abandonRunIdempotency` in the catch block |
| StatementFails, Crash, InsertUnacknowledged, ConsumeUnacknowledged, FinalizeUnacknowledged | a failed statement, the end of the process, three commits whose answers are lost |
| KeyLapses, Cleanup, Restart, AuthorizationExpires | 24 hours; `cleanupExpiredDatabaseRecords`; the end of the local process; the end of the authorization |

**`KeyRegistry`** is `agenttrial_signing_keys`, the signers that write it on every poll,
and the operators who rotate seeds and revoke keys as
`docs/runbooks/signing-key-rotation.md` tells them. Whether a rotation is rolling (a new
signer before the old one stops) is chosen in the initial state.

| Actions | Code |
|---|---|
| Start, Stop | a signer process, with the seed of its environment |
| Register | the transaction of `registerSigningKey`, which demotes the key in use |
| PollAgain, Sign | `processNextSigningJob` finds nothing, or signs with `issuedAt` |
| Isolate, Revoke | the runbook's two steps; `revokeSigningKey` (`pnpm signing-key:revoke`) |
| Tick | time |

`TrustedNow` is `trustedPublicKeysAt`.

**`Attestation`** is `eas-attest.mjs` on the receipt of one run, by several operators with
wallets and environments of their own. The row and the list of broadcast transactions
are shared; each invocation has its position and the transaction it follows.

| Actions | Code |
|---|---|
| Begin | `beginAttestation`, and whether its answer is an end, a resumption or a broadcast |
| Broadcast, Record | `eas.attest`; `recordAttestationSubmitted` |
| Lookup, Wait, Read | `getTransaction`, `wait`, `getAttestation` with its two verifications |
| Confirm, Fail | `confirmAttestation`; `failAttestation` in the catch block |
| CallFails, BroadcastUnacknowledged, ConfirmUnacknowledged, Dies | failed calls, lost answers, the end of the process |
| Settle | the chain mines, reverts or drops a transaction |

**`ReceiptTrust`** composes the two: what stands behind a receipt once it is signed.

**`Egress`** is `safePublicFetch` and `safeAuthorizedA2ASend`: pure functions of what the
network does, a `Hop` for each request. `Fetches` is the set of results of every path of
redirects that the limits allow.

**`Scoring`** is `calculateScore` in tenths, **`Evidence`** the chain of events, the evidence
root, the receipt and the twelve checks of `verifyBundle` in their order. A hash is
what was hashed, with its purpose.

**`LocalTrial`** is a trial of an external target in one process: executor, snapshots and
cancellation. It takes its scripts' entries from `Pipeline` and its I/O from `Egress`.

| Actions | Code |
|---|---|
| Publish, EnsureActive | what `executeExternalRun` and `executeAuthorizedExternalRun` emit between two awaits; `ensureActive` |
| Fetched, Sent, Complete | `safePublicFetch` (of pages and Agent Card), `safeAuthorizedA2ASend`, the report to the receipt |
| WriteFile | one link of `localWrites` |
| CancelRead, CancelCopy, CancelLive | `cancelRunAuthorized` on the parsed snapshot, or on the executor's run |
| Restart | the end of the process |

**`LiveView`** adds the page and its stream: Load, Connect, Deliver, Disconnected, Backoff
(`live-run.tsx`); Push, PushFails, Expire (`events/route.ts`); WindowReset
(`consumeRateLimit`'s window).

**`LocalService`** composes `LocalTrial`, `LiveView` and `Evidence` into one behaviour from
the trial's creation to its verification: ProcessEnds is Restart with its effect on
streams, and Verify is what a reader's verifier says of the bundle, as it is or
changed (`Change`) and with the receipt kept, rewritten or signed anew (`Issuer`).

Theorems are in **`FencedLeaseProofs`**, **`DurableTrialProofs`**, **`DurableReceiptProofs`**,
**`AuthorizationProofs`**, **`IntakeProofs`**, **`ReceiptTrustProofs`** (with those of `KeyRegistry`
and `Attestation`), **`FoldProofs`** and **`LocalServiceProofs`** (with those of `LocalTrial`,
`LiveView`, `Egress`, `Scoring` and `Evidence`); instances for TLC in the modules whose names begin with `MC`.

### What is abstracted

* A claim increments `attempts` and draws a random UUID in one UPDATE, so the
  attempt number stands for the token; UUID collisions are ignored.
* The clock is the Boolean `live`, `locked_until > now()`. A successful renewal
  leaves the row as it is: `Renew` of `FencedLease` says when one may succeed, and in
  `DurableTrial` it is a stutter. Expiry can happen at any moment to a holder named in
  `Stalls`, and to a dead holder always.
* A run snapshot is what statements and processes read of it: state, revision,
  `cancelled`, whether it carries the unsigned report or a bundle. The events of
  one segment add one to the revision where the code adds one for each.
* Each SQL statement is one step, with the row it sees being the row it writes, but for
  a save that waits. `saveRun` under a lease and `saveSignedRun` ask for the job with an
  `EXISTS` that does not depend on the run row, and `cancelRunDurably` holds that row
  (`FOR UPDATE`) through four statements. A save that begins meanwhile answers the
  `EXISTS` on its own snapshot, waits, and under READ COMMITTED re-checks the run row
  alone. `Cancel` therefore puts any set of the saves that would pass their fence into
  `waiting`; such a save passes it later whatever became of the job (`Passes`,
  `Fenced`), and is tested against the revision of the row it finds.
  The other statements that write the run row are transactions of one statement;
  saves that wait for those are not modelled, nor is a lease that runs out and is taken over
  during the cancellation's own transaction. `Waits` says whose saves may wait.
* What a target answers is a free choice between going on and throwing.
* With a database `persist` keeps a record in the process's map too, which `load` does
  not read there; `memory` holds it, and no property but the types is about it.
* An authorization record is its status. A wrong token, a proof that does not match
  and a failed fetch are one outcome, a refusal. Without a database the code between
  two awaits is one step, so that only real awaits can interleave. One write of the
  temporary file is one step.
* Keys do not meet, so one key of one client is enough. A run is named by the request
  that created it, and the body of a request by its kind, so two requests of a kind
  are retries of each other. Limits, unsafe targets and refused tokens are free
  choices.
* No request that holds a reservation lasts 24 hours: `KeyLapses` needs `Holders = {}`.
  `life` counts the lives of the key; a local restart, which loses the map, starts
  another.
* One clock serves the database's `now()` and the signer's `issuedAt`: a skew between
  them is not modelled. Within the clock's unit, registering and signing may
  coincide. There is one signer for each seed.
* The receipt that is attested is fixed, so its binding hash is what else it covers:
  schema and report URI. A transaction and the UID the contract draws are its place
  among those broadcast. A chain that loses a mined transaction is not modelled.
* In `ReceiptTrust` the registry rests while operators attest: the two parts share the
  receipt and nothing else, so an interleaving is a behaviour of each with stutters.
* Egress counts time in units of three seconds and bytes in halves of the largest body;
  a body is whether what the caller looks for is in it, a card what is decided on it.
  `LocalTrial` takes whatever `Egress` may return, and a fetch is one step of the
  executor: the I/O shares no state.
* Canonical JSON is taken to be injective and SHA-256 free of collisions; nobody signs
  with a key that is not theirs. An assertion is whether it holds.
* A snapshot is a step when it reaches the file. `MaxPending` bounds the snapshots that
  wait while the executor goes on.
* The page receives at once all that has arrived. The events between two awaits are one
  entry of the log.
* `writer`, `signedBy`, `acked`, `proved`, `late`, `causes`, `created` and the `life` of a
  request are history: no guard reads them. `faults` and the `life` of a key occur in
  guards only as their own bounds.

## Runs

Every configuration disables the deadlock check: a finished trial has nothing
left to do, nor has an answered request, and the bound on faults ends the rest.

| Run | Instance | What it shows |
|---|---|---|
| `fenced_lease` | 3 processes, 3 attempts | the promise itself is consistent: exclusion, permanent loss in spite of renewals, and every queued row settles |
| `worker_signs` | 2 workers that may stall and whose saves may wait, 1 fault, workers sign | types; one executor; attempts write in order; the stored log never gets shorter; a cancellation acknowledged after queueing is never followed by a receipt; `agenttrial_jobs` implements `FencedLease` |
| `separated_signer` | 2 workers that keep their leases, 2 signers that may stall, saves of both may wait, 1 fault | one signer; never signed and unsigned at once; signing attempts write in order and not after the job completed or failed; once a cancellation closed the signing job only a save that was waiting for it can bring a receipt; `agenttrial_signing_jobs` implements `FencedLease` |
| `trial_settles` | 2 workers, 1 signer whose saves may wait, 3 faults, fair | every queued job settles through three faults, enough to exhaust its attempts; without a fault every trial comes to a terminal state its readers see and stays in one |
| `cancel_then_receipt` | separated, no fault, `executeRun` | *violated*: see the findings |
| `retry_loses_lease` | a stall, no fault, `executeAuthorizedExternalRun` | *violated* |
| `completed_reopens` | separated, 1 fault, `executeExternalRun` | *violated* |
| `authorization` | 4 calls of either kind, every deployment | with a database: consumed once, not after it lapsed; in every deployment: used only after its proof was seen; with a database it implements `Grant` |
| `authorization_local` | 4 calls, one process without a database | *violated* |
| `intake` | 3 requests of any kind, keyed or not, both deployments, 1 fault, 1 lapse, fair | requests under one key are told of one run, and one of them gets its capability; a replay is of a run that exists and was asked for; runs are not created twice; a pending key has a creator; every request is answered |
| `receipt_trust` | 2 keys, rolling rotations or not, clock to 3, 2 receipts; then 2 operators, 2 wallets, 2 environments, 3 broadcasts, 2 faults | trust in a receipt lasts until its key is revoked; without rolling rotations every receipt is trusted; a revocation is final; an anchored row names what is on the chain and is final; every rebroadcast has a cause |
| `local_trial` | passive in memory and in a directory, authorized in memory; a cancellation, a restart, 1 fault of the stream, streams limited to 1 for each window, fair | a cancellation that reached the run stops it; fetches stay in their bounds; the report says what happened; the page shows the log once, in order and to its end; the verifier accepts what the evaluator signed and names what was changed |

The split follows the code's deployments, and each property is stated for the
deployment in which it is a promise. `CancelPreventsReceipt`, `AttemptOrder` and
`RevisionMonotone` belong to workers that sign for themselves, where every write
of a worker goes through the fence; with a separate signer the unfenced hand-off
breaks the first of them (a finding). `RevisionMonotone` is about the length of the log
alone: a retry whose log has become as long replaces the events of the abandoned attempt,
which a reader may have seen. `UnsignedOrSigned` and `SigningCancelIsFinal`
are checked with workers that keep their leases, because a worker that lost its
lease can still hand off.

**Bounds.** Two workers are enough for a stale holder beside a current one; with
three attempts (the literal of the claim statements) a process can be superseded
and supersede again. `MaxFaults` counts crashes and failed statements; stalls are
not counted, so leases may expire up to the retry budget in every behaviour. The
passing runs use `MCScript` (an event, a check, an event, the end), because each
further segment only adds checkpoints of the same kind to the chain; the violated
runs use the scripts of the real executors, so that each trace is one of the code.
Saves may wait in the two safety runs, in any combination; `worker_signs` has 2,529,140
distinct states and `separated_signer` 866,019. In `trial_settles` the saves of the signer may
wait and those of the workers may not, because a trial whose worker's save waited may never
end (see below). The violated runs set `Waits` to `{}`: they need no save that waits.
Workers are interchangeable in the specification and so are signers, and symmetry
is used in the safety runs only.

**Fairness.** `FairSpec` assumes what the processes' loops provide: an idle worker or
signer polls again (`apps/worker`, `apps/signer`), a process that has begun a job
takes its next step, a request that was sent is answered, and the lease of a dead
holder runs out because time passes. No fairness is assumed of users, targets,
faults or stalls. `JobSettles` is about `agenttrial_jobs` alone: nothing closes a
signing job whose three leases ran out (an open hazard), so `TrialSettles` is
claimed of behaviours without a fault.

Three requests are what it takes for two to meet the lapsed key a third left behind,
which is where the reservation's retry and its conditional `DELETE` matter. One lapse
gives the key two lives, and a fault can fall on any statement of any of the three.
`FairSpec` of `Intake` assumes that a server goes on with every request it accepted;
nothing makes a key lapse, so the retry must end without its help.

Four calls are what it takes to reopen an authorization and consume it twice: two
verifications and two consumptions. Each call is made once, so the authorization
runs need no further bound.

`receipt_trust`: two keys are enough for one to demote the other and to be demoted, with a
clock that gives a key a past, a window and a time after it. Three broadcasts are what
two causes allow, and two faults let the operator that repeats a broadcast fail as well.
Symmetry is used: neither module tells keys, operators, wallets or bindings apart. The
run has 487,219 distinct states.

`local_trial`: the ten `Hop`s of `MCLocalService` are one for each way a request can go: in
time, with a slow lookup, at its deadline, refused by its status, too large, redirected
with and without a location, a forbidden URL, a name with a private address, and a socket
connected elsewhere. `MaxPending = 0`: the executor does not go on while a snapshot waits,
so a file may be behind the run by one entry, which is enough for a cancellation to find
a copy. `MaxClaims = 2` makes the limit on claims bite. The run has 299,497 distinct states.

`Fairness` of `LocalService` assumes that the executor goes on (its I/O has deadlines), that
files are written, that the browser dispatches and its timers fire, that the stream's
interval fires, and that minutes pass. That ten minutes pass (`Expire`) is assumed only of
a stream that is stuck, the one case that needs it. Nobody has to cancel or to verify, and
nothing has to fail.

Every property has a mutant in `PROJECT.json`: a plausible bug in a definition, kept
beside that definition under a *Mutant* comment, with which TLC finds the
property violated.

## What the code does and its documents do not say

1. **A receipt after a cancellation** (`cancel_then_receipt`). `enqueueSigningJob`
   updates the run with no lease, revision or state guard. A worker that passed its
   last `ensureActive` stores the unsigned report over a cancellation that was
   acknowledged and inserts a signing job the cancellation never saw.
2. **A retry that believes its lease is lost** (`retry_loses_lease`). A retry starts
   the log over from the sealed input while the row keeps the longer log of the
   first attempt. The revision guard of `saveRun` refuses the first checkpoint, and
   the worker reads the refusal as a lost lease.
3. **A completed run reopened** (`completed_reopens`). When `finishSigningJob` fails
   after `saveSignedRun` stored the receipt, the catch block writes FAILED over the
   COMPLETED run and removes the bundle.
4. **An authorization consumed twice** (`authorization_local`). Without a database
   `persist` ignores the status it expects to replace, and a verification saves the
   record it loaded before its fetches. One that is still fetching while another
   finished and the authorization was consumed sets it back to verified.

The following were met while modelling and have no run of their own, because the text they
differ from is general or because a precondition of a property excludes them.

* **A receipt that overtakes a cancellation.** The only fence of `saveSignedRun` is an
  `EXISTS` over the signing jobs. When the statement waits for the row `cancelRunDurably`
  holds, it keeps what it found on its older snapshot: COMPLETED and the receipt are stored
  after the cancellation was acknowledged and has closed the signing job. The model does
  this; `SigningCancelIsFinal` says that no other receipt can still appear.
* **A cancelled run overwritten.** `saveRun` under a lease waits and keeps its `EXISTS` in the
  same way, and its revision guard admits a log as long as the cancelled one. Such a
  checkpoint lands over CANCELLED, the job is closed, and the run never ends. With workers
  that sign for themselves no receipt can follow (`CancelPreventsReceipt`): before a
  bundle is saved a COMPLETED checkpoint has landed, and that state refuses a cancellation.
* **A completed run that fails.** `failExhaustedJobs` writes FAILED over the run of every
  exhausted job. The third holder may have stored COMPLETED and the receipt, and lost its
  lease before it finished the job: the run becomes FAILED with its receipt. The
  model does this too, with no fault, in some thirty steps.
* **Revocation.** A running signer whose key is revoked makes it active again on its next
  poll (`registerSigningKey` does not look at the status), while
  `scripts/revoke-signing-key.mts` asks to confirm an "irreversible trust action".
  `RevocationIsFinal` is stated for the order of the runbook, in which the signer is
  isolated first, and it is proved of it.
* **Rolling rotation.** A new signer closes the window of the old one, which may still sign:
  its receipts are dated after the window and are not trusted unless it polls again.
  `IssuedIsTrusted` excludes such rotations; `TrustIsStable` does not.
* **Attestation.** `docs/deployment.md:66` calls the workflow idempotent. It resumes a
  submitted transaction, but an operator that dies between broadcasting and recording, one
  whose invocation failed, and two that overlap broadcast again. A refused invocation with
  another report URI marks the row of the one at work as failed. `RebroadcastHasCause`
  says that there is no other way.
* **Cancellation with a data directory.** `cancelRunAuthorized` loads a copy of the run from
  its snapshot and marks that; the executor never sees it, goes on sending, and may store
  a receipt after the page said that none was issued. `CancelStopsTheTrial` is about a
  cancellation that reached the run; `Split` excludes the two histories from
  `ViewFollowsTheLog`. In memory the mark reaches the executor, but `ensureActive` reads it for
  the last time before the last message: a trial cancelled after that completes with a
  receipt, which is why `CancelStopsTheTrial` allows one then, while
  `components/live-run.tsx:167` says of a cancelled run "No receipt was issued."
* **Restart without a database.** The key's registration is dated by the process, so receipts
  signed before a restart are not trusted afterwards unless the reader pinned the key.

Two more things are excluded by a property's precondition rather than shown by a run,
because `docs/api.md` speaks only of retries of a request that was given its run. The early returns of `POST` (429 for the
target's limit, 401 without a token) leave the reservation behind: the same key answers
"still being created" until it lapses a day later (`PendingIsBeingCreated` excludes
them). When finalizing fails, the run exists and its key is abandoned, so a retry
creates a second run (`OneRun` excludes failed statements; `OneAnswer` says what holds
all the same).

## What is proved

The theorems hold for any sets of workers and signers, any retry budget, any
script and any number of faults, from the named assumptions on the constants
(`FencedLeaseAssumption`, `DurableTrialAssumption`, `AuthorizationAssumption`, `IntakeAssumption`,
`KeyRegistryAssumption`, `AttestationAssumption`, `EgressAssumption`, `LocalTrialAssumption`: the
numbers are naturals, the switches Booleans, the script a sequence of states and
checks, the deployments among those of the code, what a request may meet among `Hop`, what a
discovery may find sequences of names).

`FencedLeaseProofs`: `TypeCorrect`, `TokensDistinct`, `MutualExclusion`,
`LossIsPermanent`, `SettlementIsFinal`. The invariant is that every token in a
process's memory is at most `attempts`, and no two processes hold the same token. Exclusion
follows since the fence compares with `attempts`, permanence since a claim is
the only step that makes a row live again, as a renewal needs it live, and a claim draws a
token nobody has.

`DurableTrialProofs`: the inductive invariant is
`IInv == TypeOK /\ WorkerTokens /\ SignerTokens /\ NotYetQueued`. `TypeOK` alone does
not do: that a claim needs an idle process with no token (`WorkerTokens`,
`SignerTokens`) and that `enqueueRun` meets no job row (`NotYetQueued`) are needed to
see claims as claims and the insertion as an insertion of `FencedLease`.
From it:

* `TypeCorrect`, and `JobTableImplements`, `SigningTableImplements`: each of the many
  steps of `DurableTrial` is one of the steps of `FencedLease` on that table or
  leaves it alone.
* `ExecutorIsUnique`, `SignerIsUnique`: inherited from `MutualExclusion` through the
  refinement, so the two tables share one argument.
* `AttemptsInOrder`: with workers that sign for themselves, the last writer's
  attempt is at most `attempts`, and whoever passes the fence holds the greatest.
* `SignaturesInOrder`: the same for signers, and a signing job that completed or failed
  admits no write.
* In both, a save may pass its fence because it waits. `WaitsClosed` says that it then
  belongs to the holder of the last attempt of a cancelled job, which nobody claims again,
  so no later attempt can have written before it.

`DurableReceiptProofs` is about the stored run. Every step of a worker is first reduced to
what it makes of the worker's copy and of its queued saves (`WorkerTurns`); that tokens
differ comes from the refinement (`TokensInvariance`).

* `LogOnlyGrows`, where workers sign for themselves: there is no signing job (`NoSigning`), so
  every write of a worker passes the revision guard, which a save that waited meets on the
  cancelled row.
* `NoReceiptAfterCancel`, where workers sign for themselves. The invariant `ReceiptInv` says
  that a stored bundle goes with a terminal state, which a cancellation refuses (`Sound`);
  that this holds of whatever the current attempt may still save (`CurrentFit`), since a
  first attempt loads the run before anyone can have signed it (`LoadedFirst`); and that a
  late cancellation leaves a closed job and no bundle (`CancelCloses`). Attempts other than
  the current one may hold anything: the fence stops them. A save that waits for the
  cancellation is of the current attempt and would pass; but a bundle is saved only after
  a terminal state without one (`AllAnnounced`), so while the row can still be cancelled
  the save that waits has none (`WaitsHarmless`).
* `NeverSignedAndPending` and `NoReceiptAfterSigningCancel`, with signers, where workers keep
  their leases. Whoever is at work then made the latest attempt, and nobody is while a
  claim would succeed (`OneAtWork`). So the loader of a first attempt is gone once
  a signing job exists (`SigningFollows`), no worker ever has a bundle (`Plain`), and signers
  write through the fence of the signing table alone. Once a cancellation has closed that
  table's row, the signers that still write are those in `waiting`, and what they write is
  their own copy of the run. A worker that stalls breaks `OneAtWork`, and both
  properties with it.

`AuthorizationProofs`, for any number of calls and in every deployment: `TypeCorrect`,
`OneRun`, `ProvedBeforeUse`, `NothingAfterLapse`, `ImplementsGrant`. The inductive invariant
`IInv` adds to the types what a call may hold (`GoodCall`: it saves only what its kind
may save, is answered only with what it saved, and steps through files only with a data
directory), that the proof was seen wherever a store says so (`StoresBacked`), and
that a consumed authorization leaves a row no call expects (`Spent`). `OneRun` needs
`Spent`: that no two calls were given the authorization says nothing of what a third,
which loaded it earlier, will find.

`IntakeProofs`, for any number of requests, faults and lives of the key: `TypeCorrect`,
`OneAnswerPerKey`, `FaithfulReplay`, `RunsAreOne`, `PendingHasCreator`. The invariant `IInv` adds to the
properties who may speak for the key: a request that holds the reservation is alone and
finds its own record there (`Owns`), the run a key names was created for what the key
stands for (`Recorded`), whoever was told of a run in this life of the key was told of
the one it names (`ToldNow`), no request is of a life that has not begun (`LivesBegun`),
only requests with the key reserve (`KeyedOnly`), and unless something failed a run
created in this life has its creator finalizing or its name in the key (`CreatedNow`).
`OneRun` for active evaluations comes from `Grant` alone. `PendingHasCreator` rests on a
second invariant beside `IInv`: while nothing failed and nobody returned early, a pending key has a
holder (`Held`), and only those who are done have a status (`Answered`); `Owns` says what the holder is.

`ReceiptTrustProofs` first proves the two components. `KeyRegistry`, for any set of keys, any length of time and any number of receipts:
`RegistryTypeCorrect`, `EveryReceiptIsTrusted`, `TrustLasts`, `RevokedForGood`. The invariant
`RegistryInv` says that the window of a key in use is open (`RowsDated`), that a receipt is
dated after its key's window began (`ReceiptsDated`), that nobody holds a rotated
seed and only such keys are revoked (`RotatedOut`), and that without rolling rotations
there is one signer, whose key is the active one once it has registered (`OneSigner`,
`RegisteredRow`). `TrustLasts` needs the first two only: a demotion closes a window now,
after every receipt, and a registration reopens it without moving its beginning.

`Attestation`, for any number of operators, wallets, environments, broadcasts and
faults: `AttestationTypeCorrect`, `AnchoredMeansMined`, `AnchoredForGood`,
`NoIdleRebroadcast`. The invariant is `Good /\ Counted`. `Good` says that an invocation
under way agrees with the row on what is attested, follows a transaction that exists, and
confirms one that is mined. `Counted` counts the transactions together with the
invocations about to broadcast: they exceed the causes by one at most, and not at all
when nobody is at work and the next invocation would broadcast. The cardinality of that set
is handled with `FiniteSetTheorems`; that it is finite is part of the invariant, so that the
set of operators need not be.

`ReceiptTrust`: `TrustComposed` and `AnchoringComposed`. The composition implements
each component, which keeps its promises there.

`FoldProofs` is induction along a sequence. The induction theorems of the library take a
predicate, which the provers cannot instantiate; `NatSetInduction` takes a set of
naturals instead and follows from the well-foundedness of `<` (`WFMin`). From it: the recursive
function that the library defines `FoldLeft` by exists (`FoldExists`), is determined on every
prefix (`FoldsAgree`), and so takes one more element at each step (`FoldNext`) and keeps what
each element keeps (`FoldInduction`). The loop's body is a constant operator of the module,
and the module is instantiated for each loop: the messages a page receives, the hops of a
fetch, the events of a chain, the layers of the tree.

`LocalServiceProofs`, for any set of hops, any discovery, any limits, bounds and
deployments among those of the code. All five invariants of `local_trial` are proved.

* `CancellationStops`. The invariant `TrialInv` counts from the place where the executor was when it
  was cancelled (`Unchecked`): what it has executed since is no check, and the late message, if
  there is one, is among it. Since the authorized script has a check between its two
  messages, a second late message is impossible; since a receipt leaves the
  executor at the end of its script, no check can have been ahead of it. `SnapshotsGood` and
  `LogEnds` say what a copy of the run may be and that the log ends once.
* `ViewIsFaithful`. A page shows a part of the log; that is not inductive, because what reaches it
  comes from streams that start anew and from snapshots that lag behind. `ViewInv` adds that every
  snapshot, served or waiting to be written, is a part of the log (`SnapshotsFollow`), and that
  no message on its way skips an event that is neither shown nor before it on its way
  (`MessagesFollow`). `PageFollows` relates the cursor of the stream to both. A cancellation
  that splits the history (`Split`) ends all of this, and stays.
* `FetchesAreBounded`, from `FetchIsBounded`, which is about every fetch with any limits: by induction
  along the hops, a call that may go on has made no more requests than redirects are allowed,
  within its bytes and its deadline but for the last lookup (`BoundedCalls`). The limits
  are part of the call's record, as `FoldLeft` takes an operator with two arguments.
* `ReportIsTruthful`. The score of a passive trial is computed from an empty set of tested claims and
  from assertions none of which is about capability; that of an authorized one from a set of assertions
  of which exactly one is, with its weight. `WeightOfOne` is a sum over a set, by the
  equation `MapThenSumSet` is defined by. The invariant needed is that a receipt goes with a discovery
  the code could have made (`OutcomeInv`), so that its claims are finitely many.
* `VerifierIsTruthful`. Whatever trial the bundle is of, its chain is intact (`ChainsAreIntact`) and
  its receipt is its own, so a bundle signed as it is verifies if it does not contradict itself
  (`SignedIsValid`). For each change and each issuer (`VerdictIs`), the checks that fail are the ones that
  compare the part changed, and the first of them is the one named. A complete run has two entries in
  its log at least (`SignedIsComplete`, from `TrialInv`), so that dropping its last event leaves a chain.
* What the verifier rests on, for any bundle and not only those of the model: `RootBindsItems`,
  `HeadBindsEvents` and `ReceiptBindsBundle`. The Merkle root determines the evidence however
  many items there are, by induction up the layers, because its preimage has their number and a layer's
  parents determine it once its length is known (the absent sibling of an odd node is harmless for that
  reason alone); the head determines the chain; so two bundles that verify under one
  receipt are one. All three rest on hashes being injective, which is an abstraction of
  `Evidence` and not a theorem.

Two definitions were put into a form that the provers can expand, with no change of meaning:
records written out where `@@` joined them, and one layer of the tree as an operator of its own
(`Climbed`). The changed root of a bundle (`Changed`) is the root of no evidence, a root
that someone could really have put there.

Only model-checked: the liveness properties (`Settles`, `JobSettles`, `TrialSettles`,
`EveryPostAnswered`, `ViewerSettles`), which need `ENABLED` and are beyond this prover. Every
invariant and every action property of a passing run is stated by a theorem.

## Plan

Done: the modules above and their theorems.

Next to prove: what `Authorization` without a database keeps (one answer for each call, and how
often it can be consumed); that `DurableTrial` with a separate signer keeps the stored log in
order but for the hand-off.

Next to model: the capacity of the queue in `DurableTrial` (two transactions at its
limit); a FAILED run that comes back to life through a late save; saves that wait for
another writer than the cancellation; a stream whose run is a row that other processes write.

## Not modelled

The planner and the fixtures (constant data), the research tooling (floating-point
statistics over recorded trials, and a bundle format of its own), web pages other than the
live view and the verifier (presentation), operations scripts (backups, tunnels,
recordings). They keep no protocol state.

Of the parts that are modelled, left out are:

* attestation from a file, which keeps no row, and `eas-register.mjs`, which registers the
  schema once;
* in local mode: fixtures, the pruning of terminal runs from memory (a page that reconnects to a
  pruned run reconnects until it is closed) and the removal of old snapshots, a snapshot that cannot be
  written, a wrong cancellation token, and what the page sets itself at its own cancel button;
* the rate-limit window shared through PostgreSQL, and the limits before a reservation;
* `validatePendingReport`'s content, which is a free choice between valid and invalid;
* in the bundle: the legacy methodology, malformed fields, and attachments that are not
  anchored, which no check of `verifyBundle` covers; the user's own claim is dropped by the code when
  discovery already found as many as a report may have, which `PassiveClaims` shows;
* the parsing of Agent Cards, pages and responses, beyond what is decided on them;
* latency assertions that could fail: an answer within the deadlines is within the
  latency that is asserted.
