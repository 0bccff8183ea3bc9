----------------------------- MODULE Attestation -----------------------------
(***************************************************************************)
(* scripts/eas-attest.mjs: operators anchor the signed receipt of one run  *)
(* on Base Sepolia, each with the schema and the report URI of its         *)
(* environment and its wallet.  The row of agenttrial_attestations holds   *)
(* what they have done; a retry resumes from it.                           *)
(*                                                                         *)
(* The receipt is fixed, so its binding hash is represented by what else   *)
(* it covers, the Binding.  A transaction is represented by its place in   *)
(* the list of those broadcast, and so is the UID the contract draws.      *)
(***************************************************************************)
EXTENDS Integers, Sequences

CONSTANTS
    Operator,
    Wallet,
    Binding,        \* schema and report URI
    MaxBroadcasts,  \* bound of the transactions
    MaxFaults       \* bound of the calls that fail and the operators that die

ASSUME AttestationAssumption == MaxBroadcasts \in Nat /\ MaxFaults \in Nat

VARIABLES
    row,        \* of agenttrial_attestations
    chain,      \* the transactions broadcast
    operator,   \* the invocation each operator is in
    faults,
    causes      \* history: what makes a second broadcast understandable

attestationVars == <<row, chain, operator, faults, causes>>

None == "none"
Tx == 1..MaxBroadcasts

Row == [status : {None, "pending", "submitted", "anchored", "failed"},
        binding : Binding \cup {None}, tx : Tx \cup {0}, uid : Tx \cup {0}]

Transaction == [binding : Binding, from : Wallet,
                state : {"pool", "mined", "reverted", "dropped"}]

Invocation == [pc : {"idle", "broadcast", "record", "lookup", "wait", "read",
                     "confirm", "fail"},
               binding : Binding \cup {None}, wallet : Wallet \cup {None},
               tx : Tx \cup {0}]

NotRunning == [pc |-> "idle", binding |-> None, wallet |-> None, tx |-> 0]

AttestationTypeOK ==
    /\ row \in Row
    /\ chain \in Seq(Transaction) /\ Len(chain) <= MaxBroadcasts
    /\ operator \in [Operator -> Invocation]
    /\ faults \in 0..MaxFaults
    /\ causes \in 0..MaxBroadcasts

AttestationInit ==
    /\ row = [status |-> None, binding |-> None, tx |-> 0, uid |-> 0]
    /\ chain = <<>>
    /\ operator = [o \in Operator |-> NotRunning]
    /\ faults = 0
    /\ causes = 0

\* More causes than transactions are not worth counting.
Cause == causes' = IF causes < MaxBroadcasts THEN causes + 1 ELSE causes

Goto(o, pc) == operator' = [operator EXCEPT ![o].pc = pc]
Ends(o) == operator' = [operator EXCEPT ![o] = NotRunning]

-----------------------------------------------------------------------------
\* One invocation

\* Mutant: the upsert forgets that the row may have been submitted.
RestartedUnlessAnchored(status) == IF status = "anchored" THEN status ELSE "pending"

\* ON CONFLICT (run_id) DO UPDATE SET status
Restarted(status) == IF status \in {"anchored", "submitted"} THEN status ELSE "pending"

\* Mutant: the upsert does not compare the payload hash.
SamePayloadUnchecked(b) == TRUE

SamePayload(b) == row.status = None \/ row.binding = b

\* beginAttestation, and where its answer leads.  A refusal goes to the catch
\* block of the script, like every other error below.
Begin(o, b, w) ==
    /\ operator[o].pc = "idle"
    /\ \/ /\ ~SamePayload(b)
          /\ operator' = [operator EXCEPT ![o] =
                 [NotRunning EXCEPT !.pc = "fail", !.binding = b, !.wallet = w]]
          /\ UNCHANGED row
       \/ LET status == IF row.status = None THEN "pending" ELSE Restarted(row.status)
              resumes == status = "submitted" /\ row.tx # 0
          IN /\ SamePayload(b)
             /\ row' = [row EXCEPT !.status = status,
                                   !.binding = IF @ = None THEN b ELSE @]
             /\ operator' = [operator EXCEPT ![o] =
                    IF status = "anchored" THEN NotRunning
                    ELSE [pc |-> IF resumes THEN "lookup" ELSE "broadcast",
                          binding |-> b, wallet |-> w,
                          tx |-> IF resumes THEN row.tx ELSE 0]]
    /\ IF \E p \in Operator \ {o} : operator[p].pc # "idle" THEN Cause
                                                           ELSE UNCHANGED causes
    /\ UNCHANGED <<chain, faults>>

Sent(o) ==
    /\ Len(chain) < MaxBroadcasts
    /\ chain' = Append(chain, [binding |-> operator[o].binding,
                               from |-> operator[o].wallet, state |-> "pool"])

Broadcast(o) ==
    /\ operator[o].pc = "broadcast"
    /\ Sent(o)
    /\ operator' = [operator EXCEPT ![o].pc = "record", ![o].tx = Len(chain) + 1]
    /\ UNCHANGED <<row, faults, causes>>

\* recordAttestationSubmitted
Record(o) ==
    /\ operator[o].pc = "record"
    /\ row' = IF row.status = "anchored" THEN row
              ELSE [row EXCEPT !.status = "submitted", !.tx = operator[o].tx]
    /\ Goto(o, "wait")
    /\ UNCHANGED <<chain, faults, causes>>

\* getTransaction: a transaction evicted from the pool is not found.
Lookup(o) ==
    /\ operator[o].pc = "lookup"
    /\ Goto(o, IF chain[operator[o].tx].state = "dropped" THEN "fail" ELSE "wait")
    /\ UNCHANGED <<row, chain, faults, causes>>

\* transaction.wait: it throws on a revert, and waits for ever on an eviction.
Wait(o) ==
    /\ operator[o].pc = "wait"
    /\ \/ chain[operator[o].tx].state = "mined" /\ Goto(o, "read")
       \/ chain[operator[o].tx].state = "reverted" /\ Goto(o, "fail")
    /\ UNCHANGED <<row, chain, faults, causes>>

\* verifyAttestationRecord and verifyAttestationPayload, on what the contract
\* holds under this UID.
Matches(uid, b, w) ==
    /\ uid \in DOMAIN chain
    /\ chain[uid].state = "mined" /\ chain[uid].binding = b /\ chain[uid].from = w

\* eas-verify.mjs, whoever the attestor is.
Verifiable(uid, b) == \E w \in Wallet : Matches(uid, b, w)

\* getAttestation
Read(o) ==
    /\ operator[o].pc = "read"
    /\ Goto(o, IF Matches(operator[o].tx, operator[o].binding, operator[o].wallet)
               THEN "confirm" ELSE "fail")
    /\ UNCHANGED <<row, chain, faults, causes>>

Confirmable == row.status \in {"pending", "submitted"}

Anchored(o) ==
    [row EXCEPT !.status = "anchored", !.uid = operator[o].tx, !.tx = operator[o].tx]

\* confirmAttestation
Confirm(o) ==
    /\ operator[o].pc = "confirm"
    /\ \/ Confirmable /\ row' = Anchored(o) /\ Ends(o)
       \/ ~Confirmable /\ Goto(o, "fail") /\ UNCHANGED row
    /\ UNCHANGED <<chain, faults, causes>>

\* Mutant: failAttestation forgets status <> 'anchored'.
FailAnyway(o) ==
    /\ operator[o].pc = "fail"
    /\ row' = [row EXCEPT !.status = "failed"]
    /\ Ends(o)
    /\ Cause
    /\ UNCHANGED <<chain, faults>>

\* failAttestation, in the catch block: an UPDATE, so of no effect without a row.
Fail(o) ==
    /\ operator[o].pc = "fail"
    /\ row' = IF row.status \in {None, "anchored"} THEN row
              ELSE [row EXCEPT !.status = "failed"]
    /\ Ends(o)
    /\ Cause
    /\ UNCHANGED <<chain, faults>>

-----------------------------------------------------------------------------
\* Faults

Fault == faults < MaxFaults /\ faults' = faults + 1

\* A call to the node or to the database throws, without having had an effect.
CallFails(o) ==
    /\ Fault
    /\ operator[o].pc \notin {"idle", "fail"}
    /\ Goto(o, "fail")
    /\ UNCHANGED <<row, chain, causes>>

\* The node accepts the transaction and its answer is lost.
BroadcastUnacknowledged(o) ==
    /\ Fault
    /\ operator[o].pc = "broadcast"
    /\ Sent(o)
    /\ Goto(o, "fail")
    /\ UNCHANGED <<row, causes>>

\* The database commits and its answer is lost.
ConfirmUnacknowledged(o) ==
    /\ Fault
    /\ operator[o].pc = "confirm" /\ Confirmable
    /\ row' = Anchored(o)
    /\ Goto(o, "fail")
    /\ UNCHANGED <<chain, causes>>

\* The operator's process ends: before Record it loses the transaction, in the
\* catch block the retry may too.
Dies(o) ==
    /\ Fault
    /\ operator[o].pc # "idle"
    /\ Ends(o)
    /\ IF operator[o].pc \in {"record", "fail"} THEN Cause ELSE UNCHANGED causes
    /\ UNCHANGED <<row, chain>>

-----------------------------------------------------------------------------
\* Base Sepolia

Settle(t) ==
    /\ chain[t].state = "pool"
    /\ \E s \in {"mined", "reverted", "dropped"} : chain' = [chain EXCEPT ![t].state = s]
    /\ UNCHANGED <<row, operator, faults, causes>>

AttestationNext ==
    \/ \E o \in Operator : \E b \in Binding, w \in Wallet : Begin(o, b, w)
    \/ \E o \in Operator : Broadcast(o) \/ Record(o) \/ Lookup(o) \/ Wait(o) \/ Read(o)
                             \/ Confirm(o) \/ Fail(o)
    \/ \E o \in Operator : CallFails(o) \/ BroadcastUnacknowledged(o)
                             \/ ConfirmUnacknowledged(o) \/ Dies(o)
    \/ \E t \in DOMAIN chain : Settle(t)

AttestationSpec == AttestationInit /\ [][AttestationNext]_attestationVars

-----------------------------------------------------------------------------
\* PROPERTIES

\* A run shown as anchored names a mined attestation of its own schema and
\* report URI, whichever operators, resuming or overlapping, took part: what
\* eas-verify.mjs would find.
AnchoredIsOnChain ==
    row.status = "anchored" => Verifiable(row.uid, row.binding) /\ row.tx = row.uid

\* An anchored row is never taken back or replaced, by an operator that failed
\* late, that retries, or that broadcast the same receipt as well.
AnchorIsFinal == [][row.status = "anchored" => row' = row]_attestationVars

\* Every broadcast after the first has a cause: an invocation that reached its
\* catch block, one that died before it recorded the transaction, or two that
\* overlapped.  Dying later costs none, because the retry resumes.
RebroadcastHasCause == Len(chain) <= 1 + causes
=============================================================================
