----------------------------- MODULE KeyRegistry -----------------------------
(***************************************************************************)
(* The registry of receipt signing keys, agenttrial_signing_keys, and the  *)
(* signers that write it: a signer registers its key on every poll, before *)
(* it claims a job.  Operators rotate seeds and revoke keys as             *)
(* docs/runbooks/signing-key-rotation.md tells them.                       *)
(*                                                                         *)
(* There is one signer for each seed, and one clock: a registered key's    *)
(* not_before is the database's now(), a receipt's issuedAt the signer's.  *)
(***************************************************************************)
EXTENDS Integers, FiniteSets

CONSTANTS
    Key,
    MaxTime,        \* bound of the clock
    MaxReceipts     \* bound of the receipts

ASSUME KeyRegistryAssumption == MaxTime \in Nat /\ MaxReceipts \in Nat

VARIABLES
    now,
    rolling,    \* operators start a new signer before they stop the old one
    registry,   \* the row of each key
    signer,     \* the signer that holds the key's seed
    rotated,    \* the seeds removed from the secret manager after a compromise
    receipts    \* what was signed

registryVars == <<now, rolling, registry, signer, rotated, receipts>>

Null == MaxTime + 1     \* not_after of a key in use: later than any receipt

KeyRow ==
    [status : {"none", "active", "previous", "revoked"},
     notBefore : 0..MaxTime,
     notAfter : 0..Null]

NoRow == [status |-> "none", notBefore |-> 0, notAfter |-> 0]

Receipt == [key : Key, issuedAt : 0..MaxTime]

RegistryTypeOK ==
    /\ now \in 0..MaxTime
    /\ rolling \in BOOLEAN
    /\ registry \in [Key -> KeyRow]
    /\ signer \in [Key -> {"off", "polling", "registered"}]
    /\ rotated \subseteq Key
    /\ receipts \subseteq Receipt

RegistryInit ==
    /\ now = 0
    /\ rolling \in BOOLEAN
    /\ registry = [k \in Key |-> NoRow]
    /\ signer = [k \in Key |-> "off"]
    /\ rotated = {}
    /\ receipts = {}

Tick ==
    /\ now < MaxTime
    /\ now' = now + 1
    /\ UNCHANGED <<rolling, registry, signer, rotated, receipts>>

-----------------------------------------------------------------------------
\* Signers

\* The seed is in the environment of one signer, which is restarted with it,
\* or of two during a rolling deployment.
Start(k) ==
    /\ signer[k] = "off" /\ k \notin rotated
    /\ rolling \/ \A j \in Key : signer[j] = "off"
    /\ signer' = [signer EXCEPT ![k] = "polling"]
    /\ UNCHANGED <<now, rolling, registry, rotated, receipts>>

Stop(k) ==
    /\ signer[k] # "off"
    /\ signer' = [signer EXCEPT ![k] = "off"]
    /\ UNCHANGED <<now, rolling, registry, rotated, receipts>>

\* Mutant: any other key is demoted, whatever its status.
DemotedAlways(row) == [row EXCEPT !.status = "previous"]

Demoted(row) ==
    IF row.status = "active"
    THEN [row EXCEPT !.status = "previous", !.notAfter = IF @ = Null THEN now ELSE @]
    ELSE row

\* Mutant: a known key begins a new window.
WindowRestarted(row) ==
    [status |-> "active", notBefore |-> now, notAfter |-> Null]

\* Mutant: a known key keeps the end of its window.
EndKept(row) ==
    IF row.status = "none"
    THEN [status |-> "active", notBefore |-> now, notAfter |-> Null]
    ELSE [row EXCEPT !.status = "active"]

Activated(row) ==
    [status |-> "active",
     notBefore |-> IF row.status = "none" THEN now ELSE row.notBefore,
     notAfter |-> Null]

\* One transaction.
Register(k) ==
    /\ signer[k] = "polling"
    /\ registry' = [j \in Key |-> IF j = k THEN Activated(registry[j])
                                           ELSE Demoted(registry[j])]
    /\ signer' = [signer EXCEPT ![k] = "registered"]
    /\ UNCHANGED <<now, rolling, rotated, receipts>>

\* The claim finds nothing.
PollAgain(k) ==
    /\ signer[k] = "registered"
    /\ signer' = [signer EXCEPT ![k] = "polling"]
    /\ UNCHANGED <<now, rolling, registry, rotated, receipts>>

Sign(k) ==
    /\ signer[k] = "registered" /\ Cardinality(receipts) < MaxReceipts
    /\ receipts' = receipts \cup {[key |-> k, issuedAt |-> now]}
    /\ signer' = [signer EXCEPT ![k] = "polling"]
    /\ UNCHANGED <<now, rolling, registry, rotated>>

-----------------------------------------------------------------------------
\* The response to a compromise

\* Isolate the signer and rotate its seed.
Isolate(k) ==
    /\ k \notin rotated
    /\ rotated' = rotated \cup {k}
    /\ signer' = [signer EXCEPT ![k] = "off"]
    /\ UNCHANGED <<now, rolling, registry, receipts>>

Revoked(row) ==
    [row EXCEPT !.status = "revoked", !.notAfter = IF @ = Null THEN now ELSE @]

\* pnpm signing-key:revoke
Revoke(k) ==
    /\ k \in rotated
    /\ registry[k].status \notin {"none", "revoked"}
    /\ registry' = [registry EXCEPT ![k] = Revoked(@)]
    /\ UNCHANGED <<now, rolling, signer, rotated, receipts>>

RegistryNext ==
    \/ Tick
    \/ \E k \in Key : Start(k) \/ Stop(k) \/ Register(k) \/ PollAgain(k) \/ Sign(k)
    \/ \E k \in Key : Isolate(k) \/ Revoke(k)

RegistrySpec == RegistryInit /\ [][RegistryNext]_registryVars

-----------------------------------------------------------------------------
\* trustedPublicKeysAt accepts the receipt's key from this row.
Trusted(row, r) ==
    /\ row.status \in {"active", "previous"}
    /\ row.notBefore <= r.issuedAt /\ r.issuedAt <= row.notAfter

TrustedNow(r) == Trusted(registry[r.key], r)

-----------------------------------------------------------------------------
\* PROPERTIES

\* A receipt a reader could trust stays trusted, through rotations, restarts
\* and demotions, until its key is revoked: the window that register closes
\* and reopens always covers it.
TrustIsStable ==
    [][\A r \in receipts : TrustedNow(r) =>
         TrustedNow(r)' \/ registry'[r.key].status = "revoked"]_registryVars

\* Where a signer is stopped before another starts, whatever key it is given,
\* every receipt is trusted unless its key was revoked.  (A rolling rotation
\* breaks it: the old signer may sign after its window was closed.)
IssuedIsTrusted ==
    ~rolling => \A r \in receipts :
        registry[r.key].status # "revoked" => TrustedNow(r)

\* A key revoked as the runbook says, its signer isolated and its seed rotated
\* first, is never accepted again, whatever the other signers register.
RevocationIsFinal ==
    [][\A k \in Key : registry[k].status = "revoked"
            => registry'[k].status = "revoked"]_registryVars
=============================================================================
