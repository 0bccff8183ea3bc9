-------------------------- MODULE ReceiptTrustProofs --------------------------
(***************************************************************************)
(* What KeyRegistry promises, for any set of keys, any length of time and  *)
(* any number of receipts; what Attestation promises, for any number of    *)
(* operators, wallets, environments, broadcasts and faults; and that       *)
(* ReceiptTrust implements the two, so that what is proved of each holds   *)
(* where one stands behind the other.                                      *)
(*                                                                         *)
(* The argument for Attestation: an invocation that is under way agrees    *)
(* with the row on what is attested, follows a transaction that exists,    *)
(* and confirms one that is mined (GoodInvocation); what was read of the   *)
(* chain stays true.  Broadcasts are counted together with the invocations *)
(* about to make one (Counted): the first is free, and a row that may be   *)
(* begun anew with nobody at work has paid for what was broadcast before.  *)
(***************************************************************************)
EXTENDS ReceiptTrust, FiniteSets, FiniteSetTheorems, TLAPS

-----------------------------------------------------------------------------
\* The registry

\* A row is dated before now, and that of a key in use is open.
RowsDated ==
    \A k \in Key :
        /\ registry[k].notBefore <= now
        /\ registry[k].status = "active" => registry[k].notAfter = Null

\* A receipt was signed under a row that existed.
ReceiptsDated ==
    \A r \in receipts :
        /\ registry[r.key].status # "none"
        /\ registry[r.key].notBefore <= r.issuedAt
        /\ r.issuedAt <= now

\* Nobody holds a rotated seed, and only such keys are revoked.
RotatedOut ==
    \A k \in Key :
        /\ k \in rotated => signer[k] = "off"
        /\ registry[k].status = "revoked" => k \in rotated

\* A signer that has registered has a row, and the active one unless another
\* may have registered since.
RegisteredRow ==
    \A k \in Key : signer[k] = "registered" =>
        /\ registry[k].status # "none"
        /\ ~rolling => registry[k].status = "active"

OneSigner ==
    ~rolling => \A j, k \in Key : signer[j] # "off" /\ signer[k] # "off" => j = k

RegistryInv ==
    /\ RegistryTypeOK
    /\ RowsDated
    /\ ReceiptsDated
    /\ RotatedOut
    /\ RegisteredRow
    /\ OneSigner
    /\ IssuedIsTrusted

-----------------------------------------------------------------------------
\* Rows

LEMMA NullIsLate == Null \in 0..Null /\ \A t \in 0..MaxTime : t < Null /\ t \in 0..Null
BY KeyRegistryAssumption DEF Null

\* Registering gives a row, which is in use and kept its beginning.
LEMMA ActivatedRow ==
    ASSUME NEW entry \in KeyRow, now \in 0..MaxTime
    PROVE  /\ Activated(entry) \in KeyRow
           /\ Activated(entry).status = "active"
           /\ Activated(entry).notAfter = Null
           /\ entry.status # "none" => Activated(entry).notBefore = entry.notBefore
           /\ entry.status = "none" => Activated(entry).notBefore = now
BY NullIsLate DEF KeyRow, Activated

\* Another's registration closes an open row now, and changes nothing else.
LEMMA DemotedRow ==
    ASSUME NEW entry \in KeyRow, now \in 0..MaxTime
    PROVE  /\ Demoted(entry) \in KeyRow
           /\ Demoted(entry).notBefore = entry.notBefore
           /\ entry.status # "active" => Demoted(entry) = entry
           /\ entry.status = "active" =>
                /\ Demoted(entry).status = "previous"
                /\ Demoted(entry).notAfter = IF entry.notAfter = Null THEN now ELSE entry.notAfter
BY NullIsLate DEF KeyRow, Demoted

\* A revocation keeps the beginning.
LEMMA RevokedRow ==
    ASSUME NEW entry \in KeyRow, now \in 0..MaxTime
    PROVE  /\ Revoked(entry) \in KeyRow
           /\ Revoked(entry).status = "revoked"
           /\ Revoked(entry).notBefore = entry.notBefore
BY NullIsLate DEF KeyRow, Revoked

-----------------------------------------------------------------------------
\* The invariant, one lemma for each kind of step

LEMMA RegistryInitInv == RegistryInit => RegistryInv
<1> SUFFICES ASSUME RegistryInit PROVE RegistryInv
  OBVIOUS
<1> USE DEF RegistryInit, NoRow
<1>1. NoRow \in KeyRow
  BY NullIsLate, KeyRegistryAssumption DEF KeyRow
<1>2. RegistryTypeOK
  BY <1>1, KeyRegistryAssumption DEF RegistryTypeOK
<1>3. RowsDated /\ ReceiptsDated /\ IssuedIsTrusted
  BY DEF RowsDated, ReceiptsDated, IssuedIsTrusted
<1>4. RotatedOut /\ RegisteredRow /\ OneSigner
  BY DEF RotatedOut, RegisteredRow, OneSigner
<1> QED BY <1>2, <1>3, <1>4 DEF RegistryInv

LEMMA TickInv == RegistryInv /\ Tick => RegistryInv'
<1> SUFFICES ASSUME RegistryInv, Tick PROVE RegistryInv'
  OBVIOUS
<1> USE DEF RegistryInv, Tick
<1>0. now \in 0..MaxTime /\ now' \in 0..MaxTime /\ now <= now'
  BY KeyRegistryAssumption DEF RegistryTypeOK
<1>1. RegistryTypeOK'
  BY <1>0 DEF RegistryTypeOK
<1>2. RowsDated'
  BY <1>0 DEF RowsDated, RegistryTypeOK, KeyRow
<1>3. ReceiptsDated'
  BY <1>0 DEF ReceiptsDated, RegistryTypeOK, Receipt
<1>4. RotatedOut' /\ RegisteredRow' /\ OneSigner'
  BY DEF RotatedOut, RegisteredRow, OneSigner
<1>5. IssuedIsTrusted'
  BY DEF IssuedIsTrusted, TrustedNow, Trusted
<1> QED BY <1>1, <1>2, <1>3, <1>4, <1>5

\* Start, Stop and PollAgain only move a signer, and none of them to registered.
LEMMA SignerInv ==
    ASSUME NEW k \in Key, RegistryInv, Start(k) \/ Stop(k) \/ PollAgain(k)
    PROVE  RegistryInv'
<1> USE DEF RegistryInv, Start, Stop, PollAgain
<1>1. RegistryTypeOK'
  BY DEF RegistryTypeOK
<1>2. RowsDated' /\ ReceiptsDated'
  BY DEF RowsDated, ReceiptsDated
<1>3. RotatedOut'
  BY DEF RotatedOut, RegistryTypeOK
<1>4. RegisteredRow'
  BY DEF RegisteredRow, RegistryTypeOK
<1>5. OneSigner'
  BY DEF OneSigner, RegistryTypeOK
<1>6. IssuedIsTrusted'
  BY DEF IssuedIsTrusted, TrustedNow, Trusted
<1> QED BY <1>1, <1>2, <1>3, <1>4, <1>5, <1>6

\* What a registration does to each row.
LEMMA RegisteredRows ==
    ASSUME NEW k \in Key, RegistryInv, Register(k)
    PROVE  /\ registry' \in [Key -> KeyRow]
           /\ registry'[k] = Activated(registry[k])
           /\ \A j \in Key : j # k => registry'[j] = Demoted(registry[j])
           /\ registry[k].status # "revoked"
<1>1. \A j \in Key : registry[j] \in KeyRow
  BY DEF RegistryInv, RegistryTypeOK
<1>2. now \in 0..MaxTime
  BY DEF RegistryInv, RegistryTypeOK
<1>3. \A j \in Key : Activated(registry[j]) \in KeyRow /\ Demoted(registry[j]) \in KeyRow
  BY <1>1, <1>2, ActivatedRow, DemotedRow
<1>4. registry[k].status # "revoked"
  BY DEF RegistryInv, RotatedOut, Register
<1> QED BY <1>3, <1>4 DEF Register

LEMMA RegisterInv ==
    ASSUME NEW k \in Key, RegistryInv, Register(k)
    PROVE  RegistryInv'
<1>0. /\ now \in 0..MaxTime /\ now' = now
      /\ rolling' = rolling /\ rotated' = rotated /\ receipts' = receipts
      /\ signer \in [Key -> {"off", "polling", "registered"}]
      /\ signer[k] = "polling" /\ signer' = [signer EXCEPT ![k] = "registered"]
  BY DEF RegistryInv, RegistryTypeOK, Register
<1>1. /\ registry' \in [Key -> KeyRow]
      /\ registry'[k] = Activated(registry[k])
      /\ \A j \in Key : j # k => registry'[j] = Demoted(registry[j])
      /\ registry[k].status # "revoked"
  BY RegisteredRows
<1>2. ASSUME NEW j \in Key
      PROVE  /\ registry[j] \in KeyRow /\ registry'[j] \in KeyRow
             /\ Activated(registry[j]).status = "active"
             /\ Activated(registry[j]).notAfter = Null
             /\ registry[j].status # "none" => registry'[j].notBefore = registry[j].notBefore
             /\ registry[j].status = "none" => registry'[j].notBefore \in {now, registry[j].notBefore}
             /\ registry'[j].status = "active" => registry'[j].notAfter = Null
             /\ registry'[j].status = "revoked" => registry[j].status = "revoked"
             /\ registry[j].status # "none" => registry'[j].status # "none"
  <2>1. registry[j] \in KeyRow /\ registry'[j] \in KeyRow
    BY <1>1 DEF RegistryInv, RegistryTypeOK
  <2>2. CASE j = k
    BY <1>0, <1>1, <2>1, <2>2, ActivatedRow
  <2>3. CASE j # k
    <3>1. registry'[j] = Demoted(registry[j])
      BY <1>1, <2>3
    <3> QED BY <1>0, <2>1, <3>1, ActivatedRow, DemotedRow
  <2> QED BY <2>2, <2>3
<1>3. RegistryTypeOK'
  BY <1>0, <1>1 DEF RegistryInv, RegistryTypeOK
<1>4. RowsDated'
  BY <1>0, <1>2 DEF RegistryInv, RowsDated, KeyRow
<1>5. ReceiptsDated'
  BY <1>0, <1>2 DEF RegistryInv, ReceiptsDated, RegistryTypeOK, Receipt
<1>6. RotatedOut'
  BY <1>0, <1>2 DEF RegistryInv, RotatedOut
<1>7. RegisteredRow'
  <2> SUFFICES ASSUME NEW j \in Key, signer'[j] = "registered"
               PROVE  /\ registry'[j].status # "none"
                      /\ ~rolling' => registry'[j].status = "active"
    BY DEF RegisteredRow
  <2>1. CASE j = k
    BY <1>1, <1>2, <2>1
  <2>2. CASE j # k
    <3>1. signer[j] = "registered" /\ rolling
      BY <1>0, <2>2 DEF RegistryInv, OneSigner
    <3> QED BY <1>0, <1>2, <3>1 DEF RegistryInv, RegisteredRow
  <2> QED BY <2>1, <2>2
<1>8. OneSigner'
  BY <1>0 DEF RegistryInv, OneSigner
<1>9. IssuedIsTrusted'
  <2> SUFFICES ASSUME ~rolling, NEW r \in receipts, registry'[r.key].status # "revoked"
               PROVE  Trusted(registry'[r.key], r)
    BY <1>0 DEF IssuedIsTrusted, TrustedNow
  <2>1. r \in Receipt /\ r.key \in Key /\ r.issuedAt \in 0..MaxTime /\ r.issuedAt <= now
    BY DEF RegistryInv, RegistryTypeOK, Receipt, ReceiptsDated
  <2>2. registry[r.key].status # "none" /\ registry[r.key].notBefore <= r.issuedAt
    BY DEF RegistryInv, ReceiptsDated
  <2>3. CASE r.key = k
    BY <1>1, <1>2, <2>1, <2>2, <2>3, NullIsLate DEF Trusted
  <2>4. CASE r.key # k
    <3>1. registry[r.key] \in KeyRow /\ registry'[r.key] = Demoted(registry[r.key])
      BY <1>1, <1>2, <2>1, <2>4
    <3>2. registry[r.key].status # "revoked"
      BY <1>0, <2>4, <3>1, DemotedRow
    <3>3. Trusted(registry[r.key], r)
      BY <3>2 DEF RegistryInv, IssuedIsTrusted, TrustedNow
    <3>4. registry[r.key].status = "active" => registry[r.key].notAfter = Null
      BY <2>1 DEF RegistryInv, RowsDated
    <3> QED BY <1>0, <2>1, <3>1, <3>3, <3>4, DemotedRow DEF Trusted
  <2> QED BY <2>3, <2>4
<1> QED BY <1>3, <1>4, <1>5, <1>6, <1>7, <1>8, <1>9 DEF RegistryInv

LEMMA SignInv ==
    ASSUME NEW k \in Key, RegistryInv, Sign(k)
    PROVE  RegistryInv'
<1> USE DEF RegistryInv, Sign
<1>0. registry[k] \in KeyRow /\ now \in 0..MaxTime
  BY DEF RegistryTypeOK
<1>1. RegistryTypeOK'
  BY <1>0 DEF RegistryTypeOK, Receipt
<1>2. RowsDated'
  BY DEF RowsDated
<1>3. registry[k].status # "none" /\ registry[k].notBefore <= now
  BY DEF RegisteredRow, RowsDated
<1>4. ReceiptsDated'
  BY <1>0, <1>3 DEF ReceiptsDated
<1>5. RotatedOut' /\ RegisteredRow' /\ OneSigner'
  BY DEF RotatedOut, RegisteredRow, OneSigner, RegistryTypeOK
<1>6. ~rolling => registry[k].status = "active" /\ registry[k].notAfter = Null
  BY DEF RegisteredRow, RowsDated
<1>7. IssuedIsTrusted'
  BY <1>0, <1>3, <1>6, NullIsLate DEF IssuedIsTrusted, TrustedNow, Trusted
<1> QED BY <1>1, <1>2, <1>4, <1>5, <1>7

LEMMA IsolateInv ==
    ASSUME NEW k \in Key, RegistryInv, Isolate(k)
    PROVE  RegistryInv'
<1> USE DEF RegistryInv, Isolate
<1>1. RegistryTypeOK'
  BY DEF RegistryTypeOK
<1>2. RowsDated' /\ ReceiptsDated' /\ IssuedIsTrusted'
  BY DEF RowsDated, ReceiptsDated, IssuedIsTrusted, TrustedNow, Trusted
<1>3. RotatedOut'
  BY DEF RotatedOut, RegistryTypeOK
<1>4. RegisteredRow' /\ OneSigner'
  BY DEF RegisteredRow, OneSigner, RegistryTypeOK
<1> QED BY <1>1, <1>2, <1>3, <1>4

LEMMA RevokeInv ==
    ASSUME NEW k \in Key, RegistryInv, Revoke(k)
    PROVE  RegistryInv'
<1> USE DEF RegistryInv, Revoke
<1>0. /\ registry \in [Key -> KeyRow] /\ registry[k] \in KeyRow /\ now \in 0..MaxTime
      /\ signer[k] = "off"
  BY DEF RegistryTypeOK, RotatedOut
<1>2. /\ Revoked(registry[k]) \in KeyRow /\ Revoked(registry[k]).status = "revoked"
      /\ Revoked(registry[k]).notBefore = registry[k].notBefore
  BY <1>0, RevokedRow
<1>3. /\ registry' \in [Key -> KeyRow] /\ registry'[k] = Revoked(registry[k])
      /\ \A j \in Key : j # k => registry'[j] = registry[j]
  BY <1>0, <1>2
<1>4. RegistryTypeOK'
  BY <1>3 DEF RegistryTypeOK
<1>5. RowsDated'
  BY <1>2, <1>3 DEF RowsDated
<1>6. ReceiptsDated'
  BY <1>2, <1>3 DEF ReceiptsDated, RegistryTypeOK, Receipt
<1>7. RotatedOut'
  BY <1>2, <1>3 DEF RotatedOut
<1>8. RegisteredRow' /\ OneSigner'
  BY <1>0, <1>2, <1>3 DEF RegisteredRow, OneSigner
<1>9. IssuedIsTrusted'
  BY <1>2, <1>3 DEF IssuedIsTrusted, TrustedNow, Trusted, RegistryTypeOK, Receipt
<1> QED BY <1>4, <1>5, <1>6, <1>7, <1>8, <1>9

LEMMA RegistryNextInv == RegistryInv /\ [RegistryNext]_registryVars => RegistryInv'
<1> SUFFICES ASSUME RegistryInv, [RegistryNext]_registryVars PROVE RegistryInv'
  OBVIOUS
<1>1. CASE Tick
  BY <1>1, TickInv
<1>2. ASSUME NEW k \in Key, Start(k) \/ Stop(k) \/ PollAgain(k) PROVE RegistryInv'
  BY <1>2, SignerInv
<1>3. ASSUME NEW k \in Key, Register(k) PROVE RegistryInv'
  BY <1>3, RegisterInv
<1>4. ASSUME NEW k \in Key, Sign(k) PROVE RegistryInv'
  BY <1>4, SignInv
<1>5. ASSUME NEW k \in Key, Isolate(k) PROVE RegistryInv'
  BY <1>5, IsolateInv
<1>6. ASSUME NEW k \in Key, Revoke(k) PROVE RegistryInv'
  BY <1>6, RevokeInv
<1>7. CASE UNCHANGED registryVars
  BY <1>7 DEF registryVars, RegistryInv, RegistryTypeOK, RowsDated, ReceiptsDated,
              RotatedOut, RegisteredRow, OneSigner, IssuedIsTrusted, TrustedNow, Trusted
<1> QED BY <1>1, <1>2, <1>3, <1>4, <1>5, <1>6, <1>7 DEF RegistryNext

LEMMA RegistryInvariance == RegistrySpec => []RegistryInv
BY RegistryInitInv, RegistryNextInv, PTL DEF RegistrySpec

-----------------------------------------------------------------------------
\* One step, for the action properties

LEMMA NeverUnrevoked ==
    ASSUME RegistryInv, RegistryNext, NEW k \in Key, registry[k].status = "revoked"
    PROVE  registry'[k].status = "revoked"
<1>1. ASSUME NEW j \in Key, Register(j) PROVE registry'[k].status = "revoked"
  <2>1. j # k /\ registry'[k] = Demoted(registry[k])
    BY <1>1, RegisteredRows
  <2>2. registry[k] \in KeyRow /\ now \in 0..MaxTime
    BY DEF RegistryInv, RegistryTypeOK
  <2> QED BY <2>1, <2>2, DemotedRow
<1>2. ASSUME NEW j \in Key, Revoke(j) PROVE registry'[k].status = "revoked"
  BY <1>2, RevokedRow DEF Revoke, RegistryInv, RegistryTypeOK
<1>3. CASE UNCHANGED registry
  BY <1>3
<1> QED BY <1>1, <1>2, <1>3 DEF RegistryNext, Tick, Start, Stop, PollAgain, Sign, Isolate

LEMMA NeverDistrusted ==
    ASSUME RegistryInv, RegistryNext, NEW r \in receipts, TrustedNow(r)
    PROVE  TrustedNow(r)' \/ registry'[r.key].status = "revoked"
<1>0. /\ r.key \in Key /\ r.issuedAt \in 0..MaxTime /\ r.issuedAt <= now
      /\ now \in 0..MaxTime /\ registry[r.key] \in KeyRow
  BY DEF RegistryInv, RegistryTypeOK, Receipt, ReceiptsDated
<1>1. ASSUME NEW j \in Key, Register(j) PROVE Trusted(registry'[r.key], r)
  <2>1. CASE j = r.key
    <3>1. registry'[r.key] = Activated(registry[r.key])
      BY <1>1, <2>1, RegisteredRows
    <3> QED BY <1>0, <3>1, ActivatedRow, NullIsLate DEF TrustedNow, Trusted
  <2>2. CASE j # r.key
    <3>1. registry'[r.key] = Demoted(registry[r.key])
      BY <1>0, <1>1, <2>2, RegisteredRows
    <3>2. registry[r.key].status = "active" => registry[r.key].notAfter = Null
      BY <1>0 DEF RegistryInv, RowsDated
    <3> QED BY <1>0, <3>1, <3>2, DemotedRow DEF TrustedNow, Trusted
  <2> QED BY <2>1, <2>2
<1>2. ASSUME NEW j \in Key, Revoke(j)
      PROVE  registry'[r.key] = registry[r.key] \/ registry'[r.key].status = "revoked"
  BY <1>0, <1>2, RevokedRow DEF Revoke, RegistryInv, RegistryTypeOK
<1>3. CASE UNCHANGED registry
  BY <1>3 DEF TrustedNow
<1> QED BY <1>1, <1>2, <1>3
        DEF RegistryNext, Tick, Start, Stop, PollAgain, Sign, Isolate, TrustedNow

-----------------------------------------------------------------------------
\* THEOREMS

\* Types: the columns of agenttrial_signing_keys, and dates within its clock.
THEOREM RegistryTypeCorrect == RegistrySpec => []RegistryTypeOK
BY RegistryInvariance, PTL DEF RegistryInv

\* registerSigningPublicKey and revokeSigningPublicKey: where signers follow
\* one another, whatever they sign is trusted until its key is revoked.
THEOREM EveryReceiptIsTrusted == RegistrySpec => []IssuedIsTrusted
BY RegistryInvariance, PTL DEF RegistryInv

\* registerSigningPublicKey: the windows it closes and reopens never leave out
\* a receipt they covered, in rolling rotations as in others.
THEOREM TrustLasts == RegistrySpec => TrustIsStable
<1>1. RegistryInv /\ [RegistryNext]_registryVars =>
        [\A r \in receipts : TrustedNow(r) =>
            TrustedNow(r)' \/ registry'[r.key].status = "revoked"]_registryVars
  BY NeverDistrusted
<1> QED BY <1>1, RegistryInvariance, PTL DEF RegistrySpec, TrustIsStable

\* revokeSigningPublicKey, as the runbook has it used: no registration of
\* another signer brings a revoked key back.
THEOREM RevokedForGood == RegistrySpec => RevocationIsFinal
<1>1. RegistryInv /\ [RegistryNext]_registryVars =>
        [\A k \in Key : registry[k].status = "revoked"
            => registry'[k].status = "revoked"]_registryVars
  BY NeverUnrevoked
<1> QED BY <1>1, RegistryInvariance, PTL DEF RegistrySpec, RevocationIsFinal

-----------------------------------------------------------------------------
\* The attestation

Following == {"record", "lookup", "wait", "read", "confirm"}
Working == Following \cup {"broadcast"}

GoodInvocation(q) ==
    /\ q.pc # "idle" => q.binding \in Binding /\ q.wallet \in Wallet
    /\ q.pc \in Working => row.status # None /\ q.binding = row.binding
    /\ q.pc \in Following => q.tx \in DOMAIN chain
    /\ q.pc = "confirm" => Verifiable(q.tx, q.binding)

GoodRow ==
    /\ row.status = None => row.binding = None
    /\ row.status = "submitted" => row.tx # 0
    /\ row.tx # 0 => row.tx \in DOMAIN chain

Good ==
    /\ AttestationTypeOK
    /\ GoodRow
    /\ \A o \in Operator : GoodInvocation(operator[o])
    /\ AnchoredIsOnChain

Sending == {o \in Operator : operator[o].pc = "broadcast"}

\* The next invocation would broadcast.
Restartable == row.status \in {None, "pending", "failed"}

\* Whoever ends here leaves no broadcast the row does not know of.
Recorded == {"idle", "lookup", "wait", "read", "confirm"}

Counted ==
    /\ IsFiniteSet(Sending)
    /\ causes < MaxBroadcasts =>
         /\ Len(chain) + Cardinality(Sending) <= 1 + causes
         /\ Restartable /\ (\A o \in Operator : operator[o].pc \in Recorded)
                => Len(chain) <= causes

AttestationInv == Good /\ Counted
-----------------------------------------------------------------------------
\* Steps and what they keep

\* Transactions are added and settle; the mined ones stay as they are.
ChainKept ==
    /\ chain' \in Seq(Transaction) /\ Len(chain') <= MaxBroadcasts
    /\ \A i \in DOMAIN chain :
          /\ i \in DOMAIN chain'
          /\ chain'[i].binding = chain[i].binding /\ chain'[i].from = chain[i].from
          /\ chain[i].state = "mined" => chain'[i].state = "mined"

\* What a row attests is decided once.
RowKept == row.status # None => row'.status # None /\ row'.binding = row.binding

\* Only this operator moves.
Moves(o) ==
    /\ operator' \in [Operator -> Invocation]
    /\ \A p \in Operator : p # o => operator'[p] = operator[p]

LEMMA VerifiableStays ==
    ASSUME ChainKept, NEW uid, NEW b, Verifiable(uid, b)
    PROVE  Verifiable(uid, b)'
BY DEF ChainKept, Verifiable, Matches

LEMMA GoodStays ==
    ASSUME NEW q, GoodInvocation(q), ChainKept, RowKept
    PROVE  /\ q.pc # "idle" => q.binding \in Binding /\ q.wallet \in Wallet
           /\ q.pc \in Working => row'.status # None /\ q.binding = row'.binding
           /\ q.pc \in Following => q.tx \in DOMAIN chain'
           /\ q.pc = "confirm" => Verifiable(q.tx, q.binding)'
<1>1. q.pc \in Following => q.tx \in DOMAIN chain'
  BY DEF GoodInvocation, ChainKept
<1>2. q.pc = "confirm" => Verifiable(q.tx, q.binding)'
  BY VerifiableStays DEF GoodInvocation
<1> QED BY <1>1, <1>2 DEF GoodInvocation, RowKept

\* A step of one operator is good if it is good for that operator and the row.
LEMMA OthersGood ==
    ASSUME Good, ChainKept, RowKept, NEW o \in Operator, Moves(o),
           GoodInvocation(operator[o])'
    PROVE  \A p \in Operator : GoodInvocation(operator[p])'
<1> SUFFICES ASSUME NEW p \in Operator, p # o PROVE GoodInvocation(operator[p])'
  OBVIOUS
<1>1. operator'[p] = operator[p] /\ GoodInvocation(operator[p])
  BY DEF Good, Moves
<1>2. /\ operator[p].pc # "idle" =>
             operator[p].binding \in Binding /\ operator[p].wallet \in Wallet
      /\ operator[p].pc \in Working =>
             row'.status # None /\ operator[p].binding = row'.binding
      /\ operator[p].pc \in Following => operator[p].tx \in DOMAIN chain'
      /\ operator[p].pc = "confirm" => Verifiable(operator[p].tx, operator[p].binding)'
  BY <1>1, GoodStays
<1> QED BY <1>1, <1>2 DEF GoodInvocation

\* The row, where the step leaves it alone.
LEMMA SameRow ==
    ASSUME Good, ChainKept, row' = row
    PROVE  RowKept /\ GoodRow' /\ AnchoredIsOnChain'
<1>1. GoodRow'
  BY DEF Good, GoodRow, ChainKept
<1>2. AnchoredIsOnChain'
  <2> SUFFICES ASSUME row.status = "anchored"
               PROVE  Verifiable(row.uid, row.binding)' /\ row.tx = row.uid
    BY DEF AnchoredIsOnChain
  <2>1. Verifiable(row.uid, row.binding) /\ row.tx = row.uid
    BY DEF Good, AnchoredIsOnChain
  <2> QED BY <2>1, VerifiableStays
<1> QED BY <1>1, <1>2 DEF RowKept

LEMMA SameChain ==
    ASSUME Good, chain' = chain
    PROVE  ChainKept
BY DEF Good, AttestationTypeOK, ChainKept

LEMMA GotoMoves ==
    ASSUME Good, NEW o \in Operator, NEW to, Goto(o, to),
           to \in {"idle", "broadcast", "record", "lookup", "wait", "read", "confirm", "fail"}
    PROVE  /\ Moves(o)
           /\ operator'[o] = [operator[o] EXCEPT !.pc = to]
           /\ operator'[o].pc = to
           /\ operator'[o].binding = operator[o].binding
           /\ operator'[o].wallet = operator[o].wallet
           /\ operator'[o].tx = operator[o].tx
<1>1. operator[o] \in Invocation /\ operator \in [Operator -> Invocation]
  BY DEF Good, AttestationTypeOK
<1>2. [operator[o] EXCEPT !.pc = to] \in Invocation
  BY <1>1 DEF Invocation
<1>3. operator' = [operator EXCEPT ![o] = [operator[o] EXCEPT !.pc = to]]
  BY DEF Goto
<1>4. operator'[o] = [operator[o] EXCEPT !.pc = to]
  BY <1>1, <1>3
<1>5. Moves(o)
  BY <1>1, <1>2, <1>3 DEF Moves
<1> QED BY <1>1, <1>4, <1>5 DEF Invocation

LEMMA EndsMoves ==
    ASSUME Good, NEW o \in Operator, Ends(o)
    PROVE  /\ Moves(o)
           /\ operator'[o].pc = "idle"
           /\ GoodInvocation(operator[o])'
<1>1. operator \in [Operator -> Invocation] /\ NotRunning \in Invocation
  BY DEF Good, AttestationTypeOK, Invocation, NotRunning
<1>2. operator'[o] = NotRunning /\ Moves(o)
  BY <1>1 DEF Ends, Moves
<1> QED BY <1>2 DEF NotRunning, GoodInvocation, Working, Following

LEMMA SentKept ==
    ASSUME Good, NEW o \in Operator, operator[o].pc = "broadcast", Sent(o)
    PROVE  ChainKept /\ Len(chain') = Len(chain) + 1 /\ Len(chain') \in DOMAIN chain'
<1> DEFINE t == [binding |-> operator[o].binding, from |-> operator[o].wallet,
                 state |-> "pool"]
<1>1. operator[o].binding \in Binding /\ operator[o].wallet \in Wallet
  BY DEF Good, GoodInvocation
<1>2. t \in Transaction
  BY <1>1 DEF Transaction
<1>3. /\ chain \in Seq(Transaction) /\ chain' = Append(chain, t)
      /\ Len(chain) < MaxBroadcasts /\ Len(chain) \in Nat /\ MaxBroadcasts \in Nat
  BY AttestationAssumption DEF Good, AttestationTypeOK, Sent
<1> HIDE DEF t
<1>4. /\ chain' \in Seq(Transaction) /\ Len(chain') = Len(chain) + 1
      /\ \A i \in 1..Len(chain) : i \in 1..Len(chain') /\ chain'[i] = chain[i]
  BY <1>2, <1>3
<1> QED BY <1>3, <1>4 DEF ChainKept

-----------------------------------------------------------------------------
\* Good is kept, one lemma for each kind of step

LEMMA InitGood == AttestationInit => Good
<1> SUFFICES ASSUME AttestationInit PROVE Good
  OBVIOUS
<1> USE AttestationAssumption DEF AttestationInit
<1>1. AttestationTypeOK
  BY DEF AttestationTypeOK, Row, Tx, Invocation, NotRunning, Transaction
<1>2. GoodRow /\ AnchoredIsOnChain
  BY DEF GoodRow, AnchoredIsOnChain, None
<1>3. \A o \in Operator : GoodInvocation(operator[o])
  BY DEF GoodInvocation, NotRunning, Working, Following
<1> QED BY <1>1, <1>2, <1>3 DEF Good

\* causes and faults stay what they are.
LEMMA CountersTyped ==
    ASSUME Good, Cause \/ UNCHANGED causes, Fault \/ UNCHANGED faults
    PROVE  causes' \in 0..MaxBroadcasts /\ faults' \in 0..MaxFaults
BY AttestationAssumption DEF Good, AttestationTypeOK, Cause, Fault

\* Every step of an operator that leaves the row alone.
LEMMA RestingRow ==
    ASSUME Good, ChainKept, row' = row, NEW o \in Operator, Moves(o),
           GoodInvocation(operator[o])',
           Cause \/ UNCHANGED causes, Fault \/ UNCHANGED faults
    PROVE  Good'
<1>1. RowKept /\ GoodRow' /\ AnchoredIsOnChain'
  BY SameRow
<1>2. \A p \in Operator : GoodInvocation(operator[p])'
  BY <1>1, OthersGood
<1>3. AttestationTypeOK'
  BY CountersTyped DEF Good, AttestationTypeOK, ChainKept, Moves
<1> QED BY <1>1, <1>2, <1>3 DEF Good

\* Every step of an operator that writes the row and not the chain.
LEMMA RowWritten ==
    ASSUME Good, chain' = chain, row' \in Row, RowKept, GoodRow', AnchoredIsOnChain',
           NEW o \in Operator, Moves(o), GoodInvocation(operator[o])',
           Cause \/ UNCHANGED causes, Fault \/ UNCHANGED faults
    PROVE  Good'
<1>1. ChainKept
  BY SameChain
<1>2. \A p \in Operator : GoodInvocation(operator[p])'
  BY <1>1, OthersGood
<1>3. AttestationTypeOK'
  BY CountersTyped DEF Good, AttestationTypeOK, Moves
<1> QED BY <1>2, <1>3 DEF Good

LEMMA BeginGood ==
    ASSUME Good, NEW o \in Operator, NEW b \in Binding, NEW w \in Wallet, Begin(o, b, w)
    PROVE  Good'
<1> USE DEF Begin
<1>0. /\ row \in Row /\ operator \in [Operator -> Invocation] /\ GoodRow
      /\ chain' = chain /\ (Cause \/ UNCHANGED causes) /\ UNCHANGED faults
  BY DEF Good, AttestationTypeOK
<1>1. CASE ~SamePayload(b)
  <2> DEFINE q == [NotRunning EXCEPT !.pc = "fail", !.binding = b, !.wallet = w]
  <2>1. /\ q \in Invocation /\ q.pc = "fail" /\ q.binding = b /\ q.wallet = w
    BY DEF NotRunning, Invocation
  <2>2. row' = row /\ operator' = [operator EXCEPT ![o] = q]
    BY <1>1
  <2> HIDE DEF q
  <2>3. operator'[o] = q /\ Moves(o)
    BY <1>0, <2>1, <2>2 DEF Moves
  <2>4. GoodInvocation(operator[o])'
    BY <2>1, <2>3 DEF GoodInvocation, Working, Following
  <2> QED BY <1>0, <2>2, <2>3, <2>4, SameChain, RestingRow
<1>2. CASE SamePayload(b)
  <2> DEFINE status == IF row.status = None THEN "pending" ELSE Restarted(row.status)
             resumes == status = "submitted" /\ row.tx # 0
             q == IF status = "anchored" THEN NotRunning
                  ELSE [pc |-> IF resumes THEN "lookup" ELSE "broadcast",
                        binding |-> b, wallet |-> w, tx |-> IF resumes THEN row.tx ELSE 0]
  <2>1. /\ row' = [row EXCEPT !.status = status,
                              !.binding = IF row.binding = None THEN b ELSE row.binding]
        /\ operator' = [operator EXCEPT ![o] = q]
    BY <1>2
  <2>2. status \in {"pending", "submitted", "anchored"}
    BY DEF Restarted
  <2>3. status = "anchored" => row.status = "anchored"
    BY DEF Restarted
  <2>4. status = "submitted" => row.status = "submitted"
    BY DEF Restarted
  <2>5. q \in Invocation
    <3>1. 0 \in Tx \cup {0} /\ row.tx \in Tx \cup {0}
      BY <1>0 DEF Row
    <3> QED BY <3>1 DEF NotRunning, Invocation
  <2>6. /\ q.pc \in {"idle", "lookup", "broadcast"}
        /\ q.pc # "idle" => q.binding = b /\ q.wallet = w
        /\ q.pc = "lookup" => q.tx = row.tx /\ row.tx # 0
    BY DEF NotRunning
  <2> HIDE DEF q, status
  <2>7. /\ row' \in Row /\ row'.status = status /\ row'.binding = b
        /\ row'.tx = row.tx /\ row'.uid = row.uid
    <3>1. row.binding = None \/ row.binding = b
      BY <1>0, <1>2 DEF SamePayload, GoodRow
    <3> QED BY <1>0, <2>1, <2>2, <3>1 DEF Row
  <2>8. operator'[o] = q /\ Moves(o)
    BY <1>0, <2>1, <2>5 DEF Moves
  <2>9. RowKept
    BY <1>0, <1>2, <2>2, <2>7 DEF RowKept, SamePayload, None
  <2>10. GoodRow'
    BY <1>0, <2>2, <2>4, <2>7 DEF GoodRow, None
  <2>11. AnchoredIsOnChain'
    <3> SUFFICES ASSUME status = "anchored"
                 PROVE  Verifiable(row.uid, b)' /\ row.tx = row.uid
      BY <2>7 DEF AnchoredIsOnChain
    <3>1. Verifiable(row.uid, row.binding) /\ row.tx = row.uid
      BY <2>3 DEF Good, AnchoredIsOnChain
    <3>2. row.binding = b
      BY <1>2, <2>3 DEF SamePayload, None
    <3> QED BY <1>0, <3>1, <3>2, <2>7, SameChain, VerifiableStays
  <2>12. GoodInvocation(operator[o])'
    BY <1>0, <2>2, <2>6, <2>7, <2>8 DEF GoodInvocation, GoodRow, Working, Following, None
  <2> QED BY <1>0, <2>7, <2>8, <2>9, <2>10, <2>11, <2>12, RowWritten
<1> QED BY <1>1, <1>2

LEMMA BroadcastGood ==
    ASSUME Good, NEW o \in Operator, Broadcast(o) \/ BroadcastUnacknowledged(o)
    PROVE  Good'
<1> USE DEF Broadcast, BroadcastUnacknowledged
<1>0. /\ operator[o].pc = "broadcast" /\ row' = row /\ UNCHANGED causes
      /\ Fault \/ UNCHANGED faults
      /\ operator \in [Operator -> Invocation] /\ GoodInvocation(operator[o])
  BY DEF Good, AttestationTypeOK
<1>1. ChainKept /\ Len(chain') = Len(chain) + 1 /\ Len(chain') \in DOMAIN chain'
  BY <1>0, SentKept
<1>2. CASE Broadcast(o)
  <2> DEFINE q == [operator[o] EXCEPT !.pc = "record", !.tx = Len(chain) + 1]
  <2>1. operator' = [operator EXCEPT ![o] = q]
    BY <1>2
  <2>2. Len(chain) + 1 \in Tx
    BY <1>1, AttestationAssumption DEF ChainKept, Tx
  <2>3. /\ q \in Invocation /\ q.pc = "record" /\ q.tx = Len(chain')
        /\ q.binding = operator[o].binding /\ q.wallet = operator[o].wallet
    BY <1>0, <1>1, <2>2 DEF Invocation
  <2> HIDE DEF q
  <2>4. operator'[o] = q /\ Moves(o)
    BY <1>0, <2>1, <2>3 DEF Moves
  <2>5. GoodInvocation(operator[o])'
    BY <1>0, <1>1, <2>3, <2>4 DEF GoodInvocation, Working, Following
  <2> QED BY <1>0, <1>1, <2>4, <2>5, RestingRow
<1>3. CASE BroadcastUnacknowledged(o)
  <2>1. Moves(o) /\ operator'[o].pc = "fail" /\ operator'[o].binding = operator[o].binding
        /\ operator'[o].wallet = operator[o].wallet
    BY <1>3, GotoMoves
  <2>2. GoodInvocation(operator[o])'
    BY <1>0, <2>1 DEF GoodInvocation, Working, Following
  <2> QED BY <1>0, <1>1, <2>1, <2>2, RestingRow
<1> QED BY <1>2, <1>3

\* The steps that only move an invocation: to its catch block, or on, with what
\* it has read of the chain.
LEMMA MovedGood ==
    ASSUME Good, NEW o \in Operator, Lookup(o) \/ Wait(o) \/ Read(o) \/ CallFails(o)
    PROVE  Good'
<1> USE DEF Lookup, Wait, Read, CallFails
<1>0. /\ row' = row /\ chain' = chain /\ UNCHANGED causes /\ (Fault \/ UNCHANGED faults)
      /\ operator[o].pc # "idle" /\ GoodInvocation(operator[o]) /\ ChainKept
  BY SameChain DEF Good
<1>1. PICK to \in {"wait", "read", "confirm", "fail"} :
         /\ Goto(o, to)
         /\ to # "fail" => operator[o].pc \in Following
         /\ to = "confirm" =>
               Matches(operator[o].tx, operator[o].binding, operator[o].wallet)
  BY DEF Following
<1>2. /\ Moves(o) /\ operator'[o].pc = to /\ operator'[o].binding = operator[o].binding
      /\ operator'[o].wallet = operator[o].wallet /\ operator'[o].tx = operator[o].tx
  BY <1>1, GotoMoves
<1>3. to = "confirm" => Verifiable(operator[o].tx, operator[o].binding)
  BY <1>0, <1>1 DEF GoodInvocation, Verifiable
<1>4. to = "confirm" => Verifiable(operator[o].tx, operator[o].binding)'
  BY <1>0, <1>2, <1>3 DEF Verifiable, Matches
<1>5. GoodInvocation(operator[o])'
  BY <1>0, <1>1, <1>2, <1>4 DEF GoodInvocation, Working, Following
<1> QED BY <1>0, <1>2, <1>5, RestingRow

LEMMA RecordGood ==
    ASSUME Good, NEW o \in Operator, Record(o)
    PROVE  Good'
<1> USE DEF Record
<1>0. /\ row \in Row /\ chain' = chain /\ UNCHANGED <<faults, causes>>
      /\ operator \in [Operator -> Invocation]
      /\ operator[o].pc = "record" /\ GoodInvocation(operator[o]) /\ GoodRow
      /\ operator[o].tx \in DOMAIN chain /\ operator[o].tx \in Tx
  BY DEF Good, AttestationTypeOK, GoodInvocation, Following, Invocation, Tx
<1>1. /\ Moves(o) /\ operator'[o].pc = "wait" /\ operator'[o].binding = operator[o].binding
      /\ operator'[o].wallet = operator[o].wallet /\ operator'[o].tx = operator[o].tx
  BY GotoMoves
<1>2. CASE row.status = "anchored"
  <2>1. row' = row
    BY <1>2
  <2>2. GoodInvocation(operator[o])'
    BY <1>0, <1>1, <2>1 DEF GoodInvocation, Working, Following
  <2> QED BY <1>0, <1>1, <2>1, <2>2, SameChain, RestingRow
<1>3. CASE row.status # "anchored"
  <2>1. /\ row' = [row EXCEPT !.status = "submitted", !.tx = operator[o].tx]
    BY <1>3
  <2>2. /\ row' \in Row /\ row'.status = "submitted" /\ row'.tx = operator[o].tx
        /\ row'.binding = row.binding
    BY <1>0, <2>1 DEF Row
  <2>3. RowKept /\ AnchoredIsOnChain'
    BY <2>2 DEF RowKept, AnchoredIsOnChain, None
  <2>4. GoodRow'
    BY <1>0, <2>2 DEF GoodRow, None, Tx
  <2>5. GoodInvocation(operator[o])'
    BY <1>0, <1>1, <2>2 DEF GoodInvocation, Working, Following, None
  <2> QED BY <1>0, <1>1, <2>2, <2>3, <2>4, <2>5, RowWritten
<1> QED BY <1>2, <1>3

\* The row that a confirmation leaves.
LEMMA AnchoredRow ==
    ASSUME Good, NEW o \in Operator, operator[o].pc = "confirm", row' = Anchored(o),
           chain' = chain
    PROVE  /\ row' \in Row /\ row'.status = "anchored" /\ row'.binding = row.binding
           /\ RowKept /\ GoodRow' /\ AnchoredIsOnChain'
<1>0. /\ row \in Row /\ GoodInvocation(operator[o]) /\ operator[o].tx \in DOMAIN chain
      /\ operator[o].tx \in Tx /\ operator[o].binding = row.binding
  BY DEF Good, AttestationTypeOK, GoodInvocation, Working, Following, Invocation, Tx
<1>1. /\ row' \in Row /\ row'.status = "anchored" /\ row'.binding = row.binding
      /\ row'.tx = operator[o].tx /\ row'.uid = operator[o].tx
  BY <1>0 DEF Anchored, Row
<1>2. Verifiable(operator[o].tx, operator[o].binding)
  BY <1>0 DEF GoodInvocation
<1>3. AnchoredIsOnChain'
  BY <1>0, <1>1, <1>2 DEF AnchoredIsOnChain, Verifiable, Matches
<1>4. RowKept /\ GoodRow'
  BY <1>0, <1>1 DEF RowKept, GoodRow, None
<1> QED BY <1>1, <1>3, <1>4

LEMMA ConfirmGood ==
    ASSUME Good, NEW o \in Operator, Confirm(o) \/ ConfirmUnacknowledged(o)
    PROVE  Good'
<1> USE DEF Confirm, ConfirmUnacknowledged
<1>0. /\ chain' = chain /\ UNCHANGED causes /\ (Fault \/ UNCHANGED faults)
      /\ operator[o].pc = "confirm" /\ GoodInvocation(operator[o])
  BY DEF Good
<1>1. /\ Moves(o) /\ operator'[o].pc \in {"idle", "fail"}
      /\ operator'[o].pc = "fail" => operator'[o].binding = operator[o].binding
                                     /\ operator'[o].wallet = operator[o].wallet
  BY GotoMoves, EndsMoves
<1>2. GoodInvocation(operator[o])'
  BY <1>0, <1>1 DEF GoodInvocation, Working, Following
<1>3. CASE row' = Anchored(o)
  BY <1>0, <1>1, <1>2, <1>3, AnchoredRow, RowWritten
<1>4. CASE row' = row
  BY <1>0, <1>1, <1>2, <1>4, SameChain, RestingRow
<1> QED BY <1>3, <1>4

LEMMA FailGood ==
    ASSUME Good, NEW o \in Operator, Fail(o)
    PROVE  Good'
<1> USE DEF Fail
<1>0. /\ row \in Row /\ GoodRow /\ chain' = chain /\ (Cause \/ UNCHANGED causes)
      /\ UNCHANGED faults
  BY DEF Good, AttestationTypeOK
<1>1. Moves(o) /\ GoodInvocation(operator[o])'
  BY EndsMoves
<1>2. CASE row' = row
  BY <1>0, <1>1, <1>2, SameChain, RestingRow
<1>3. CASE row' = [row EXCEPT !.status = "failed"] /\ row.status # None
  <2>1. /\ row' \in Row /\ row'.status = "failed" /\ row'.binding = row.binding
        /\ row'.tx = row.tx
    BY <1>0, <1>3 DEF Row
  <2>2. RowKept /\ GoodRow' /\ AnchoredIsOnChain'
    BY <1>0, <2>1 DEF RowKept, GoodRow, AnchoredIsOnChain, None
  <2> QED BY <1>0, <1>1, <2>1, <2>2, RowWritten
<1> QED BY <1>2, <1>3

LEMMA DiesGood ==
    ASSUME Good, NEW o \in Operator, Dies(o)
    PROVE  Good'
<1>1. Moves(o) /\ GoodInvocation(operator[o])'
  BY EndsMoves DEF Dies
<1>2. /\ row' = row /\ ChainKept /\ (Cause \/ UNCHANGED causes) /\ Fault
  BY SameChain DEF Dies
<1> QED BY <1>1, <1>2, RestingRow

LEMMA SettleKept ==
    ASSUME Good, NEW t \in DOMAIN chain, Settle(t)
    PROVE  ChainKept /\ DOMAIN chain' = DOMAIN chain
<1> USE DEF Settle
<1>1. PICK s \in {"mined", "reverted", "dropped"} :
         chain' = [chain EXCEPT ![t] = [chain[t] EXCEPT !.state = s]]
  OBVIOUS
<1>2. chain \in Seq(Transaction) /\ Len(chain) <= MaxBroadcasts /\ chain[t] \in Transaction
  BY DEF Good, AttestationTypeOK
<1> DEFINE u == [chain[t] EXCEPT !.state = s]
<1>3. u \in Transaction /\ u.binding = chain[t].binding /\ u.from = chain[t].from
  BY <1>2 DEF Transaction
<1>4. chain[t].state # "mined"
  OBVIOUS
<1> HIDE DEF u
<1>5. /\ chain' \in Seq(Transaction) /\ DOMAIN chain' = DOMAIN chain
      /\ Len(chain') = Len(chain) /\ chain'[t] = u
      /\ \A i \in DOMAIN chain : i # t => chain'[i] = chain[i]
  BY <1>1, <1>2, <1>3 DEF u
<1> QED BY <1>2, <1>3, <1>4, <1>5 DEF ChainKept

LEMMA SettleGood ==
    ASSUME Good, NEW t \in DOMAIN chain, Settle(t)
    PROVE  Good'
<1>0. ChainKept /\ row' = row /\ operator' = operator
      /\ UNCHANGED causes /\ UNCHANGED faults
  BY SettleKept DEF Settle
<1>1. RowKept /\ GoodRow' /\ AnchoredIsOnChain'
  BY <1>0, SameRow
<1>2. ASSUME NEW o \in Operator PROVE GoodInvocation(operator[o])'
  <2>1. GoodInvocation(operator[o])
    BY DEF Good
  <2>2. /\ operator[o].pc # "idle" =>
              operator[o].binding \in Binding /\ operator[o].wallet \in Wallet
        /\ operator[o].pc \in Working =>
              row'.status # None /\ operator[o].binding = row'.binding
        /\ operator[o].pc \in Following => operator[o].tx \in DOMAIN chain'
        /\ operator[o].pc = "confirm" => Verifiable(operator[o].tx, operator[o].binding)'
    BY <1>0, <1>1, <2>1, GoodStays
  <2> QED BY <1>0, <2>2 DEF GoodInvocation
<1>3. AttestationTypeOK'
  BY <1>0 DEF Good, AttestationTypeOK, ChainKept
<1> QED BY <1>1, <1>2, <1>3 DEF Good

-----------------------------------------------------------------------------
\* Broadcasts are counted

\* How the operators about to broadcast change when one moves.
LEMMA SendingMoves ==
    ASSUME NEW o \in Operator, Moves(o), IsFiniteSet(Sending)
    PROVE  /\ IsFiniteSet(Sending') /\ Cardinality(Sending') \in Nat
           /\ Cardinality(Sending) \in Nat
           /\ (operator[o].pc = "broadcast" <=> operator'[o].pc = "broadcast") =>
                 Sending' = Sending
           /\ operator[o].pc = "broadcast" /\ operator'[o].pc # "broadcast" =>
                 Cardinality(Sending') = Cardinality(Sending) - 1
           /\ operator[o].pc # "broadcast" /\ operator'[o].pc = "broadcast" =>
                 Cardinality(Sending') = Cardinality(Sending) + 1
<1>1. CASE operator[o].pc = "broadcast" <=> operator'[o].pc = "broadcast"
  <2>1. Sending' = Sending
    BY <1>1 DEF Moves, Sending
  <2> QED BY <1>1, <2>1, FS_CardinalityType
<1>2. CASE operator[o].pc = "broadcast" /\ operator'[o].pc # "broadcast"
  <2>1. Sending' = Sending \ {o} /\ o \in Sending
    BY <1>2 DEF Moves, Sending
  <2> QED BY <1>2, <2>1, FS_RemoveElement, FS_CardinalityType
<1>3. CASE operator[o].pc # "broadcast" /\ operator'[o].pc = "broadcast"
  <2>1. Sending' = Sending \cup {o} /\ o \notin Sending
    BY <1>3 DEF Moves, Sending
  <2> QED BY <1>3, <2>1, FS_AddElement, FS_CardinalityType
<1> QED BY <1>1, <1>2, <1>3

\* Where nobody is about to broadcast there is nobody to count.
LEMMA NobodySending ==
    ASSUME \A o \in Operator : operator[o].pc # "broadcast"
    PROVE  Sending = {} /\ Cardinality(Sending) = 0
BY FS_EmptySet DEF Sending

LEMMA Numbers ==
    ASSUME AttestationInv
    PROVE  /\ Len(chain) \in Nat /\ Len(chain) <= MaxBroadcasts
           /\ causes \in Nat /\ causes <= MaxBroadcasts /\ MaxBroadcasts \in Nat
           /\ IsFiniteSet(Sending)
           /\ operator \in [Operator -> Invocation]
BY AttestationAssumption DEF AttestationInv, Good, AttestationTypeOK, Counted

LEMMA InitCounted == AttestationInit => Counted
<1> SUFFICES ASSUME AttestationInit PROVE Counted
  OBVIOUS
<1>1. \A o \in Operator : operator[o].pc # "broadcast"
  BY DEF AttestationInit, NotRunning
<1>2. Len(chain) = 0 /\ causes = 0
  BY DEF AttestationInit
<1> QED BY <1>1, <1>2, NobodySending, FS_EmptySet DEF Counted

\* A step that broadcasts nothing, begins nothing and restarts nothing.
LEMMA NothingNew ==
    ASSUME AttestationInv, NEW o \in Operator, Moves(o), Len(chain') = Len(chain),
           UNCHANGED causes, operator'[o].pc # "broadcast", Restartable' => Restartable,
           operator[o].pc \in Recorded \cup {"broadcast"} \/ ~Restartable'
                \/ operator'[o].pc \notin Recorded
    PROVE  Counted'
<1>0. /\ Len(chain) \in Nat /\ causes \in Nat /\ IsFiniteSet(Sending)
  BY Numbers
<1>1. /\ IsFiniteSet(Sending') /\ Cardinality(Sending') \in Nat /\ Cardinality(Sending) \in Nat
      /\ Cardinality(Sending') <= Cardinality(Sending)
      /\ operator[o].pc = "broadcast" => Cardinality(Sending') = Cardinality(Sending) - 1
  BY <1>0, SendingMoves
<1> SUFFICES ASSUME causes < MaxBroadcasts
             PROVE  /\ Len(chain) + Cardinality(Sending') <= 1 + causes
                    /\ Restartable' /\ (\A p \in Operator : operator'[p].pc \in Recorded)
                          => Len(chain) <= causes
  BY <1>1 DEF Counted
<1>2. Len(chain) + Cardinality(Sending) <= 1 + causes
  BY DEF AttestationInv, Counted
<1>3. ASSUME Restartable', \A p \in Operator : operator'[p].pc \in Recorded
      PROVE  Len(chain) <= causes
  <2>1. CASE operator[o].pc = "broadcast"
    BY <1>0, <1>1, <1>2, <2>1
  <2>2. CASE operator[o].pc # "broadcast"
    <3>1. \A p \in Operator : operator[p].pc \in Recorded
      BY <1>3, <2>2 DEF Moves
    <3> QED BY <1>3, <3>1 DEF AttestationInv, Counted
  <2> QED BY <2>1, <2>2
<1> QED BY <1>0, <1>1, <1>2, <1>3

\* A step that broadcasts nothing, begins nothing, and has a cause.
LEMMA CauseCounted ==
    ASSUME AttestationInv, NEW o \in Operator, Moves(o), UNCHANGED chain, Cause,
           operator'[o].pc # "broadcast"
    PROVE  Counted'
<1>0. /\ Len(chain) \in Nat /\ causes \in Nat /\ MaxBroadcasts \in Nat /\ IsFiniteSet(Sending)
  BY Numbers
<1>1. /\ IsFiniteSet(Sending') /\ Cardinality(Sending') \in Nat /\ Cardinality(Sending) \in Nat
      /\ Cardinality(Sending') <= Cardinality(Sending)
  BY <1>0, SendingMoves
<1>2. causes' < MaxBroadcasts => causes < MaxBroadcasts /\ causes' = causes + 1
  BY <1>0 DEF Cause
<1>3. causes < MaxBroadcasts => Len(chain) + Cardinality(Sending) <= 1 + causes
  BY DEF AttestationInv, Counted
<1>4. causes' < MaxBroadcasts => Len(chain) + Cardinality(Sending') <= causes'
  BY <1>0, <1>1, <1>2, <1>3
<1>5. causes' \in Nat
  BY <1>0 DEF Cause
<1> QED BY <1>0, <1>1, <1>4, <1>5 DEF Counted

LEMMA BeginCounted ==
    ASSUME AttestationInv, NEW o \in Operator, NEW b \in Binding, NEW w \in Wallet,
           Begin(o, b, w)
    PROVE  Counted'
<1>0. /\ Len(chain) \in Nat /\ causes \in Nat /\ MaxBroadcasts \in Nat /\ IsFiniteSet(Sending)
      /\ operator \in [Operator -> Invocation] /\ Good /\ row \in Row
  BY Numbers DEF AttestationInv, Good, AttestationTypeOK
<1>1. /\ operator[o].pc = "idle" /\ chain' = chain /\ (Cause \/ UNCHANGED causes)
  BY DEF Begin
<1>2. Good'
  BY <1>0, BeginGood
<1>3. Moves(o)
  BY <1>2 DEF Begin, Moves, Good, AttestationTypeOK
<1>4. CASE ~SamePayload(b)
  <2>1. operator'[o].pc = "fail" /\ row' = row
    BY <1>0, <1>4 DEF Begin, NotRunning
  <2>2. CASE Cause
    BY <1>1, <1>3, <2>1, <2>2, CauseCounted
  <2>3. CASE UNCHANGED causes
    BY <1>1, <1>3, <2>1, <2>3, NothingNew DEF Recorded, Restartable
  <2> QED BY <1>1, <2>2, <2>3
<1>5. CASE SamePayload(b)
  <2> DEFINE status == IF row.status = None THEN "pending" ELSE Restarted(row.status)
             resumes == status = "submitted" /\ row.tx # 0
             q == IF status = "anchored" THEN NotRunning
                  ELSE [pc |-> IF resumes THEN "lookup" ELSE "broadcast",
                        binding |-> b, wallet |-> w, tx |-> IF resumes THEN row.tx ELSE 0]
  <2>0. /\ row' = [row EXCEPT !.status = status,
                              !.binding = IF row.binding = None THEN b ELSE row.binding]
        /\ operator' = [operator EXCEPT ![o] = q]
    BY <1>5 DEF Begin
  <2>1. /\ row'.status = status
        /\ operator'[o].pc = IF status = "anchored" THEN "idle"
                             ELSE IF status = "submitted" /\ row.tx # 0 THEN "lookup"
                             ELSE "broadcast"
    <3>1. q.pc = IF status = "anchored" THEN "idle"
                 ELSE IF status = "submitted" /\ row.tx # 0 THEN "lookup"
                 ELSE "broadcast"
      BY DEF NotRunning
    <3> HIDE DEF q, status
    <3> QED BY <1>0, <2>0, <3>1 DEF Row
  <2>2. status \in {"pending", "submitted", "anchored"}
    BY DEF Restarted
  <2>3. status = "pending" <=> Restartable
    BY <1>0 DEF Restarted, Restartable, Row
  <2>4. status = "submitted" => row.tx # 0
    BY <1>0 DEF Restarted, Good, GoodRow
  <2> HIDE DEF status, resumes, q
  <2>5. Restartable' <=> Restartable
    BY <2>1, <2>2, <2>3 DEF Restartable, None
  <2>6. operator'[o].pc = "broadcast" => Restartable
    BY <2>1, <2>2, <2>3, <2>4
  <2>7. CASE operator'[o].pc # "broadcast"
    <3>1. CASE Cause
      BY <1>1, <1>3, <2>7, <3>1, CauseCounted
    <3>2. CASE UNCHANGED causes
      BY <1>1, <1>3, <2>5, <2>7, <3>2, NothingNew DEF Recorded
    <3> QED BY <1>1, <3>1, <3>2
  <2>8. CASE operator'[o].pc = "broadcast"
    <3>1. /\ IsFiniteSet(Sending') /\ Cardinality(Sending) \in Nat
          /\ Cardinality(Sending') = Cardinality(Sending) + 1
      BY <1>0, <1>1, <1>3, <2>8, SendingMoves
    <3>2. causes' \in Nat
      BY <1>0, <1>1 DEF Cause
    <3>3. CASE \E p \in Operator \ {o} : operator[p].pc # "idle"
      <4>1. Cause
        BY <3>3 DEF Begin
      <4>2. causes' < MaxBroadcasts => causes < MaxBroadcasts /\ causes' = causes + 1
        BY <1>0, <4>1 DEF Cause
      <4>3. causes < MaxBroadcasts => Len(chain) + Cardinality(Sending) <= 1 + causes
        BY DEF AttestationInv, Counted
      <4>4. causes' < MaxBroadcasts => Len(chain') + Cardinality(Sending') <= 1 + causes'
        BY <1>0, <1>1, <3>1, <4>2, <4>3
      <4> QED BY <2>8, <3>1, <4>4 DEF Counted, Recorded
    <3>4. CASE \A p \in Operator \ {o} : operator[p].pc = "idle"
      <4>1. causes' = causes
        BY <3>4 DEF Begin
      <4>2. \A p \in Operator : operator[p].pc = "idle"
        BY <1>1, <3>4
      <4>3. causes < MaxBroadcasts => Len(chain) <= causes
        BY <2>6, <2>8, <4>2 DEF AttestationInv, Counted, Recorded
      <4>4. Cardinality(Sending) = 0
        BY <4>2, NobodySending
      <4>5. causes' < MaxBroadcasts => Len(chain') + Cardinality(Sending') <= 1 + causes'
        BY <1>0, <1>1, <3>1, <4>1, <4>3, <4>4
      <4> QED BY <2>8, <3>1, <4>5 DEF Counted, Recorded
    <3> QED BY <3>3, <3>4
  <2> QED BY <2>7, <2>8
<1> QED BY <1>4, <1>5

LEMMA BroadcastCounted ==
    ASSUME AttestationInv, NEW o \in Operator, Broadcast(o) \/ BroadcastUnacknowledged(o)
    PROVE  Counted'
<1>0. /\ Len(chain) \in Nat /\ causes \in Nat /\ IsFiniteSet(Sending) /\ Good
      /\ operator \in [Operator -> Invocation] /\ Good'
  BY Numbers, BroadcastGood DEF AttestationInv
<1>1. /\ operator[o].pc = "broadcast" /\ UNCHANGED causes /\ Len(chain') = Len(chain) + 1
  BY <1>0, SentKept DEF Broadcast, BroadcastUnacknowledged
<1>2. operator'[o].pc \in {"record", "fail"} /\ Moves(o)
  BY <1>0 DEF Broadcast, BroadcastUnacknowledged, Goto, Moves, Good, AttestationTypeOK,
              Invocation
<1>3. /\ IsFiniteSet(Sending') /\ Cardinality(Sending) \in Nat
      /\ Cardinality(Sending') = Cardinality(Sending) - 1
  BY <1>0, <1>1, <1>2, SendingMoves
<1>4. causes < MaxBroadcasts => Len(chain) + Cardinality(Sending) <= 1 + causes
  BY DEF AttestationInv, Counted
<1>5. causes' < MaxBroadcasts => Len(chain') + Cardinality(Sending') <= 1 + causes'
  BY <1>0, <1>1, <1>3, <1>4
<1> QED BY <1>2, <1>3, <1>5 DEF Counted, Recorded

LEMMA MovedCounted ==
    ASSUME AttestationInv, NEW o \in Operator, Lookup(o) \/ Wait(o) \/ Read(o) \/ CallFails(o)
    PROVE  Counted'
<1> USE DEF Lookup, Wait, Read, CallFails
<1>1. PICK to \in {"wait", "read", "confirm", "fail"} :
         Goto(o, to) /\ (to # "fail" => operator[o].pc \in Recorded)
  BY DEF Recorded
<1>2. Moves(o) /\ operator'[o].pc = to
  BY <1>1, GotoMoves DEF AttestationInv
<1>3. chain' = chain /\ UNCHANGED causes /\ row' = row
  OBVIOUS
<1> QED BY <1>1, <1>2, <1>3, NothingNew DEF Recorded, Restartable

LEMMA RecordCounted ==
    ASSUME AttestationInv, NEW o \in Operator, Record(o)
    PROVE  Counted'
<1> USE DEF Record
<1>1. Moves(o) /\ operator'[o].pc = "wait"
  BY GotoMoves DEF AttestationInv
<1>2. row \in Row
  BY DEF AttestationInv, Good, AttestationTypeOK
<1>3. row'.status \in {"anchored", "submitted"}
  BY <1>2 DEF Row
<1> QED BY <1>1, <1>3, NothingNew DEF Recorded, Restartable, None

LEMMA ConfirmCounted ==
    ASSUME AttestationInv, NEW o \in Operator, Confirm(o) \/ ConfirmUnacknowledged(o)
    PROVE  Counted'
<1> USE DEF Confirm, ConfirmUnacknowledged
<1>1. Moves(o) /\ operator'[o].pc \in {"idle", "fail"}
  BY GotoMoves, EndsMoves DEF AttestationInv
<1>2. row \in Row
  BY DEF AttestationInv, Good, AttestationTypeOK
<1>3. Restartable' => Restartable
  BY <1>2 DEF Anchored, Row, Restartable, None
<1> QED BY <1>1, <1>3, NothingNew DEF Recorded

LEMMA FailCounted ==
    ASSUME AttestationInv, NEW o \in Operator, Fail(o)
    PROVE  Counted'
<1>1. Moves(o) /\ operator'[o].pc = "idle"
  BY EndsMoves DEF AttestationInv, Fail
<1> QED BY <1>1, CauseCounted DEF Fail

LEMMA DiesCounted ==
    ASSUME AttestationInv, NEW o \in Operator, Dies(o)
    PROVE  Counted'
<1> USE DEF Dies
<1>1. Moves(o) /\ operator'[o].pc = "idle"
  BY EndsMoves DEF AttestationInv
<1>2. CASE operator[o].pc \in {"record", "fail"}
  BY <1>1, <1>2, CauseCounted
<1>3. CASE operator[o].pc \notin {"record", "fail"}
  <2>1. operator[o].pc \in Recorded \cup {"broadcast"}
    BY <1>3 DEF AttestationInv, Good, AttestationTypeOK, Invocation, Recorded
  <2> QED BY <1>1, <1>3, <2>1, NothingNew DEF Restartable
<1> QED BY <1>2, <1>3

LEMMA SettleCounted ==
    ASSUME AttestationInv, NEW t \in DOMAIN chain, Settle(t)
    PROVE  Counted'
<1>1. Len(chain') = Len(chain)
  BY DEF Settle, AttestationInv, Good, AttestationTypeOK
<1> QED BY <1>1 DEF Settle, AttestationInv, Counted, Sending, Restartable

-----------------------------------------------------------------------------
\* The invariant

LEMMA AttestationNextInv == AttestationInv /\ [AttestationNext]_attestationVars => AttestationInv'
<1> SUFFICES ASSUME AttestationInv, [AttestationNext]_attestationVars PROVE AttestationInv'
  OBVIOUS
<1> USE DEF AttestationInv
<1>1. ASSUME NEW o \in Operator, NEW b \in Binding, NEW w \in Wallet, Begin(o, b, w)
      PROVE  AttestationInv'
  BY <1>1, BeginGood, BeginCounted
<1>2. ASSUME NEW o \in Operator, Broadcast(o) \/ BroadcastUnacknowledged(o)
      PROVE  AttestationInv'
  BY <1>2, BroadcastGood, BroadcastCounted
<1>3. ASSUME NEW o \in Operator, Lookup(o) \/ Wait(o) \/ Read(o) \/ CallFails(o)
      PROVE  AttestationInv'
  BY <1>3, MovedGood, MovedCounted
<1>4. ASSUME NEW o \in Operator, Record(o) PROVE AttestationInv'
  BY <1>4, RecordGood, RecordCounted
<1>5. ASSUME NEW o \in Operator, Confirm(o) \/ ConfirmUnacknowledged(o) PROVE AttestationInv'
  BY <1>5, ConfirmGood, ConfirmCounted
<1>6. ASSUME NEW o \in Operator, Fail(o) PROVE AttestationInv'
  BY <1>6, FailGood, FailCounted
<1>7. ASSUME NEW o \in Operator, Dies(o) PROVE AttestationInv'
  BY <1>7, DiesGood, DiesCounted
<1>8. ASSUME NEW t \in DOMAIN chain, Settle(t) PROVE AttestationInv'
  BY <1>8, SettleGood, SettleCounted
<1>9. CASE UNCHANGED attestationVars
  BY <1>9 DEF attestationVars, Good, AttestationTypeOK, GoodRow, GoodInvocation,
              AnchoredIsOnChain, Verifiable, Matches, Counted, Sending, Restartable
<1> QED BY <1>1, <1>2, <1>3, <1>4, <1>5, <1>6, <1>7, <1>8, <1>9 DEF AttestationNext

LEMMA AttestationInvariance == AttestationSpec => []AttestationInv
<1>1. AttestationInit => AttestationInv
  BY InitGood, InitCounted DEF AttestationInv
<1> QED BY <1>1, AttestationNextInv, PTL DEF AttestationSpec

\* One step never touches an anchored row.
LEMMA AnchoredStays ==
    ASSUME AttestationInv, AttestationNext, row.status = "anchored"
    PROVE  row' = row
<1>0. row \in Row /\ ~Confirmable
  BY DEF AttestationInv, Good, AttestationTypeOK, Confirmable
<1>1. ASSUME NEW o \in Operator, NEW b \in Binding, NEW w \in Wallet, Begin(o, b, w)
      PROVE  row' = row
  <2>1. CASE ~SamePayload(b)
    BY <1>1, <2>1 DEF Begin
  <2>2. CASE SamePayload(b)
    <3>1. row.binding = b
      BY <2>2 DEF SamePayload, None
    <3>2. row' = [row EXCEPT !.status = "anchored",
                             !.binding = IF row.binding = None THEN b ELSE row.binding]
      BY <1>1, <2>2 DEF Begin, Restarted, None
    <3> QED BY <1>0, <3>1, <3>2 DEF Row
  <2> QED BY <2>1, <2>2
<1>2. ASSUME NEW o \in Operator, Record(o) \/ Confirm(o) \/ Fail(o) PROVE row' = row
  BY <1>0, <1>2 DEF Record, Confirm, Fail, None
<1>3. ASSUME NEW o \in Operator, ConfirmUnacknowledged(o) PROVE row' = row
  BY <1>0, <1>3 DEF ConfirmUnacknowledged
<1>4. CASE UNCHANGED row
  BY <1>4
<1> QED BY <1>1, <1>2, <1>3, <1>4
        DEF AttestationNext, Broadcast, Lookup, Wait, Read, CallFails,
            BroadcastUnacknowledged, Dies, Settle

-----------------------------------------------------------------------------
\* THEOREMS

\* Types: the row of agenttrial_attestations, the transactions of eas.attest.
THEOREM AttestationTypeCorrect == AttestationSpec => []AttestationTypeOK
BY AttestationInvariance, PTL DEF AttestationInv, Good

\* confirmAttestation: whoever took part, what an anchored row names is a mined
\* attestation of the row's own schema and report URI.
THEOREM AnchoredMeansMined == AttestationSpec => []AnchoredIsOnChain
BY AttestationInvariance, PTL DEF AttestationInv, Good

\* The guards of beginAttestation, recordAttestationSubmitted, confirmAttestation
\* and failAttestation: none of them takes an anchored row back.
THEOREM AnchoredForGood == AttestationSpec => AnchorIsFinal
<1>1. AttestationInv /\ [AttestationNext]_attestationVars =>
        [row.status = "anchored" => row' = row]_attestationVars
  BY AnchoredStays
<1> QED BY <1>1, AttestationInvariance, PTL DEF AttestationSpec, AnchorIsFinal

\* beginAttestation and recordAttestationSubmitted: a receipt is broadcast again
\* only after a failure, a death before the record, or an overlap.
THEOREM NoIdleRebroadcast == AttestationSpec => []RebroadcastHasCause
<1>1. AttestationInv => RebroadcastHasCause
  <2> SUFFICES ASSUME AttestationInv PROVE Len(chain) <= 1 + causes
    BY DEF RebroadcastHasCause
  <2>1. /\ Len(chain) \in Nat /\ Len(chain) <= MaxBroadcasts /\ causes \in Nat
        /\ causes <= MaxBroadcasts /\ MaxBroadcasts \in Nat /\ IsFiniteSet(Sending)
    BY Numbers
  <2>2. Cardinality(Sending) \in Nat
    BY <2>1, FS_CardinalityType
  <2>3. causes < MaxBroadcasts => Len(chain) + Cardinality(Sending) <= 1 + causes
    BY DEF AttestationInv, Counted
  <2> QED BY <2>1, <2>2, <2>3
<1> QED BY <1>1, AttestationInvariance, PTL

-----------------------------------------------------------------------------
\* The two together

\* What the registry promises, with attestations made meanwhile.
THEOREM TrustComposed ==
    Spec => []IssuedIsTrusted /\ TrustIsStable /\ RevocationIsFinal
<1>1. Init => RegistryInit
  BY DEF Init
<1>2. [Next]_vars => [RegistryNext]_registryVars
  BY DEF Next, vars
<1>3. Spec => RegistrySpec
  BY <1>1, <1>2, PTL DEF Spec, RegistrySpec
<1> QED BY <1>3, EveryReceiptIsTrusted, TrustLasts, RevokedForGood

\* What eas-attest.mjs promises, of a receipt that the registry answers for.
THEOREM AnchoringComposed ==
    Spec => []AnchoredIsOnChain /\ []RebroadcastHasCause /\ AnchorIsFinal
<1>1. Init => AttestationInit
  BY DEF Init
<1>2. [Next]_vars => [AttestationNext]_attestationVars
  BY DEF Next, vars
<1>3. Spec => AttestationSpec
  BY <1>1, <1>2, PTL DEF Spec, AttestationSpec
<1> QED BY <1>3, AnchoredMeansMined, NoIdleRebroadcast, AnchoredForGood
=============================================================================
