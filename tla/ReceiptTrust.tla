----------------------------- MODULE ReceiptTrust -----------------------------
(***************************************************************************)
(* What stands behind a receipt once it is signed, in the database         *)
(* deployment: the registry that says its key was in use, and the          *)
(* attestation that anchors it.                                            *)
(*                                                                         *)
(* The two share nothing but the receipt, which neither changes.  So       *)
(* anchoring starts from a quiet registry with one key and one receipt,    *)
(* and the registry rests meanwhile: interleaving them would multiply the  *)
(* states and add no behaviour to either.                                  *)
(***************************************************************************)
EXTENDS KeyRegistry, Attestation

vars == <<registryVars, attestationVars>>

TypeOK == RegistryTypeOK /\ AttestationTypeOK

Init == RegistryInit /\ AttestationInit

Untouched == row.status = None /\ \A o \in Operator : operator[o].pc = "idle"

Quiet ==
    /\ ~rolling /\ now = 0 /\ rotated = {}
    /\ \A k \in Key : signer[k] = "off"
    /\ Cardinality({k \in Key : registry[k].status # "none"}) = 1

\* The script refuses a bundle whose key its operator has not pinned, and the
\* operator pins a key the registry answers for.
Verified == \E r \in receipts : TrustedNow(r)

Next ==
    \/ RegistryNext /\ Untouched /\ UNCHANGED attestationVars
    \/ AttestationNext /\ Quiet /\ Verified /\ UNCHANGED registryVars

Spec == Init /\ [][Next]_vars
=============================================================================
