----------------------------- MODULE FrostKeys ------------------------------
(***************************************************************************)
(* The keys that are shared by FROST: those between the signer and a       *)
(* browser (UserCosign), the dealer's keys of one instance (DealerKeys)    *)
(* and the key generation between instances (DistributedDKG).  They share  *)
(* the process and the database and nothing that one writes is read by     *)
(* another, as long as a distributed key generation does not complete.     *)
(***************************************************************************)
EXTENDS UserCosign, DealerKeys, DistributedDKG

VARIABLE kind

Kinds == {"cosign", "dealer", "dkg"}

\* What does not matter to the others.
AnyBackend == CHOOSE b \in Backends : TRUE
AnyPolynomial == CHOOSE p \in Polynomials : TRUE

Init ==
  /\ kind \in Kinds /\ CosignInit /\ KeyInit /\ DKGInit
  /\ kind # "dealer" => backend = AnyBackend /\ poly = AnyPolynomial /\ bundles = {}

\* A behaviour follows one kind of key.
Next ==
  /\ UNCHANGED kind
  /\ \/ kind = "cosign" /\ CosignNext /\ UNCHANGED <<keyVars, dkgVars>>
     \/ kind = "dealer" /\ KeyNext /\ UNCHANGED <<cosignVars, dkgVars>>
     \/ kind = "dkg" /\ DKGNext /\ UNCHANGED <<cosignVars, keyVars>>

Spec == Init /\ [][Next]_<<cosignVars, keyVars, dkgVars, kind>>
=============================================================================
