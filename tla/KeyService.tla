---------------------------- MODULE KeyService ----------------------------
(***************************************************************************)
(* How a replica keeps keys ready for requests: the key in its memory and  *)
(* the client that serves it, the shared relay client, the locations by    *)
(* which replicas find each other's keys, and the connections to the       *)
(* signers that proxy keys stand for.  RegisterKey and UnregisterKey are   *)
(* what the first three have in common; the parts exchange nothing else,   *)
(* so a behaviour follows one part.                                        *)
(***************************************************************************)
EXTENDS KeyRuntime, BaseClient, KeyLocation, UpstreamProxy

VARIABLE part

serviceVars == <<runtimeVars, baseVars, locationVars, proxyVars, part>>

Parts == {"runtime", "base", "location", "proxy"}

TypeOK == RuntimeTypeOK /\ BaseTypeOK /\ LocationTypeOK /\ ProxyTypeOK /\ part \in Parts

Init ==
  /\ part \in Parts /\ Start /\ Connect /\ LocationInit /\ NewClient
  /\ part = "base" \/ outages = 0
  /\ part = "location" \/ offset = [r \in Replicas |-> 0]

Next ==
  /\ UNCHANGED part
  /\ \/ part = "runtime" /\ RuntimeNext /\ UNCHANGED <<baseVars, locationVars, proxyVars>>
     \/ part = "base" /\ BaseNext /\ UNCHANGED <<runtimeVars, locationVars, proxyVars>>
     \/ part = "location" /\ LocationNext /\ UNCHANGED <<runtimeVars, baseVars, proxyVars>>
     \/ part = "proxy" /\ ProxyNext /\ UNCHANGED <<runtimeVars, baseVars, locationVars>>

Spec ==
  /\ Init /\ [][Next]_serviceVars
  /\ RuntimeFairness /\ LocationFairness /\ ProxyFairness
=============================================================================
