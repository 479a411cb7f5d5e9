------------------------ MODULE OneTimeSecrets_proofs -----------------------
(***************************************************************************)
(* Proofs about OneTimeSecrets: no late acceptance, the memory backend      *)
(* implements OneTime, and the bound on the overrun of a usage limit.      *)
(***************************************************************************)
EXTENDS OneTimeSecrets, FiniteSetTheorems, TLAPS

\* Both sets of requests between two statements are finite.
LEMMA InFlightFinite ==
  /\ IsFiniteSet(Working) /\ Cardinality(Working) \in Nat
  /\ IsFiniteSet(Answering) /\ Cardinality(Answering) \in Nat
  /\ Cardinality(Workers) \in Nat
  /\ Cardinality(Working) <= Cardinality(Workers)
<1>1. Working \in SUBSET Workers /\ Answering \in SUBSET Workers
  BY DEF Working, Answering
<1> QED
  BY <1>1, WorkerAssumption, FS_Subset, FS_CardinalityType

\* The same one step later.
LEMMA InFlightFiniteNext ==
  /\ IsFiniteSet(Working') /\ Cardinality(Working') \in Nat
  /\ IsFiniteSet(Answering') /\ Cardinality(Answering') \in Nat
  /\ Cardinality(Working') <= Cardinality(Workers)
<1>1. Working' \in SUBSET Workers /\ Answering' \in SUBSET Workers
  BY DEF Working, Answering
<1> QED
  BY <1>1, WorkerAssumption, FS_Subset, FS_CardinalityType

\* Moving a redemption on changes its step and nothing else.
LEMMA ToEffect ==
  ASSUME hs \in [Procs -> Handler], NEW p \in Procs, To(p, "mark") \/ To(p, "policy")
         \/ To(p, "key") \/ To(p, "store")
  PROVE  /\ hs' \in [Procs -> Handler]
         /\ hs'[p].pc \in {"mark", "policy", "key", "store"}
         /\ \A q \in Procs : /\ q # p => hs'[q] = hs[q]
                            /\ hs'[q].client = hs[q].client /\ hs'[q].item = hs[q].item
                            /\ hs'[q].before = hs[q].before
         /\ To(p, "policy") \/ To(p, "key") \/ To(p, "store") => hs'[p].pc # "mark"
<1>1. hs[p] \in Handler
  OBVIOUS
<1> QED
  BY <1>1 DEF To, Handler

\* Ending one clears it.
LEMMA FinishEffect ==
  ASSUME hs \in [Procs -> Handler], NEW p \in Procs, Finish(p)
  PROVE  /\ hs' \in [Procs -> Handler] /\ hs'[p] = Idle
         /\ \A q \in Procs : q # p => hs'[q] = hs[q]
BY DEF Finish, Handler, Idle

\* The states at start-up satisfy the inductive invariant.
LEMMA InitInv == Init => IInv
<1> SUFFICES ASSUME Init PROVE IInv
  OBVIOUS
<1>1. TypeOK
  BY ItemAssumption DEF Init, TypeOK, Items, Handler, Idle, Worker, Resting
<1>2. SpentStays /\ HandlersNamed /\ NoLateAcceptance /\ MemoryMarks
  BY DEF Init, SpentStays, HandlersNamed, NoLateAcceptance, MemoryMarks, Idle
<1>3. UsageInv
  <2>1. Working = {} /\ Answering = {}
    BY DEF Init, Working, Answering, Resting
  <2>2. Cardinality(Working) = 0 /\ Cardinality(Answering) = 0
    BY <2>1, FS_EmptySet
  <2>3. limit \in Nat
    BY LimitAssumption DEF Init
  <2> QED
    BY <2>2, <2>3, InFlightFinite DEF Init, UsageInv, Resting
<1> QED
  BY <1>1, <1>2, <1>3 DEF IInv

-----------------------------------------------------------------------------
(* Types.                                                                  *)

\* Every step of the owner, of a redemption or of a request keeps the types.
LEMMA TypesStep == IInv /\ [Next]_vars => TypeOK'
<1> SUFFICES ASSUME IInv, [Next]_vars PROVE TypeOK'
  OBVIOUS
<1> USE DEF IInv, TypeOK
<1>1. CASE Owner
  <2>1. CASE CreatePolicy \/ DeletePolicy \/ PolicyLapses \/ DeleteKey
    BY <2>1 DEF CreatePolicy, DeletePolicy, PolicyLapses, DeleteKey, itemVars, policyVars,
       workVars
  <2>2. CASE \E i \in Items : CreateToken(i) \/ DeleteToken(i) \/ CreateBunkerSecret(i)
                              \/ ItemExpires(i)
    BY <2>2 DEF CreateToken, DeleteToken, CreateBunkerSecret, ItemExpires, SetItem,
       policyVars, workVars
  <2>3. CASE \E c \in Clients : DeletePermission(c) \/ handleSetPermission(c)
    BY <2>3 DEF DeletePermission, handleSetPermission, itemVars, policyVars, workVars
  <2> QED
    BY <1>1, <2>1, <2>2, <2>3 DEF Owner, Items
<1>2. CASE Redemption
  <2> PICK p \in Procs :
        \/ \E c \in Clients, t \in Tokens : RedeemToken(p, c, t)
        \/ \E c \in Clients, s \in Secrets : Connect(p, c, s)
        \/ ValidateBunkerSecret(p) \/ Mark(p) \/ RedeemPolicy(p) \/ RedeemKey(p)
        \/ SetPermission(p) \/ Abort(p)
    BY <1>2 DEF Redemption
  <2>0. Idle \in Handler /\ hs[p] \in Handler
    BY DEF Idle, Handler
  <2>1. ASSUME NEW c \in Clients, NEW t \in Tokens, RedeemToken(p, c, t) PROVE TypeOK'
    <3>1. Spent \in SUBSET Items /\ t \in Items
      BY DEF Spent, Items
    <3>2. [pc |-> IF backend = "memory" THEN Accepted(t) ELSE "mark",
           client |-> c, item |-> t, before |-> Spent] \in Handler
      BY <3>1 DEF Handler, Accepted
    <3>3. hs' \in [Procs -> Handler]
      BY <2>1, <3>2 DEF RedeemToken
    <3>4. /\ item' \in [Items -> {"none", "open", "used", "expired", "gone"}]
          /\ accepted' \in [Items -> Nat]
      BY <2>1, <3>1 DEF RedeemToken, MarkUsed, itemVars
    <3> QED
      BY <2>1, <3>3, <3>4 DEF RedeemToken, policyVars, workVars
  <2>2. ASSUME NEW c \in Clients, NEW s \in Secrets, Connect(p, c, s) PROVE TypeOK'
    <3>1. Spent \in SUBSET Items /\ s \in Items
      BY DEF Spent, Items
    <3> QED
      BY <2>2, <3>1 DEF Connect, Handler, itemVars, policyVars, workVars
  <2>3. CASE ValidateBunkerSecret(p)
    BY <2>3, <2>0 DEF ValidateBunkerSecret, MarkUsed, Accepted, To, Finish, Handler,
       itemVars, policyVars, workVars
  <2>4. CASE Mark(p)
    <3>1. To(p, "policy") \/ To(p, "store")
      BY <2>4 DEF Mark, Accepted
    <3>2. hs' \in [Procs -> Handler]
      BY <3>1, ToEffect
    <3>3. hs[p].item \in Items
      BY <2>4 DEF Mark, HandlersNamed
    <3> QED
      BY <2>4, <3>2, <3>3 DEF Mark, MarkUsed, policyVars, workVars
  <2>5. CASE RedeemPolicy(p) \/ RedeemKey(p) \/ Abort(p)
    BY <2>5, ToEffect, FinishEffect DEF RedeemPolicy, RedeemKey, Abort, itemVars,
       policyVars, workVars
  <2>6. CASE SetPermission(p)
    BY <2>6, <2>0 DEF SetPermission, Finish, itemVars, policyVars, workVars
  <2> QED
    BY <2>1, <2>2, <2>3, <2>4, <2>5, <2>6
<1>3. CASE Work
  <2> PICK w \in Workers :
        \/ \E c \in Clients : StartRequest(w, c)
        \/ checkPolicyUsage(w) \/ IncrementRuleUsage(w) \/ sendResult(w) \/ RequestDies(w)
    BY <1>3 DEF Work
  <2>1. wk[w] \in Worker /\ Resting \in Worker
    BY DEF Worker, Resting
  <2>2. CASE \E c \in Clients : StartRequest(w, c)
    BY <2>2 DEF StartRequest, Worker, itemVars, policyVars
  <2>3. CASE checkPolicyUsage(w)
    BY <2>1, <2>3 DEF checkPolicyUsage, Worker, itemVars, policyVars
  <2>4. CASE IncrementRuleUsage(w)
    BY <2>1, <2>4 DEF IncrementRuleUsage, Worker, itemVars
  <2>5. CASE sendResult(w) \/ RequestDies(w)
    BY <2>1, <2>5 DEF sendResult, RequestDies, itemVars, policyVars
  <2> QED
    BY <2>2, <2>3, <2>4, <2>5
<1>4. CASE UNCHANGED vars
  BY <1>4 DEF vars
<1> QED
  BY <1>1, <1>2, <1>3, <1>4 DEF Next

-----------------------------------------------------------------------------
(* Secrets.                                                                *)

SecretsInv == SpentStays /\ HandlersNamed /\ NoLateAcceptance /\ MemoryMarks

\* A step that leaves the items and the redemptions alone keeps their
\* invariant.
LEMMA SecretsUntouched ==
  IInv /\ UNCHANGED <<backend, item, accepted, hs>> => SecretsInv'
BY DEF IInv, SecretsInv, SpentStays, HandlersNamed, NoLateAcceptance, MemoryMarks

\* Every step keeps it: nothing that was spent opens again, and only an open
\* secret is let past a check.
LEMMA SecretsStep == IInv /\ [Next]_vars => SecretsInv'
<1> SUFFICES ASSUME IInv, [Next]_vars PROVE SecretsInv'
  OBVIOUS
<1> USE DEF IInv, TypeOK
<1>1. CASE Owner
  <2>1. CASE UNCHANGED <<backend, item, accepted, hs>>
    BY <2>1, SecretsUntouched
  <2>2. CASE \E i \in Items : CreateToken(i) \/ DeleteToken(i) \/ CreateBunkerSecret(i)
                              \/ ItemExpires(i)
    <3> PICK i \in Items : CreateToken(i) \/ DeleteToken(i) \/ CreateBunkerSecret(i)
                           \/ ItemExpires(i)
      BY <2>2
    <3>1. \A j \in Items : item[j] \in {"used", "gone"} => item'[j] \in {"used", "gone"}
      BY DEF CreateToken, DeleteToken, CreateBunkerSecret, ItemExpires, SetItem
    <3>2. \A j \in Items : item[j] \in {"used", "expired", "gone"}
                           => item'[j] \in {"used", "expired", "gone"}
      BY DEF CreateToken, DeleteToken, CreateBunkerSecret, ItemExpires, SetItem
    <3>3. UNCHANGED <<backend, accepted, hs>>
      BY DEF CreateToken, DeleteToken, CreateBunkerSecret, ItemExpires, SetItem
    <3>4. \A p \in Procs : hs[p].before \in SUBSET Items
      BY DEF Handler
    <3> QED
      BY <3>1, <3>2, <3>3, <3>4 DEF SecretsInv, SpentStays, HandlersNamed, NoLateAcceptance,
         MemoryMarks
  <2> QED
    BY <1>1, <2>1, <2>2 DEF Owner, Items, CreatePolicy, DeletePolicy, PolicyLapses, DeleteKey,
       DeletePermission, handleSetPermission, itemVars
<1>2. CASE Redemption
  <2> PICK p \in Procs :
        \/ \E c \in Clients, t \in Tokens : RedeemToken(p, c, t)
        \/ \E c \in Clients, s \in Secrets : Connect(p, c, s)
        \/ ValidateBunkerSecret(p) \/ Mark(p) \/ RedeemPolicy(p) \/ RedeemKey(p)
        \/ SetPermission(p) \/ Abort(p)
    BY <1>2 DEF Redemption
  <2>0. hs[p] \in Handler /\ \A q \in Procs : hs[q].before \in SUBSET Items
    BY DEF Handler
  <2>1. ASSUME NEW c \in Clients, NEW t \in Tokens, RedeemToken(p, c, t) PROVE SecretsInv'
    <3>1. t \in Items /\ t \notin Spent
      BY <2>1 DEF RedeemToken, Spent, Items, SpentStays
    <3>2. \A j \in Spent : item[j] \in {"used", "expired", "gone"} /\ j \in Items
      BY DEF Spent, SpentStays
    <3>3. SpentStays'
      BY <2>0, <2>1, <3>1, <3>2 DEF RedeemToken, MarkUsed, itemVars, SpentStays
    <3> QED
      BY <2>1, <3>1, <3>3 DEF SecretsInv, RedeemToken, Accepted, HandlersNamed,
         NoLateAcceptance, MemoryMarks
  <2>2. ASSUME NEW c \in Clients, NEW s \in Secrets, Connect(p, c, s) PROVE SecretsInv'
    <3>1. s \in Items
      BY DEF Items
    <3>2. \A j \in Spent : item[j] \in {"used", "expired", "gone"} /\ j \in Items
      BY DEF Spent, SpentStays
    <3> QED
      BY <2>0, <2>2, <3>1, <3>2 DEF Connect, itemVars, SecretsInv, SpentStays, HandlersNamed,
         NoLateAcceptance, MemoryMarks
  <2>3. CASE ValidateBunkerSecret(p)
    <3>1. hs[p].item \in Items
      BY <2>3 DEF ValidateBunkerSecret, HandlersNamed
    <3>2. item[hs[p].item] = "open" => hs[p].item \notin hs[p].before
      BY DEF SpentStays
    <3>3. CASE item[hs[p].item] = "open" /\ backend = "memory"
      <4>1. MarkUsed(hs[p].item) /\ (To(p, "policy") \/ To(p, "store")) /\ UNCHANGED backend
        BY <2>3, <3>3 DEF ValidateBunkerSecret, Accepted
      <4>2. SpentStays'
        BY <2>0, <3>1, <3>3, <4>1, ToEffect DEF MarkUsed, SpentStays
      <4> QED
        BY <2>3, <3>1, <3>2, <3>3, <4>1, <4>2, ToEffect DEF ValidateBunkerSecret, SecretsInv,
           HandlersNamed, NoLateAcceptance, MemoryMarks
    <3>4. CASE item[hs[p].item] = "open" /\ backend = "sql"
      <4>1. To(p, "mark") /\ UNCHANGED <<backend, item, accepted>>
        BY <2>3, <3>4 DEF ValidateBunkerSecret, itemVars
      <4> QED
        BY <2>0, <2>3, <3>1, <3>2, <3>4, <4>1, ToEffect DEF ValidateBunkerSecret, SecretsInv,
           SpentStays, HandlersNamed, NoLateAcceptance, MemoryMarks
    <3>5. CASE item[hs[p].item] # "open"
      <4>1. /\ Finish(p) /\ UNCHANGED <<backend, accepted>>
            /\ \A j \in Items : item'[j] = item[j] \/ (item[j] = "expired" /\ item'[j] = "gone")
        BY <2>3, <3>1, <3>5 DEF ValidateBunkerSecret
      <4>2. SpentStays'
        BY <2>0, <4>1, FinishEffect DEF SpentStays, Idle
      <4> QED
        BY <4>1, <4>2, FinishEffect DEF SecretsInv, Idle, HandlersNamed, NoLateAcceptance,
           MemoryMarks
    <3> QED
      BY <2>3, <3>3, <3>4, <3>5 DEF ValidateBunkerSecret
  <2>4. CASE Mark(p)
    <3>1. hs[p].item \in Items
      BY <2>4 DEF Mark, HandlersNamed
    <3>2. SpentStays'
      BY <2>0, <2>4, <3>1 DEF Mark, MarkUsed, To, SpentStays
    <3> QED
      BY <2>0, <2>4, <3>2 DEF SecretsInv, Mark, Accepted, To, HandlersNamed,
         NoLateAcceptance, MemoryMarks
  <2>5. CASE RedeemPolicy(p) \/ RedeemKey(p) \/ SetPermission(p) \/ Abort(p)
    <3>1. UNCHANGED <<backend, item, accepted>>
      BY <2>5 DEF RedeemPolicy, RedeemKey, SetPermission, Abort, itemVars
    <3>2. CASE Finish(p)
      BY <2>0, <3>1, <3>2, FinishEffect DEF Idle, SecretsInv, SpentStays, HandlersNamed,
         NoLateAcceptance, MemoryMarks
    <3>3. CASE To(p, "key") \/ To(p, "store")
      <4>1. hs[p].pc \in {"policy", "key"}
        BY <2>5, <3>3, ToEffect, FinishEffect DEF RedeemPolicy, RedeemKey, SetPermission, Abort, Idle
      <4> QED
        BY <2>0, <3>1, <3>3, <4>1, ToEffect DEF SecretsInv, SpentStays, HandlersNamed,
           NoLateAcceptance, MemoryMarks
    <3> QED
      BY <2>5, <3>2, <3>3 DEF RedeemPolicy, RedeemKey, SetPermission, Abort
  <2> QED
    BY <2>1, <2>2, <2>3, <2>4, <2>5
<1>3. CASE Work
  BY <1>3, SecretsUntouched DEF Work, StartRequest, checkPolicyUsage, IncrementRuleUsage,
     sendResult, RequestDies, itemVars
<1>4. CASE UNCHANGED vars
  BY <1>4, SecretsUntouched DEF vars
<1> QED
  BY <1>1, <1>2, <1>3, <1>4 DEF Next

-----------------------------------------------------------------------------
(* Usage.                                                                  *)

\* A step that leaves the counters and the requests alone keeps theirs.
LEMMA UsageUntouched ==
  IInv /\ UNCHANGED <<limit, usage, workVars>> => UsageInv'
<1> SUFFICES ASSUME IInv, UNCHANGED <<limit, usage, workVars>> PROVE UsageInv'
  OBVIOUS
<1>1. Working' = Working /\ Answering' = Answering
  BY DEF Working, Answering, workVars
<1> QED
  BY <1>1 DEF IInv, UsageInv, workVars

\* Every step keeps the two counts: a request enters between check and count
\* only while the counter is below the limit, and then at most all requests
\* are there; it leaves by being counted, by being lost, or by dying.
LEMMA UsageStep == IInv /\ [Next]_vars => UsageInv'
<1> SUFFICES ASSUME IInv, [Next]_vars PROVE UsageInv'
  OBVIOUS
<1> USE DEF IInv, TypeOK
<1>0. limit \in Nat
  BY LimitAssumption
<1>1. CASE Owner \/ Redemption \/ UNCHANGED vars
  <2>1. UNCHANGED <<limit, usage, workVars>>
    BY <1>1 DEF Owner, Redemption, vars, workVars, policyVars, CreatePolicy, DeletePolicy,
       PolicyLapses, DeleteKey, CreateToken, DeleteToken, CreateBunkerSecret, ItemExpires,
       SetItem, DeletePermission, handleSetPermission, RedeemToken, Connect,
       ValidateBunkerSecret, Mark, RedeemPolicy, RedeemKey, SetPermission, Abort
  <2> QED
    BY <2>1, UsageUntouched
<1>2. CASE Work
  <2> PICK w \in Workers :
        \/ \E c \in Clients : StartRequest(w, c)
        \/ checkPolicyUsage(w) \/ IncrementRuleUsage(w) \/ sendResult(w) \/ RequestDies(w)
    BY <1>2 DEF Work
  <2>0. wk[w] \in Worker
    OBVIOUS
  <2>1. CASE \E c \in Clients : StartRequest(w, c)
    <3>1. Working' = Working /\ Answering' = Answering
      BY <2>1 DEF StartRequest, Working, Answering
    <3> QED
      BY <2>1, <3>1 DEF StartRequest, policyVars, UsageInv
  <2>2. CASE checkPolicyUsage(w)
    <3>0. UNCHANGED <<limit, usage, answered, uncounted>>
      BY <2>2 DEF checkPolicyUsage, policyVars
    <3>1. CASE wk' = [wk EXCEPT ![w].pc = "work", ![w].rule = TRUE] /\ BelowLimit
      <4>1. Answering' = Answering
        BY <2>0, <2>2, <3>1 DEF checkPolicyUsage, Answering, Worker
      <4>2. limit > 0 => usage + Cardinality(Working') <= limit + Cardinality(Workers) - 1
        BY <1>0, <3>1, InFlightFinite, InFlightFiniteNext DEF BelowLimit
      <4>3. \A v \in Workers : wk'[v].pc = "check" => ~wk'[v].rule
        BY <2>0, <3>1 DEF UsageInv, Worker
      <4> QED
        BY <3>0, <4>1, <4>2, <4>3 DEF UsageInv
    <3>2. CASE wk' = [wk EXCEPT ![w] = Resting]
      <4>1. Working' = Working /\ Answering' = Answering
        BY <2>2, <3>2 DEF checkPolicyUsage, Resting, Working, Answering
      <4> QED
        BY <3>0, <3>2, <4>1 DEF UsageInv, Resting
    <3>3. CASE wk' = [wk EXCEPT ![w].pc = "answer"]
      <4>1. Working' = Working /\ Answering' = Answering
        BY <2>0, <2>2, <3>3 DEF checkPolicyUsage, Working, Answering, UsageInv, Worker
      <4>2. \A v \in Workers : wk'[v].pc = "check" => ~wk'[v].rule
        BY <2>0, <3>3 DEF UsageInv, Worker
      <4> QED
        BY <3>0, <4>1, <4>2 DEF UsageInv
    <3> QED
      BY <2>2, <3>1, <3>2, <3>3 DEF checkPolicyUsage
  <2>3. CASE IncrementRuleUsage(w)
    <3>1. w \in Working /\ w \notin Answering
      BY <2>3 DEF IncrementRuleUsage, Working, Answering
    <3>2. Working' = Working \ {w}
      BY <2>0, <2>3 DEF IncrementRuleUsage, Working, Worker
    <3>3. Answering' \in SUBSET (Answering \cup {w})
      BY <2>0, <2>3 DEF IncrementRuleUsage, Answering, Worker
    <3>4. Cardinality(Working') = Cardinality(Working) - 1
      BY <3>1, <3>2, InFlightFinite, FS_RemoveElement
    <3>5. Cardinality(Answering') <= Cardinality(Answering) + 1
      <4>1. /\ IsFiniteSet(Answering \cup {w})
            /\ Cardinality(Answering \cup {w}) = Cardinality(Answering) + 1
        BY <3>1, InFlightFinite, FS_AddElement
      <4> QED
        BY <3>3, <4>1, FS_Subset
    <3>6. \A v \in Workers : wk'[v].pc = "check" => ~wk'[v].rule
      BY <2>0, <2>3 DEF IncrementRuleUsage, UsageInv, Worker
    <3>7. /\ limit' = limit /\ answered' = answered
          /\ \/ usage' = usage + 1 /\ uncounted' = uncounted
             \/ uncounted' = uncounted + 1 /\ usage' = usage
      BY <2>3 DEF IncrementRuleUsage
    <3> QED
      BY <1>0, <3>4, <3>5, <3>6, <3>7, InFlightFinite, InFlightFiniteNext DEF UsageInv
  <2>4. CASE sendResult(w) \/ RequestDies(w)
    <3>1. wk' = [wk EXCEPT ![w] = Resting] /\ UNCHANGED <<limit, usage, uncounted>>
      BY <2>4 DEF sendResult, RequestDies, policyVars
    <3>2. Working' = Working \ {w} /\ Answering' = Answering \ {w}
      BY <3>1 DEF Working, Answering, Resting
    <3>3. /\ Cardinality(Working') <= Cardinality(Working)
          /\ Cardinality(Answering') = IF w \in Answering THEN Cardinality(Answering) - 1
                                       ELSE Cardinality(Answering)
      <4>1. Working' \in SUBSET Working
        BY <3>2
      <4>2. Cardinality(Working') <= Cardinality(Working)
        BY <4>1, InFlightFinite, FS_Subset
      <4> QED
        BY <3>2, <4>2, InFlightFinite, FS_RemoveElement
    <3>4. answered' = answered \/ (w \in Answering /\ answered' = answered + 1)
      BY <2>4 DEF sendResult, RequestDies, Answering
    <3>5. \A v \in Workers : wk'[v].pc = "check" => ~wk'[v].rule
      BY <3>1 DEF UsageInv, Resting
    <3> QED
      BY <1>0, <3>1, <3>3, <3>4, <3>5, InFlightFinite, InFlightFiniteNext DEF UsageInv
  <2> QED
    BY <2>1, <2>2, <2>3, <2>4
<1> QED
  BY <1>1, <1>2 DEF Next

-----------------------------------------------------------------------------
\* The inductive invariant holds in every reachable state.
THEOREM SecretsInvariant == Spec => []IInv
<1>1. IInv /\ [Next]_vars => IInv'
  BY TypesStep, SecretsStep, UsageStep DEF IInv, SecretsInv
<1> QED
  BY InitInv, <1>1, PTL DEF Spec

\* The variables keep their types, for any numbers of secrets, clients and
\* requests in flight.
THEOREM SecretsTypes == Spec => []TypeOK
<1>1. IInv => TypeOK
  BY DEF IInv
<1> QED
  BY <1>1, SecretsInvariant, PTL

\* RedeemToken, ValidateBunkerSecret: who starts after a secret was spent is
\* refused, on every backend.
THEOREM SecretsNoLateAcceptance == Spec => []NoLateAcceptance
<1>1. IInv => NoLateAcceptance
  BY DEF IInv
<1> QED
  BY <1>1, SecretsInvariant, PTL

\* checkPolicyUsage, IncrementRuleUsage: the overrun of a limit is bounded by the
\* requests in flight.
THEOREM PolicyUsageLimit == Spec => []UsageLimitHolds
<1>1. IInv => UsageLimitHolds
  BY InFlightFinite, LimitAssumption DEF IInv, TypeOK, UsageInv, UsageLimitHolds
<1> QED
  BY <1>1, SecretsInvariant, PTL

-----------------------------------------------------------------------------
(* The memory backend implements OneTime.                                  *)

\* A step accepts at most one secret, once; on the memory backend only one that
\* is open.
LEMMA AcceptanceStep ==
  ASSUME IInv, [Next]_vars
  PROVE  /\ backend' = backend
         /\ backend = "memory" =>
              \/ accepted' = accepted
              \/ \E i \in Items : accepted[i] = 0 /\ accepted' = [accepted EXCEPT ![i] = 1]
<1> USE DEF IInv, TypeOK
<1>0. ASSUME NEW i \in Items, item[i] = "open", MarkUsed(i)
      PROVE  accepted[i] = 0 /\ accepted' = [accepted EXCEPT ![i] = 1]
  <2>1. accepted[i] \in Nat /\ ~(accepted[i] > 0)
    BY <1>0 DEF SpentStays
  <2>2. accepted[i] = 0
    BY <2>1
  <2>3. accepted' = [accepted EXCEPT ![i] = accepted[i] + 1]
    BY <1>0 DEF MarkUsed
  <2>4. accepted' = [accepted EXCEPT ![i] = 1]
    BY <2>2, <2>3
  <2> QED
    BY <2>2, <2>4
<1>1. CASE Owner \/ Work \/ UNCHANGED vars
  BY <1>1 DEF Owner, Work, vars, itemVars, CreatePolicy, DeletePolicy, PolicyLapses, DeleteKey,
     CreateToken, DeleteToken, CreateBunkerSecret, ItemExpires, SetItem, DeletePermission,
     handleSetPermission, StartRequest, checkPolicyUsage, IncrementRuleUsage, sendResult,
     RequestDies
<1>2. CASE Redemption
  <2> PICK p \in Procs :
        \/ \E c \in Clients, t \in Tokens : RedeemToken(p, c, t)
        \/ \E c \in Clients, s \in Secrets : Connect(p, c, s)
        \/ ValidateBunkerSecret(p) \/ Mark(p) \/ RedeemPolicy(p) \/ RedeemKey(p)
        \/ SetPermission(p) \/ Abort(p)
    BY <1>2 DEF Redemption
  <2>1. CASE \E c \in Clients, t \in Tokens : RedeemToken(p, c, t)
    BY <1>0, <2>1 DEF RedeemToken, Items, itemVars
  <2>2. CASE ValidateBunkerSecret(p)
    <3>1. hs[p].item \in Items
      BY <2>2 DEF ValidateBunkerSecret, HandlersNamed
    <3> QED
      BY <1>0, <2>2, <3>1 DEF ValidateBunkerSecret, itemVars
  <2>3. CASE Mark(p)
    BY <2>3 DEF Mark, MemoryMarks
  <2> QED
    BY <2>1, <2>2, <2>3 DEF Connect, RedeemPolicy, RedeemKey, SetPermission, Abort, itemVars
<1> QED
  BY <1>1, <1>2 DEF Next

\* MemoryStorage.RedeemToken and ValidateBunkerSecret: what the mutex makes one
\* step is accepted at most once, the promise OneTime states.
THEOREM MemoryImplementsOneTime == Spec => MemoryIsOneTime
<1>1. Init => Once!Init
  BY DEF Init, Once!Init
<1>2. ASSUME IInv, [Next]_vars
      PROVE  [Once!Next]_([i \in Items |-> IF backend = "memory" THEN accepted[i] ELSE 0])
  <2>1. CASE backend # "memory"
    BY <1>2, <2>1, AcceptanceStep
  <2>2. CASE backend = "memory" /\ accepted' = accepted
    BY <1>2, <2>2, AcceptanceStep
  <2>3. CASE backend = "memory"
             /\ \E i \in Items : accepted[i] = 0 /\ accepted' = [accepted EXCEPT ![i] = 1]
    <3> PICK i \in Items : accepted[i] = 0 /\ accepted' = [accepted EXCEPT ![i] = 1]
      BY <2>3
    <3>1. backend' = "memory" /\ accepted \in [Items -> Nat]
      BY <1>2, <2>3, AcceptanceStep DEF IInv, TypeOK
    <3>2. Once!Take(i)
      BY <2>3, <3>1 DEF Once!Take
    <3> QED
      BY <3>2 DEF Once!Next
  <2> QED
    BY <1>2, <2>1, <2>2, <2>3, AcceptanceStep
<1> QED
  BY <1>1, <1>2, SecretsInvariant, PTL DEF Spec, MemoryIsOneTime, Once!Spec
=============================================================================
