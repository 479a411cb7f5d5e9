------------------------- MODULE RequestAuth_proofs -------------------------
(***************************************************************************)
(* Authorization for any number of requests, clients, replicas and         *)
(* decision handlers: RequestAuth's invariants are proved from IInv, whose *)
(* parts are shown to be preserved action by action.                       *)
(***************************************************************************)
EXTENDS RequestAuth, TLAPS

\* The initial states satisfy the invariant.
LEMMA InitIInv == Init => IInv
<1> SUFFICES ASSUME Init PROVE IInv
  OBVIOUS
<1>1. TypeOK
  BY RequestAssumption DEF Init, TypeOK, GrantRow, NoGrant, Handler, IdleHandler, Verdicts
<1>2. HandlersHaveRequests /\ WaitersHadNoGrant /\ KeptByWaiters
  BY DEF Init, IdleHandler, HandlersHaveRequests, WaitersHadNoGrant, ExpiredGrantRefused,
     KeptByWaiters
<1>3. ChannelHoldsFirst /\ Authority
  BY DEF Init, ChannelHoldsFirst, Authority, AnsweredByAuthority, InFlight
<1> QED BY <1>1, <1>2, <1>3 DEF IInv

\* The remembered methods are methods.
LEMMA RememberedType ==
  ASSUME NEW r \in Reqs, NEW ms \in Remembered(r)
  PROVE  ms \in SUBSET Methods
BY RequestAssumption, ConfigAssumption DEF Remembered

\* A stored grant is typed, and covers every request of its client in flight;
\* no other client gains one.
LEMMA SetPermissionKeeps ==
  ASSUME TypeOK, NEW c \in Clients, NEW ms \in SUBSET Methods, NEW gone,
         SetPermission(c, ms, gone)
  PROVE  /\ grant' \in [Clients -> GrantRow]
         /\ covered' \subseteq Reqs /\ covered \subseteq covered'
         /\ \A r \in Reqs : InFlight(r) /\ ClientOf[r] = c => r \in covered'
         /\ \A d \in Clients \ {c} : grant'[d].state = "live" => grant[d].state = "live"
<1>1. NoGrant \in GrantRow /\ [state |-> "live", methods |-> ms] \in GrantRow
  BY DEF NoGrant, GrantRow
<1>2. grant' \in [Clients -> GrantRow]
  BY <1>1 DEF SetPermission, TypeOK
<1>3. \A d \in Clients \ {c} : grant'[d].state = "live" => grant[d].state = "live"
  BY DEF SetPermission, TypeOK, NoGrant
<1> QED BY <1>2, <1>3 DEF SetPermission, TypeOK

-----------------------------------------------------------------------------
(* Types.                                                                  *)

\* The count of faults stays a number.
LEMMA StorageType ==
  ASSUME TypeOK, NEW failed, Storage(failed)
  PROVE  faults' \in Nat
BY DEF TypeOK, Storage

\* The steps of a request keep the types.
LEMMA SignerTypeOK ==
  ASSUME TypeOK, NEW r \in Reqs, Signer(r)
  PROVE  TypeOK'
<1> USE RequestAssumption
<1>1. ASSUME NEW rep \in Replicas, NEW unread \in BOOLEAN, NEW unknown \in BOOLEAN,
             decryptAndDispatch(r, rep, unread, unknown)
      PROVE  TypeOK'
  <2>1. faults' \in Nat
    BY <1>1, StorageType DEF decryptAndDispatch
  <2>2. NoGrant \in GrantRow /\ grant[ClientOf[r]] \in GrantRow
    BY DEF NoGrant, GrantRow, TypeOK
  <2> QED BY <1>1, <2>1, <2>2 DEF TypeOK, decryptAndDispatch, Goto, pendVars
<1>2. ASSUME NEW failed \in BOOLEAN, processRequest(r, failed) PROVE TypeOK'
  <2>1. faults' \in Nat
    BY <1>2, StorageType DEF processRequest
  <2> QED
    BY <1>2, <2>1 DEF TypeOK, processRequest, Serve, Refuse, Goto, keyVars, pendVars
<1>3. ASSUME NEW gone, NEW failed \in BOOLEAN, connectWithSecret(r, gone, failed) PROVE TypeOK'
  <2>1. faults' \in Nat
    BY <1>3, StorageType DEF connectWithSecret
  <2>2. grant' \in [Clients -> GrantRow] /\ covered' \subseteq Reqs
    BY <1>3, SetPermissionKeeps DEF connectWithSecret, TypeOK
  <2> QED
    BY <1>3, <2>1, <2>2 DEF TypeOK, connectWithSecret, Serve, Goto, keyVars, pendVars
<1>4. ASSUME NEW failed \in BOOLEAN, CreatePendingRequest(r, failed) PROVE TypeOK'
  <2>1. faults' \in Nat
    BY <1>4, StorageType DEF CreatePendingRequest
  <2> QED BY <1>4, <2>1 DEF TypeOK, CreatePendingRequest, Refuse, Goto, keyVars
<1>5. CASE storePendingContext(r)
  BY <1>5 DEF TypeOK, storePendingContext, Goto, keyVars
<1>6. CASE receiveVerdict(r) \/ pollGrant(r) \/ deadline(r)
  BY <1>6 DEF TypeOK, receiveVerdict, pollGrant, deadline, Leave, Goto, keyVars, Verdicts
<1>7. ASSUME NEW failed \in BOOLEAN, handlePendingApproval(r, failed) PROVE TypeOK'
  <2>1. faults' \in Nat
    BY <1>7, StorageType DEF handlePendingApproval
  <2> QED
    BY <1>7, <2>1 DEF TypeOK, handlePendingApproval, Serve, Refuse, Goto, keyVars, Verdicts
<1> QED BY <1>1, <1>2, <1>3, <1>4, <1>5, <1>6, <1>7 DEF Signer

\* The steps of a decision handler keep the types.
LEMMA OwnerTypeOK ==
  ASSUME TypeOK, HandlersHaveRequests, NEW d \in Deciders, Owner(d)
  PROVE  TypeOK'
<1>0. dec[d] \in Handler /\ IdleHandler \in Handler
  BY DEF TypeOK, Handler, IdleHandler
<1>1. ASSUME NEW r \in Reqs, NEW at \in Replicas, NEW ms \in Remembered(r),
             handleApproveRequest(d, r, at, ms)
      PROVE  TypeOK'
  <2>1. dec' \in [Deciders -> Handler]
    BY <1>1, RememberedType DEF TypeOK, handleApproveRequest, Decide, Handler
  <2> QED BY <1>1, <2>1 DEF TypeOK, handleApproveRequest, keyVars, reqVars, pendVars
<1>2. ASSUME NEW r \in Reqs, NEW at \in Replicas, handleDenyRequest(d, r, at) PROVE TypeOK'
  <2>1. dec' \in [Deciders -> Handler]
    BY <1>2 DEF TypeOK, handleDenyRequest, Decide, Handler
  <2> QED BY <1>2, <2>1 DEF TypeOK, handleDenyRequest, keyVars, reqVars, pendVars
<1>3. ASSUME dec[d].req # NoReq, NEW gone, NEW failed \in BOOLEAN, approveStore(d, gone, failed)
      PROVE  TypeOK'
  <2>0. faults' \in Nat
    BY <1>3, StorageType DEF approveStore
  <2>1. dec[d].req \in Reqs /\ dec[d].methods \in SUBSET Methods
    BY <1>0, <1>3 DEF Handler
  <2>2. ClientOf[dec[d].req] \in Clients
    BY <2>1, RequestAssumption
  <2>3. grant' \in [Clients -> GrantRow] /\ covered' \subseteq Reqs
    BY <1>3, <2>1, <2>2, SetPermissionKeeps DEF approveStore, TypeOK
  <2>4. dec' \in [Deciders -> Handler]
    BY <1>0, <1>3 DEF TypeOK, approveStore, Decide, Handler
  <2> QED BY <1>3, <2>0, <2>3, <2>4 DEF TypeOK, approveStore, keyVars, reqVars, pendVars
<1>4. ASSUME NEW failed \in BOOLEAN, DeletePendingRequest(d, failed) PROVE TypeOK'
  <2>0. faults' \in Nat
    BY <1>4, StorageType DEF DeletePendingRequest
  <2>1. dec' \in [Deciders -> Handler]
    BY <1>0, <1>4 DEF TypeOK, DeletePendingRequest, Decide, Handler
  <2> QED BY <1>4, <2>0, <2>1 DEF TypeOK, DeletePendingRequest, keyVars, reqVars
<1>5. CASE notifySigner(d)
  <2>1. dec' \in [Deciders -> Handler]
    BY <1>0, <1>5 DEF TypeOK, notifySigner, Decide
  <2>2. chan' \in [Reqs -> Verdicts] /\ first' \in [Reqs -> Verdicts]
    BY <1>5 DEF TypeOK, notifySigner, Signal, Deliver, VerdictOf, Verdicts
  <2> QED BY <1>5, <2>1, <2>2 DEF TypeOK, notifySigner, keyVars, reqVars
<1> QED BY <1>1, <1>2, <1>3, <1>4, <1>5 DEF Owner

\* The rest of the system keeps the types.
LEMMA EnvironmentTypeOK ==
  ASSUME TypeOK, Environment
  PROVE  TypeOK'
<1>1. ASSUME NEW c \in Clients, NEW ms \in MethodSets, NEW gone, handleSetPermission(c, ms, gone)
      PROVE  TypeOK'
  <2>1. grant' \in [Clients -> GrantRow] /\ covered' \subseteq Reqs
    BY <1>1, SetPermissionKeeps, ConfigAssumption DEF handleSetPermission
  <2> QED BY <1>1, <2>1 DEF TypeOK, handleSetPermission, keyVars, reqVars, pendVars
<1>2. ASSUME NEW c \in Clients, GrantExpires(c) \/ handleDeletePermission(c) PROVE TypeOK'
  <2>1. grant' \in [Clients -> GrantRow]
    BY <1>2 DEF TypeOK, GrantExpires, handleDeletePermission, GrantRow, NoGrant, ExpiredGrant
  <2> QED
    BY <1>2, <2>1 DEF TypeOK, GrantExpires, handleDeletePermission, keyVars, reqVars, pendVars
<1>3. CASE handleUpdateKey \/ CleanExpiredRequests \/ deleteAccountKey
  BY <1>3 DEF TypeOK, handleUpdateKey, CleanExpiredRequests, deleteAccountKey, keyVars, reqVars,
     pendVars
<1>4. ASSUME NEW reached, deleteAccountGrants(reached) PROVE TypeOK'
  <2>1. grant' \in [Clients -> GrantRow]
    BY <1>4 DEF deleteAccountGrants, GrantRow, NoGrant
  <2> QED BY <1>4, <2>1 DEF TypeOK, deleteAccountGrants, reqVars, pendVars
<1>5. ASSUME NEW r \in Reqs, RequestExpires(r) PROVE TypeOK'
  BY <1>5 DEF TypeOK, RequestExpires, keyVars, reqVars
<1>6. ASSUME NEW rep \in Replicas, Crash(rep) PROVE TypeOK'
  <2>1. dec' \in [Deciders -> Handler]
    BY <1>6 DEF TypeOK, Crash, Handler, IdleHandler
  <2> QED BY <1>6, <2>1 DEF TypeOK, Crash, keyVars, Verdicts
<1> QED BY <1>1, <1>2, <1>3, <1>4, <1>5, <1>6 DEF Environment

-----------------------------------------------------------------------------
(* The rest of the invariant, action by action.                            *)

\* A handler takes up a request and keeps it until it is done with it.
LEMMA NextHandlersHaveRequests ==
  ASSUME TypeOK, HandlersHaveRequests, Next
  PROVE  HandlersHaveRequests'
<1> USE DEF HandlersHaveRequests
<1>1. ASSUME NEW r \in Reqs, Signer(r) PROVE HandlersHaveRequests'
  BY <1>1 DEF Signer, decryptAndDispatch, processRequest, connectWithSecret,
     CreatePendingRequest, storePendingContext, receiveVerdict, pollGrant, deadline, Leave,
     handlePendingApproval
<1>2. ASSUME NEW d \in Deciders, Owner(d) PROVE HandlersHaveRequests'
  <2>0. dec[d] \in Handler
    BY DEF TypeOK
  <2>1. ASSUME NEW r \in Reqs, NEW at, NEW ms,
               handleApproveRequest(d, r, at, ms) \/ handleDenyRequest(d, r, at)
        PROVE  HandlersHaveRequests'
    BY <2>1 DEF TypeOK, handleApproveRequest, handleDenyRequest, Decide
  <2>2. ASSUME NEW gone, NEW failed, approveStore(d, gone, failed) \/ DeletePendingRequest(d, failed)
        PROVE  HandlersHaveRequests'
    BY <2>0, <2>2 DEF TypeOK, approveStore, DeletePendingRequest, Decide, IdleHandler, Handler
  <2>3. CASE notifySigner(d)
    BY <2>3 DEF TypeOK, notifySigner, Decide, IdleHandler
  <2> QED BY <1>2, <2>1, <2>2, <2>3 DEF Owner
<1>3. ASSUME NEW rep \in Replicas, Crash(rep) PROVE HandlersHaveRequests'
  BY <1>3 DEF TypeOK, Crash, IdleHandler
<1>4. CASE Environment /\ ~\E rep \in Replicas : Crash(rep)
  BY <1>4 DEF Environment, handleSetPermission, GrantExpires, handleDeletePermission,
     handleUpdateKey, CleanExpiredRequests, deleteAccountKey, deleteAccountGrants, RequestExpires
<1> QED BY <1>1, <1>2, <1>3, <1>4 DEF Next

\* Only a request that met no grant gets to wait, and nothing is served twice.
LEMMA NextWaitersHadNoGrant ==
  ASSUME TypeOK, WaitersHadNoGrant, Next
  PROVE  WaitersHadNoGrant'
<1> USE DEF WaitersHadNoGrant, ExpiredGrantRefused
<1>1. ASSUME NEW r \in Reqs, Signer(r) PROVE WaitersHadNoGrant'
  <2>1. ASSUME NEW rep, NEW unread, NEW unknown,
               decryptAndDispatch(r, rep, unread, unknown)
        PROVE  WaitersHadNoGrant'
    BY <2>1 DEF TypeOK, decryptAndDispatch, Goto, NoGrant
  <2>2. ASSUME NEW failed, processRequest(r, failed) PROVE WaitersHadNoGrant'
    BY <2>2 DEF TypeOK, processRequest, Serve, Refuse, Goto
  <2>3. ASSUME NEW gone, NEW failed, connectWithSecret(r, gone, failed)
        PROVE  WaitersHadNoGrant'
    BY <2>3 DEF TypeOK, connectWithSecret, Serve, Goto
  <2>4. ASSUME NEW failed, CreatePendingRequest(r, failed) \/ storePendingContext(r) PROVE WaitersHadNoGrant'
    BY <2>4 DEF TypeOK, CreatePendingRequest, storePendingContext, Refuse, Goto
  <2>5. CASE receiveVerdict(r) \/ pollGrant(r) \/ deadline(r)
    BY <2>5 DEF TypeOK, receiveVerdict, pollGrant, deadline, Leave, Goto
  <2>6. ASSUME NEW failed, handlePendingApproval(r, failed) PROVE WaitersHadNoGrant'
    BY <2>6 DEF TypeOK, handlePendingApproval, Serve, Refuse, Goto
  <2> QED BY <1>1, <2>1, <2>2, <2>3, <2>4, <2>5, <2>6 DEF Signer
<1>2. ASSUME NEW d \in Deciders, Owner(d) PROVE WaitersHadNoGrant'
  BY <1>2 DEF Owner, handleApproveRequest, handleDenyRequest, approveStore, DeletePendingRequest,
     notifySigner, reqVars
<1>3. ASSUME NEW rep \in Replicas, Crash(rep) PROVE WaitersHadNoGrant'
  BY <1>3 DEF TypeOK, Crash
<1>4. CASE Environment /\ ~\E rep \in Replicas : Crash(rep)
  BY <1>4 DEF Environment, handleSetPermission, GrantExpires, handleDeletePermission,
     handleUpdateKey, CleanExpiredRequests, deleteAccountKey, deleteAccountGrants, RequestExpires,
     reqVars
<1> QED BY <1>1, <1>2, <1>3, <1>4 DEF Next

\* A row or context is created by a waiting request and goes when it leaves.
LEMMA NextKeptByWaiters ==
  ASSUME TypeOK, KeptByWaiters, Next
  PROVE  KeptByWaiters'
<1> USE DEF KeptByWaiters, Storage
<1>1. ASSUME NEW r \in Reqs, Signer(r) PROVE KeptByWaiters'
  <2>1. ASSUME NEW rep, NEW unread, NEW unknown,
               decryptAndDispatch(r, rep, unread, unknown)
        PROVE  KeptByWaiters'
    BY <2>1 DEF TypeOK, decryptAndDispatch, Goto, pendVars
  <2>2. ASSUME NEW failed, processRequest(r, failed) PROVE KeptByWaiters'
    BY <2>2 DEF TypeOK, processRequest, Serve, Refuse, Goto, pendVars
  <2>3. ASSUME NEW gone, NEW failed, connectWithSecret(r, gone, failed)
        PROVE  KeptByWaiters'
    BY <2>3 DEF TypeOK, connectWithSecret, Serve, Goto, pendVars
  <2>4. ASSUME NEW failed, CreatePendingRequest(r, failed) \/ storePendingContext(r) PROVE KeptByWaiters'
    BY <2>4 DEF TypeOK, CreatePendingRequest, storePendingContext, Refuse, Goto
  <2>5. CASE receiveVerdict(r) \/ pollGrant(r) \/ deadline(r)
    BY <2>5 DEF TypeOK, receiveVerdict, pollGrant, deadline, Leave, Goto, pendVars
  <2>6. ASSUME NEW failed, handlePendingApproval(r, failed) PROVE KeptByWaiters'
    BY <2>6 DEF TypeOK, handlePendingApproval, Serve, Refuse, Goto
  <2> QED BY <1>1, <2>1, <2>2, <2>3, <2>4, <2>5, <2>6 DEF Signer
<1>2. ASSUME NEW d \in Deciders, Owner(d) PROVE KeptByWaiters'
  <2>1. ASSUME NEW gone, NEW failed,
               approveStore(d, gone, failed) \/ DeletePendingRequest(d, failed)
        PROVE  KeptByWaiters'
    <3>1. faults' = 0 => faults = 0
      BY <2>1 DEF TypeOK, approveStore, DeletePendingRequest
    <3>2. pc' = pc /\ ctx' = ctx /\ rows' \subseteq rows
      BY <2>1 DEF approveStore, DeletePendingRequest, reqVars, pendVars
    <3> QED BY <3>1, <3>2
  <2>2. ASSUME NEW r, NEW at, NEW ms,
               handleApproveRequest(d, r, at, ms) \/ handleDenyRequest(d, r, at) \/ notifySigner(d)
        PROVE  KeptByWaiters'
    BY <2>2 DEF handleApproveRequest, handleDenyRequest, notifySigner, reqVars, pendVars
  <2> QED BY <1>2, <2>1, <2>2 DEF Owner
<1>3. ASSUME NEW rep \in Replicas, Crash(rep) PROVE KeptByWaiters'
  BY <1>3 DEF TypeOK, Crash
<1>4. CASE Environment /\ ~\E rep \in Replicas : Crash(rep)
  BY <1>4 DEF Environment, handleSetPermission, GrantExpires, handleDeletePermission,
     handleUpdateKey, CleanExpiredRequests, deleteAccountKey, deleteAccountGrants, RequestExpires,
     reqVars, pendVars
<1> QED BY <1>1, <1>2, <1>3, <1>4 DEF Next

\* A verdict reaches the channel of a request whose context is stored, and the
\* one a waiting request finds there is the first.
LEMMA NextChannelHoldsFirst ==
  ASSUME TypeOK, HandlersHaveRequests, KeptByWaiters, ChannelHoldsFirst, Next
  PROVE  ChannelHoldsFirst'
<1> USE DEF ChannelHoldsFirst
<1>1. ASSUME NEW r \in Reqs, Signer(r) PROVE ChannelHoldsFirst'
  <2>1. ASSUME NEW rep, NEW unread, NEW unknown,
               decryptAndDispatch(r, rep, unread, unknown)
        PROVE  ChannelHoldsFirst'
    BY <2>1 DEF TypeOK, decryptAndDispatch, Goto, pendVars
  <2>2. ASSUME NEW failed, processRequest(r, failed) PROVE ChannelHoldsFirst'
    BY <2>2 DEF TypeOK, processRequest, Serve, Refuse, Goto, pendVars
  <2>3. ASSUME NEW gone, NEW failed, connectWithSecret(r, gone, failed)
        PROVE  ChannelHoldsFirst'
    BY <2>3 DEF TypeOK, connectWithSecret, Serve, Goto, pendVars
  <2>4. ASSUME NEW failed, CreatePendingRequest(r, failed) \/ storePendingContext(r)
        PROVE  ChannelHoldsFirst'
    BY <2>4 DEF TypeOK, CreatePendingRequest, storePendingContext, Refuse, Goto
  <2>5. CASE receiveVerdict(r) \/ pollGrant(r) \/ deadline(r)
    BY <2>5 DEF TypeOK, receiveVerdict, pollGrant, deadline, Leave, Goto
  <2>6. ASSUME NEW failed, handlePendingApproval(r, failed) PROVE ChannelHoldsFirst'
    BY <2>6 DEF TypeOK, handlePendingApproval, Serve, Refuse, Goto
  <2> QED BY <1>1, <2>1, <2>2, <2>3, <2>4, <2>5, <2>6 DEF Signer
<1>2. ASSUME NEW d \in Deciders, Owner(d) PROVE ChannelHoldsFirst'
  <2>1. CASE notifySigner(d)
    <3>1. dec[d].req \in Reqs
      BY <2>1 DEF notifySigner, HandlersHaveRequests
    <3>2. CASE dec[d].req \in ctx /\ home[dec[d].req] = dec[d].at /\ chan[dec[d].req] = "empty"
      <4>1. pc[dec[d].req] \in {"waiting", "leaving"} /\ pc' = pc
        BY <2>1, <3>2 DEF KeptByWaiters, notifySigner, reqVars
      <4>2. Deliver(dec[d].req, VerdictOf(d))
        BY <2>1, <3>2 DEF notifySigner, Signal
      <4> QED BY <3>1, <3>2, <4>1, <4>2 DEF Deliver, TypeOK
    <3> QED BY <2>1, <3>2 DEF notifySigner, Signal, reqVars
  <2> QED
    BY <1>2, <2>1 DEF Owner, handleApproveRequest, handleDenyRequest, approveStore,
       DeletePendingRequest, reqVars, pendVars
<1>3. ASSUME NEW rep \in Replicas, Crash(rep) PROVE ChannelHoldsFirst'
  BY <1>3 DEF TypeOK, Crash
<1>4. CASE Environment /\ ~\E rep \in Replicas : Crash(rep)
  BY <1>4 DEF Environment, handleSetPermission, GrantExpires, handleDeletePermission,
     handleUpdateKey, CleanExpiredRequests, deleteAccountKey, deleteAccountGrants, RequestExpires,
     reqVars, pendVars
<1> QED BY <1>1, <1>2, <1>3, <1>4 DEF Next

\* A request's own steps: it is served on a grant it met, a poll that found one,
\* a valid secret or the first verdict.
LEMMA SignerAuthority ==
  ASSUME TypeOK, WaitersHadNoGrant, ChannelHoldsFirst, Authority, NEW r \in Reqs, Signer(r)
  PROVE  Authority'
<1> USE DEF Authority, AnsweredByAuthority, InFlight
<1>0. ClientOf \in [Reqs -> Clients] /\ ClientOf[r] \in Clients
  BY RequestAssumption
<1>1. ASSUME NEW rep, NEW unread, NEW unknown, decryptAndDispatch(r, rep, unread, unknown)
      PROVE  Authority'
  BY <1>0, <1>1 DEF TypeOK, decryptAndDispatch, Goto, NoGrant, pendVars
<1>2. ASSUME NEW failed, processRequest(r, failed) PROVE Authority'
  BY <1>2 DEF TypeOK, processRequest, Serve, Refuse, Goto, pendVars
<1>3. ASSUME NEW gone, NEW failed, connectWithSecret(r, gone, failed) PROVE Authority'
  <2>1. r \in covered' /\ covered \subseteq covered'
    BY <1>0, <1>3, SetPermissionKeeps DEF connectWithSecret
  <2>2. \A q \in Reqs : InFlight(q)' => InFlight(q)
    BY <1>3 DEF TypeOK, connectWithSecret, Serve, Goto
  <2>3. \A q \in Reqs : InFlight(q)' /\ grant'[ClientOf[q]].state = "live" => q \in covered'
    <3>1. CASE SetPermission(ClientOf[r], Methods, gone)
      <4>1. /\ \A q \in Reqs : InFlight(q) /\ ClientOf[q] = ClientOf[r] => q \in covered'
            /\ \A e \in Clients \ {ClientOf[r]} : grant'[e].state = "live" => grant[e].state = "live"
        BY <1>0, <3>1, SetPermissionKeeps
      <4>2. \A q \in Reqs : ClientOf[q] \in Clients
        BY <1>0
      <4> QED BY <2>1, <2>2, <4>1, <4>2
    <3>2. CASE UNCHANGED grant
      BY <2>1, <2>2, <3>2
    <3> QED BY <1>3, <3>1, <3>2 DEF connectWithSecret
  <2> QED BY <1>3, <2>1, <2>3 DEF TypeOK, connectWithSecret, Serve, Goto, pendVars
<1>4. ASSUME NEW failed, CreatePendingRequest(r, failed) \/ storePendingContext(r)
      PROVE  Authority'
  BY <1>4 DEF TypeOK, CreatePendingRequest, storePendingContext, Refuse, Goto
<1>5. CASE receiveVerdict(r) \/ pollGrant(r) \/ deadline(r)
  <2>1. \/ Leave(r, chan[r]) /\ chan[r] = first[r]
        \/ Leave(r, "approve") /\ r \in covered
        \/ Leave(r, "timeout")
    <3>1. CASE receiveVerdict(r)
      BY <3>1 DEF receiveVerdict, Leave, ChannelHoldsFirst
    <3>2. CASE pollGrant(r)
      BY <3>2 DEF pollGrant, Leave
    <3>3. CASE deadline(r)
      BY <3>3 DEF deadline
    <3> QED BY <1>5, <3>1, <3>2, <3>3
  <2>2. /\ pc' = [pc EXCEPT ![r] = "leaving"] /\ pc[r] = "waiting"
        /\ UNCHANGED <<grant, snap, served, covered, first>>
        /\ \A q \in Reqs \ {r} : verdict'[q] = verdict[q]
    BY <2>1 DEF Leave, Goto, TypeOK
  <2>3. /\ verdict'[r] = "approve" => r \in covered \/ first[r] = "approve"
        /\ verdict'[r] = "deny" => first[r] = "deny"
    BY <2>1 DEF Leave, TypeOK
  <2> QED BY <2>2, <2>3 DEF TypeOK
<1>6. ASSUME NEW failed, handlePendingApproval(r, failed) PROVE Authority'
  BY <1>6 DEF TypeOK, handlePendingApproval, Serve, Refuse, Goto
<1> QED BY <1>1, <1>2, <1>3, <1>4, <1>5, <1>6 DEF Signer

\* A handler's grant covers the client's requests in flight, and its verdict
\* never replaces a first one.
LEMMA OwnerAuthority ==
  ASSUME TypeOK, HandlersHaveRequests, Authority, NEW d \in Deciders, Owner(d)
  PROVE  Authority'
<1> USE DEF Authority, AnsweredByAuthority, InFlight
<1>0. dec[d] \in Handler /\ ClientOf \in [Reqs -> Clients]
  BY RequestAssumption DEF TypeOK
<1>1. ASSUME NEW r, NEW at, NEW ms, handleApproveRequest(d, r, at, ms) \/ handleDenyRequest(d, r, at)
      PROVE  Authority'
  BY <1>1 DEF handleApproveRequest, handleDenyRequest, reqVars, pendVars
<1>2. ASSUME dec[d].req # NoReq, NEW gone, NEW failed, approveStore(d, gone, failed)
      PROVE  Authority'
  <2>1. UNCHANGED <<pc, snap, verdict, served, first>>
    BY <1>2 DEF approveStore, reqVars, pendVars
  <2>2. CASE SetPermission(ClientOf[dec[d].req], dec[d].methods, gone)
    <3>1. dec[d].methods \in SUBSET Methods /\ ClientOf[dec[d].req] \in Clients
      BY <1>0, <1>2 DEF Handler
    <3>2. PICK c \in Clients, ms \in SUBSET Methods :
             c = ClientOf[dec[d].req] /\ ms = dec[d].methods
      BY <3>1
    <3>3. SetPermission(c, ms, gone)
      BY <2>2, <3>2 DEF SetPermission
    <3>4. /\ covered \subseteq covered'
          /\ \A r \in Reqs : InFlight(r) /\ ClientOf[r] = c => r \in covered'
          /\ \A e \in Clients \ {c} : grant'[e].state = "live" => grant[e].state = "live"
      BY <3>3, SetPermissionKeeps
    <3> QED BY <1>0, <2>1, <3>4
  <2>3. CASE UNCHANGED <<grant, covered>>
    BY <2>1, <2>3
  <2> QED BY <1>2, <2>2, <2>3 DEF approveStore
<1>3. ASSUME NEW failed, DeletePendingRequest(d, failed) PROVE Authority'
  BY <1>3 DEF DeletePendingRequest, reqVars
<1>4. CASE notifySigner(d)
  <2>1. UNCHANGED <<grant, pc, snap, verdict, served, covered>>
    BY <1>4 DEF notifySigner, reqVars
  <2>2. \A r \in Reqs : first[r] # "empty" => first'[r] = first[r]
    BY <1>4 DEF notifySigner, Signal, Deliver, TypeOK
  <2> QED BY <2>1, <2>2
<1> QED BY <1>1, <1>2, <1>3, <1>4 DEF Owner

\* The rest of the system covers what it grants.
LEMMA EnvironmentAuthority ==
  ASSUME TypeOK, Authority, Environment
  PROVE  Authority'
<1> USE DEF Authority, AnsweredByAuthority, InFlight
<1>0. ClientOf \in [Reqs -> Clients]
  BY RequestAssumption
<1>1. ASSUME NEW c \in Clients, NEW ms \in MethodSets, NEW gone, handleSetPermission(c, ms, gone)
      PROVE  Authority'
  <2>1. /\ covered \subseteq covered'
        /\ \A r \in Reqs : InFlight(r) /\ ClientOf[r] = c => r \in covered'
        /\ \A e \in Clients \ {c} : grant'[e].state = "live" => grant[e].state = "live"
    BY <1>1, SetPermissionKeeps, ConfigAssumption DEF handleSetPermission
  <2>2. UNCHANGED <<pc, snap, verdict, served, first>>
    BY <1>1 DEF handleSetPermission, reqVars, pendVars
  <2> QED BY <1>0, <2>1, <2>2
<1>2. ASSUME NEW c \in Clients, GrantExpires(c) \/ handleDeletePermission(c) PROVE Authority'
  <2>1. \A e \in Clients : grant'[e].state = "live" => grant[e].state = "live"
    BY <1>2 DEF TypeOK, GrantExpires, handleDeletePermission, NoGrant, ExpiredGrant
  <2> QED BY <1>0, <1>2, <2>1 DEF GrantExpires, handleDeletePermission, reqVars, pendVars
<1>3. CASE handleUpdateKey \/ CleanExpiredRequests \/ deleteAccountKey
  BY <1>3 DEF handleUpdateKey, CleanExpiredRequests, deleteAccountKey, reqVars, pendVars
<1>4. ASSUME NEW reached, deleteAccountGrants(reached) PROVE Authority'
  <2>1. \A e \in Clients : grant'[e].state # "live"
    BY <1>4 DEF deleteAccountGrants, NoGrant
  <2> QED BY <1>0, <1>4, <2>1 DEF deleteAccountGrants, reqVars, pendVars
<1>5. ASSUME NEW r \in Reqs, RequestExpires(r) PROVE Authority'
  BY <1>5 DEF RequestExpires, reqVars
<1>6. ASSUME NEW rep \in Replicas, Crash(rep) PROVE Authority'
  BY <1>6 DEF TypeOK, Crash
<1> QED BY <1>1, <1>2, <1>3, <1>4, <1>5, <1>6 DEF Environment

\* Every step of the system keeps the invariant.
LEMMA NextIInv == IInv /\ [Next]_vars => IInv'
<1> SUFFICES ASSUME IInv, [Next]_vars PROVE IInv'
  OBVIOUS
<1>1. CASE Next
  <2>1. TypeOK'
    BY <1>1, SignerTypeOK, OwnerTypeOK, EnvironmentTypeOK DEF Next, IInv
  <2>2. Authority'
    BY <1>1, SignerAuthority, OwnerAuthority, EnvironmentAuthority DEF Next, IInv
  <2> QED
    BY <1>1, <2>1, <2>2, NextHandlersHaveRequests, NextWaitersHadNoGrant, NextKeptByWaiters,
       NextChannelHoldsFirst DEF IInv
<1>2. CASE UNCHANGED vars
  <2>1. TypeOK'
    BY <1>2 DEF IInv, TypeOK, vars
  <2>2. HandlersHaveRequests' /\ WaitersHadNoGrant' /\ KeptByWaiters'
    BY <1>2 DEF IInv, HandlersHaveRequests, WaitersHadNoGrant, ExpiredGrantRefused, KeptByWaiters,
       vars
  <2>3. ChannelHoldsFirst' /\ Authority'
    BY <1>2 DEF IInv, ChannelHoldsFirst, Authority, AnsweredByAuthority, InFlight, vars
  <2> QED BY <2>1, <2>2, <2>3 DEF IInv
<1> QED BY <1>1, <1>2

-----------------------------------------------------------------------------
\* The inductive invariant holds.
THEOREM AuthInvariant == Spec => []IInv
BY InitIInv, NextIInv, PTL DEF Spec

\* Requests, rows, channels and handlers keep their types.
THEOREM AuthTypes == Spec => []TypeOK
<1>1. IInv => TypeOK
  BY DEF IInv
<1> QED BY <1>1, AuthInvariant, PTL

\* What serves a request is a grant its client held while it was here, a valid
\* secret or the first verdict, and what denies it is the first verdict,
\* whatever handlers, polls, failed calls, deletions and crashes interleave.
THEOREM AuthAnsweredByAuthority == Spec => []AnsweredByAuthority
<1>1. IInv => AnsweredByAuthority
  BY DEF IInv, Authority
<1> QED BY <1>1, AuthInvariant, PTL

\* A request that met an expired grant is never served.
THEOREM AuthExpiredGrantRefused == Spec => []ExpiredGrantRefused
<1>1. IInv => ExpiredGrantRefused
  BY DEF IInv, WaitersHadNoGrant
<1> QED BY <1>1, AuthInvariant, PTL

\* An answered request leaves no context, and no row unless a call failed, in
\* any number of handlers.
THEOREM AuthNothingLeftBehind == Spec => []NothingLeftBehind
<1>1. IInv => NothingLeftBehind
  BY DEF IInv, KeptByWaiters, NothingLeftBehind
<1> QED BY <1>1, AuthInvariant, PTL
=============================================================================
