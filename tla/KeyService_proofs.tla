------------------------- MODULE KeyService_proofs -------------------------
(***************************************************************************)
(* Safety of KeyService for every number of replicas, calls, connections,  *)
(* messages and requests, every skew of the clocks and every lifetime of a *)
(* location record.                                                        *)
(***************************************************************************)
EXTENDS KeyService, FiniteSetTheorems, WellFoundedInduction, TLAPS

\* Min of FiniteSetsExt, by the order of the natural numbers.
LEMMA MinIn ==
  ASSUME NEW S, S \subseteq Nat, S # {}
  PROVE  Min(S) \in S
<1> DEFINE R == OpToRel(<, Nat)
<1>1. IsWellFoundedOn(R, Nat)
  BY NatLessThanWellFounded, Zenon
<1>2. ASSUME NEW i \in Nat, NEW j \in Nat, i < j PROVE <<i, j>> \in R
  BY <1>2 DEF OpToRel
<1> HIDE DEF R
<1>3. \E x \in S : \A y \in S : ~(<<y, x>> \in R)
  BY <1>1, WFMin, Zenon
<1>4. PICK x \in S : \A y \in S : ~(<<y, x>> \in R)
  BY <1>3, Zenon
<1>5. ASSUME NEW y \in S PROVE x <= y
  <2>1. x \in Nat /\ y \in Nat
    OBVIOUS
  <2>2. ~(y < x)
    BY <1>2, <1>4, <2>1, Zenon
  <2> QED
    BY <2>1, <2>2
<1>6. \E z \in S : \A y \in S : z <= y
  BY <1>5, Zenon
<1> QED
  BY <1>6, Zenon DEF Min

-----------------------------------------------------------------------------
(* KeyRuntime.                                                             *)

\* At the start there are no keys and no subscription: the two match.
LEMMA RefreshInit == Start => RefreshInv
<1> SUFFICES ASSUME Start PROVE RefreshInv
  OBVIOUS
<1>1. MapTypes
  BY DEF Start, MapTypes, NoSnap
<1>2. \A p \in Calls : ~Refreshing(p)
  BY DEF Start, Refreshing
<1>3. subCancel = keys
  BY DEF Start
<1> QED
  BY <1>1, <1>2, <1>3 DEF RefreshInv

\* Of the steps of a call, one at a time; the others leave the maps alone.
LEMMA RefreshStep == RefreshInv /\ [RuntimeNext]_runtimeVars => RefreshInv'
<1> SUFFICES ASSUME RefreshInv, [RuntimeNext]_runtimeVars PROVE RefreshInv'
  OBVIOUS
<1> USE DEF RefreshInv, MapTypes, Refreshing, Calls
<1> DEFINE same == UNCHANGED <<keys, own, subCancel, snap, call>>
<1>0. same => RefreshInv'
  OBVIOUS
<1>1. ASSUME NEW p \in Loaders, RegisterKey(p) PROVE RefreshInv'
  BY <1>1 DEF RegisterKey
<1>2. ASSUME NEW p \in Evictors, UnregisterKey(p) PROVE RefreshInv'
  BY <1>2 DEF UnregisterKey
<1>3. ASSUME NEW p \in Evictors, RemoveClient(p) PROVE RefreshInv'
  BY <1>3 DEF RemoveClient, mapVars
<1>4. ASSUME NEW p \in Calls, Snapshot(p) PROVE RefreshInv'
  BY <1>4 DEF Snapshot, MayRefresh, mapVars
<1>5. ASSUME NEW p \in Calls, refreshSubscription(p) PROVE RefreshInv'
  <2>1. /\ subCancel' = snap.keys /\ UNCHANGED <<keys, own>>
        /\ call' = [call EXCEPT ![p] = "idle"] /\ snap' = NoSnap /\ Refreshing(p)
    BY <1>5 DEF refreshSubscription, Return, mapVars
  <2>2. MapTypes'
    BY <2>1 DEF NoSnap
  <2>3. \A q \in Calls : ~Refreshing(q)'
    BY <2>1
  <2>4. CASE \E q \in Calls : call[q] \in {"registered", "evicted", "removed"}
    <3>1. PICK q \in Calls : call[q] \in {"registered", "evicted", "removed"}
      BY <2>4
    <3>2. q # p
      BY <2>1, <3>1
    <3>3. call'[q] = call[q]
      BY <2>1, <3>2
    <3> QED
      BY <2>2, <2>3, <3>1, <3>3
  <2>5. CASE snap.keys = keys
    BY <2>1, <2>2, <2>3, <2>5
  <2> QED
    BY <2>1, <2>4, <2>5
<1>6. ASSUME NEW o \in BOOLEAN, WarmClient(o) PROVE RefreshInv'
  BY <1>0, <1>6 DEF WarmClient, mapVars
<1>7. ASSUME NEW n \in Conns, ConnectionDrops(n) \/ subscribeToRelayWithAuth(n) PROVE RefreshInv'
  BY <1>0, <1>7 DEF ConnectionDrops, subscribeToRelayWithAuth, mapVars
<1>8. CASE FindMissing \/ reconnectAndSubscribe
  BY <1>0, <1>8 DEF FindMissing, reconnectAndSubscribe, mapVars
<1>9. CASE StartReply \/ sendResponse \/ PublishToRelay \/ publishWithRetry
  BY <1>0, <1>9 DEF StartReply, sendResponse, PublishToRelay, publishWithRetry, mapVars
<1>10. CASE UNCHANGED runtimeVars
  BY <1>0, <1>10 DEF runtimeVars
<1> QED
  BY <1>1, <1>2, <1>3, <1>4, <1>5, <1>6, <1>7, <1>8, <1>9, <1>10 DEF RuntimeNext

\* With no call under way only the last case of the invariant is left.
LEMMA RefreshGives == RefreshInv => SubscriptionMatchesKeys
BY DEF RefreshInv, SubscriptionMatchesKeys, Quiet, Refreshing

-----------------------------------------------------------------------------
(* BaseClient.                                                             *)

\* A new connection waits for no acknowledgement.
LEMMA AckInit == Connect => AckInv
BY BaseAssumption DEF Connect, AckInv, AckSurvivesDeadConnection, NoAck

\* Only the publish itself writes ack; it fails with the fault that is noted.
LEMMA AckStep == AckInv /\ [BaseNext]_baseVars => AckInv'
<1> SUFFICES ASSUME AckInv, [BaseNext]_baseVars PROVE AckInv'
  OBVIOUS
<1> USE DEF AckInv, AckSurvivesDeadConnection
<1>0. Unused # {} => NewConn \in 0..MaxBaseConns
  <2>1. Unused \subseteq Nat /\ Unused \subseteq 0..MaxBaseConns
    BY BaseAssumption DEF Unused, BaseConns
  <2> QED
    BY <2>1, MinIn DEF NewConn
<1>1. ASSUME relay' \in 0..MaxBaseConns, UNCHANGED ack PROVE AckInv'
  BY <1>1
<1>2. 0 \in 0..MaxBaseConns
  BY BaseAssumption
<1>3. ASSUME DialFresh, UNCHANGED relay PROVE AckInv'
  <2>1. CASE Unused # {} /\ ack' = [at |-> "fresh", conn |-> NewConn, trouble |-> FALSE]
    BY <1>0, <1>3, <2>1
  <2>2. CASE ack' = [at |-> "failed", conn |-> 0, trouble |-> TRUE]
    BY <1>2, <1>3, <2>2
  <2> QED
    BY <1>3, <2>1, <2>2 DEF DialFresh
<1>4. CASE PublishToTarget
  <2>1. CASE relay \in open /\ ack' = [NoAck EXCEPT !.at = "cached", !.conn = relay]
    BY <1>4, <2>1 DEF PublishToTarget, NoAck
  <2> QED
    BY <1>3, <1>4, <2>1 DEF PublishToTarget
<1>5. CASE PublishCached
  <2>1. CASE ack' = [ack EXCEPT !.at = "delivered", !.conn = 0]
    BY <1>2, <1>5, <2>1 DEF PublishCached
  <2>2. CASE ack' = [at |-> "failed", conn |-> 0, trouble |-> TRUE]
    BY <1>2, <1>5, <2>2 DEF PublishCached
  <2> QED
    BY <1>3, <1>5, <2>1, <2>2 DEF PublishCached
<1>6. CASE PublishFresh
  <2>1. CASE ack' = [ack EXCEPT !.at = "delivered", !.conn = 0]
    BY <1>2, <1>6, <2>1 DEF PublishFresh
  <2>2. CASE ack' = [at |-> "failed", conn |-> 0, trouble |-> TRUE]
    BY <1>2, <1>6, <2>2 DEF PublishFresh
  <2> QED
    BY <1>6, <2>1, <2>2 DEF PublishFresh
<1>9. CASE NextAck
  BY <1>2, <1>9 DEF NextAck, NoAck
<1>7. CASE \E f \in Filters : SubscribeOn(f) \/ \E n \in BaseConns : EventsClosed(f, n)
  BY <1>1, <1>7, BaseAssumption DEF SubscribeOn, EventsClosed
<1>8. CASE CancelFrost \/ reconnectIfNeeded \/ \E n \in BaseConns : RelayCloses(n)
  BY <1>0, <1>1, <1>8 DEF CancelFrost, reconnectIfNeeded, RelayCloses
<1> QED
  BY <1>1, <1>4, <1>5, <1>6, <1>7, <1>8, <1>9 DEF BaseNext, baseVars

-----------------------------------------------------------------------------
(* UpstreamProxy.                                                          *)

\* A new client has no connection that could be lost unnoticed.
LEMMA ToldInit == NewClient => ToldInv
<1> SUFFICES ASSUME NewClient PROVE ToldInv
  OBVIOUS
<1>1. 0 \in 0..MaxUpstream /\ 0 \in 0..MaxDrops
  BY ProxyAssumption
<1>2. Resting \in [at : {"rest", "dial", "subscribed", "store", "send", "publish", "wait", "end"},
                   conn : 0..MaxUpstream, told : Outcomes]
  BY <1>1 DEF Resting, Outcomes
<1>3. ProxyTypeOK
  BY <1>1, <1>2 DEF NewClient, ProxyTypeOK, NoUpstream
<1> QED
  BY <1>3 DEF NewClient, ToldInv, LostConnectionTold, Resting, On

\* A connection is reset only when nobody refers to it.
LEMMA ToldStep == ToldInv /\ [ProxyNext]_proxyVars => ToldInv'
<1> SUFFICES ASSUME ToldInv, [ProxyNext]_proxyVars PROVE ToldInv'
  OBVIOUS
<1> DEFINE all == Forwards \cup {Loop}
           Fwd == [at : {"rest", "dial", "subscribed", "store", "send", "publish", "wait", "end"},
                   conn : 0..MaxUpstream, told : Outcomes]
<1>a. /\ upstream \in [Callees -> [relay : BOOLEAN, reads : BOOLEAN, connected : BOOLEAN]]
      /\ mapped \in 0..MaxUpstream /\ connParams \in BOOLEAN /\ deaf \subseteq Callees
      /\ fwd \in [all -> Fwd]
      /\ drops \in 0..MaxDrops
  BY DEF ToldInv, ProxyTypeOK
<1>b. 0 \in 0..MaxUpstream /\ \A c \in 0..MaxUpstream : c # 0 => c \in Callees
  BY ProxyAssumption DEF Callees
<1>c. Drop => drops' \in 0..MaxDrops
  BY <1>a, ProxyAssumption DEF Drop
\* A step that only moves x on.
<1>d. ASSUME NEW x \in all, NEW r \in Fwd, Step(x, r), UNCHANGED <<upstream, deaf>>,
             mapped' = mapped \/ (mapped' = On(x) /\ fwd[x].at = "store"),
             connParams' \in BOOLEAN, drops' \in 0..MaxDrops,
             r.at \in {"subscribed", "store", "send", "publish", "wait"} => r.conn # 0,
             r.at \in {"store", "send", "publish", "wait"} => Sound(r.conn),
             r.at = "wait" /\ r.told = "nothing" => upstream[r.conn].reads \/ r.conn \in deaf
      PROVE  ToldInv'
  <2>1. /\ fwd' \in [all -> Fwd] /\ fwd'[x] = r
        /\ \A y \in all : y # x => fwd'[y] = fwd[y]
    BY <1>d, <1>a DEF Step
  <2>2. mapped' \in 0..MaxUpstream /\ (mapped' # 0 => Sound(mapped)' )
    BY <1>d, <1>a DEF ToldInv, On, Sound
  <2>3. ProxyTypeOK'
    BY <1>d, <1>a, <2>1, <2>2 DEF ProxyTypeOK
  <2> QED
    BY <1>d, <1>a, <2>1, <2>2, <2>3 DEF ToldInv, LostConnectionTold, Sound, On
<1>e. Resting \in Fwd /\ Over("error") \in Fwd
  BY <1>b DEF Resting, Over, Outcomes
<1>1. ASSUME NEW x \in all, handleProxyRequest(x) \/ (x = Loop /\ reconnectUpstream) PROVE ToldInv'
  <2>1. UNCHANGED <<upstream, mapped, connParams, deaf, drops>>
    BY <1>1 DEF handleProxyRequest, reconnectUpstream
  <2>2. CASE Step(x, [Resting EXCEPT !.at = "dial"])
    <3> DEFINE r == [Resting EXCEPT !.at = "dial"]
    <3>1. r \in Fwd /\ r.at = "dial"
      BY <1>b DEF Resting, Outcomes
    <3> HIDE DEF r
    <3> QED
      BY <1>a, <1>d, <2>1, <2>2, <3>1 DEF r
  <2>3. CASE Connected /\ Step(x, [Resting EXCEPT !.at = "send", !.conn = mapped])
    <3> DEFINE r == [Resting EXCEPT !.at = "send", !.conn = mapped]
    <3>1. r \in Fwd /\ r.at = "send" /\ r.conn = mapped
      BY <1>a DEF Resting, Outcomes
    <3>2. mapped # 0 /\ Sound(mapped)
      BY <2>3 DEF Connected, ToldInv
    <3> HIDE DEF r
    <3> QED
      BY <1>a, <1>d, <2>1, <2>3, <3>1, <3>2 DEF r
  <2> QED
    BY <1>1, <2>2, <2>3 DEF handleProxyRequest, reconnectUpstream, GetConnection
<1>2. ASSUME NEW x \in all, DialUpstream(x) PROVE ToldInv'
  <2> DEFINE c == Min(Unreferenced)
  <2>1. c \in Callees /\ Forgettable(c)
    <3>1. Unreferenced \subseteq Nat /\ Unreferenced # {}
      BY <1>2, ProxyAssumption DEF DialUpstream, Unreferenced, Callees
    <3> QED
      BY <3>1, MinIn DEF Unreferenced
  <2> HIDE DEF c
  <2>2. PICK reads \in BOOLEAN :
          /\ IF reads THEN UNCHANGED drops ELSE Drop
          /\ upstream' = [upstream EXCEPT ![c] = [NoUpstream EXCEPT !.relay = TRUE, !.reads = reads]]
          /\ fwd' = [fwd EXCEPT ![x] = [fwd[x] EXCEPT !.at = "subscribed", !.conn = c]]
          /\ deaf' = deaf \ {c}
    BY <1>2 DEF DialUpstream, c, Step
  <2>3. UNCHANGED <<mapped, connParams>> /\ fwd[x].at = "dial"
    BY <1>2 DEF DialUpstream
  <2>4. c \in 0..MaxUpstream /\ c # 0
    BY <2>1, ProxyAssumption DEF Callees
  <2>5. ProxyTypeOK'
    <3>1. upstream' \in [Callees -> [relay : BOOLEAN, reads : BOOLEAN, connected : BOOLEAN]]
      BY <2>2, <2>1, <1>a DEF NoUpstream
    <3>2. fwd' \in [all -> Fwd]
      BY <2>2, <2>4, <1>a
    <3> QED
      BY <3>1, <3>2, <1>a, <1>c, <2>2, <2>3 DEF ProxyTypeOK
  <2>6. \A y \in all : y # x => fwd'[y] = fwd[y] /\ On(y) # c
    BY <2>1, <2>2, <1>a DEF Forgettable, On
  <2>7. fwd'[x].at = "subscribed" /\ fwd'[x].conn = c
    BY <2>2, <1>a
  <2>8. \A d \in Callees : d # c => upstream'[d] = upstream[d] /\ (d \in deaf' <=> d \in deaf)
    BY <2>2, <1>a
  <2>9. mapped # c
    BY <2>1 DEF Forgettable
  <2> QED
    BY <2>3, <2>4, <2>5, <2>6, <2>7, <2>8, <2>9, <1>a, <1>b DEF ToldInv, LostConnectionTold, Sound, On
<1>3. ASSUME NEW x \in all, MarkConnected(x) PROVE ToldInv'
  <2>1. On(x) \in Callees
    BY <1>3, <1>a, <1>b DEF MarkConnected, ToldInv, On
  <2>2. ProxyTypeOK'
    BY <1>3, <1>a, <2>1 DEF MarkConnected, Step, ProxyTypeOK
  <2>3. \A d \in Callees : upstream'[d].relay = upstream[d].relay /\ upstream'[d].reads = upstream[d].reads
    BY <1>3, <1>a, <2>1 DEF MarkConnected
  <2>4. deaf \subseteq deaf' /\ (upstream[On(x)].reads \/ On(x) \in deaf')
    BY <1>3 DEF MarkConnected
  <2>5. /\ \A y \in all : y # x => fwd'[y] = fwd[y]
        /\ fwd'[x].at = "store" /\ fwd'[x].conn = On(x) /\ mapped' = mapped
    BY <1>3, <1>a DEF MarkConnected, Step, On
  <2>6. \A d \in Callees : Sound(d) \/ d = On(x) => Sound(d)'
    BY <2>1, <2>3, <2>4 DEF Sound
  <2>7. \A d \in Callees : upstream[d].reads \/ d \in deaf => (upstream[d].reads \/ d \in deaf)'
    BY <2>3, <2>4
  <2>8. LostConnectionTold'
    BY <2>5, <2>7, <1>a, <1>b DEF ToldInv, LostConnectionTold, On
  <2>9. mapped' # 0 => Sound(mapped)'
    BY <2>5, <2>6, <1>a, <1>b DEF ToldInv, Sound
  <2>10. ASSUME NEW y \in all
         PROVE  /\ fwd'[y].at \in {"subscribed", "store", "send", "publish", "wait"} => On(y)' # 0
                /\ fwd'[y].at \in {"store", "send", "publish", "wait"} => Sound(On(y))'
    <3>1. CASE y = x
      BY <3>1, <2>1, <2>5, <2>6, <1>b DEF On, Sound, Callees
    <3>2. CASE y # x
      BY <3>2, <2>5, <2>6, <1>a, <1>b DEF ToldInv, On, Sound
    <3> QED
      BY <3>1, <3>2
  <2> QED
    BY <2>2, <2>8, <2>9, <2>10 DEF ToldInv
<1>4. ASSUME NEW x \in all, Store(x) PROVE ToldInv'
  <2> DEFINE r == [fwd[x] EXCEPT !.at = "send"]
  <2>1. r \in Fwd /\ r.at = "send" /\ r.conn = On(x) /\ On(x) # 0 /\ Sound(On(x))
    BY <1>4, <1>a DEF Store, On, ToldInv
  <2> HIDE DEF r
  <2>2. CASE Step(x, r)
    BY <1>4, <1>a, <1>d, <2>1, <2>2 DEF Store
  <2>3. CASE Step(x, Resting)
    BY <1>4, <1>a, <1>d, <1>e, <2>3 DEF Store, Resting
  <2> QED
    BY <1>4, <2>2, <2>3 DEF Store, r
<1>5. ASSUME NEW x \in all, DialFails(x) PROVE ToldInv'
  <2>1. CASE Step(x, Resting)
    BY <1>5, <1>a, <1>c, <1>d, <1>e, <2>1 DEF DialFails, Resting
  <2>2. CASE Step(x, Over("error"))
    BY <1>5, <1>a, <1>c, <1>d, <1>e, <2>2 DEF DialFails, Over, Resting
  <2> QED
    BY <1>5, <2>1, <2>2 DEF DialFails
<1>6. ASSUME NEW x \in Forwards, SendRequest(x) \/ PublishUpstream(x) PROVE ToldInv'
  <2> DEFINE r == [fwd[x] EXCEPT !.at = "publish"]
             q == [fwd[x] EXCEPT !.at = "wait"]
  <2>1. /\ r \in Fwd /\ r.at = "publish" /\ r.conn = On(x)
        /\ q \in Fwd /\ q.at = "wait" /\ q.conn = On(x) /\ On(x) # 0 /\ Sound(On(x))
    BY <1>6, <1>a DEF SendRequest, PublishUpstream, On, ToldInv
  <2> HIDE DEF r, q
  <2>2. UNCHANGED <<upstream, mapped, connParams, deaf, drops>>
    BY <1>6 DEF SendRequest, PublishUpstream
  <2>3. CASE Step(x, r)
    BY <1>a, <1>d, <2>1, <2>2, <2>3
  <2>4. CASE upstream[On(x)].relay /\ Step(x, q)
    BY <1>a, <1>d, <2>1, <2>2, <2>4 DEF Sound
  <2>5. CASE Step(x, Over("error"))
    BY <1>a, <1>d, <1>e, <2>2, <2>5 DEF Over, Resting
  <2> QED
    BY <1>6, <2>3, <2>4, <2>5 DEF SendRequest, PublishUpstream, r, q
<1>7. ASSUME NEW x \in Forwards, handleResponse(x) PROVE ToldInv'
  <2>1. PICK told \in {"result", "error"} : Step(x, Tell(x, told))
    BY <1>7 DEF handleResponse
  <2>2. Tell(x, told) \in Fwd /\ Tell(x, told).at = "wait" /\ Tell(x, told).conn = On(x)
    BY <1>7, <1>a DEF handleResponse, Tell, On, Outcomes
  <2>3. upstream[On(x)].reads /\ On(x) # 0
    BY <1>7 DEF handleResponse, ToldInv
  <2> QED
    BY <1>7, <1>a, <1>d, <2>1, <2>2, <2>3 DEF handleResponse, Sound
<1>8. ASSUME NEW x \in Forwards, ReadAnswer(x) \/ TimesOut(x) \/ Answered(x) PROVE ToldInv'
  <2>1. PICK r \in {Resting} \cup {Over(told) : told \in Outcomes} : Step(x, r)
    BY <1>8, <1>a DEF ReadAnswer, TimesOut, Answered, Outcomes
  <2>2. r \in Fwd /\ r.at \in {"rest", "end"}
    <3>1. CASE r = Resting
      BY <1>e, <3>1 DEF Resting
    <3>2. ASSUME NEW told \in Outcomes, r = Over(told) PROVE r \in Fwd /\ r.at \in {"rest", "end"}
      BY <1>b, <3>2 DEF Resting, Over
    <3> QED
      BY <3>1, <3>2, <2>1
  <2>3. UNCHANGED <<upstream, mapped, connParams, deaf>> /\ drops' \in 0..MaxDrops
    BY <1>8, <1>a, <1>c DEF ReadAnswer, TimesOut, Answered
  <2> QED
    BY <1>a, <1>d, <2>1, <2>2, <2>3
<1>9. ASSUME NEW c \in Callees, subscribeToResponses(c) PROVE ToldInv'
  <2>1. CASE upstream[c].reads
    <3>1. /\ upstream' = [upstream EXCEPT ![c].relay = FALSE, ![c].reads = FALSE, ![c].connected = FALSE]
          /\ failPendingRequests(c) /\ mapped' \in {0, mapped} /\ UNCHANGED <<connParams, deaf>> /\ Drop
      BY <1>9, <2>1 DEF subscribeToResponses
    <3>2. ProxyTypeOK'
      <4>1. fwd' \in [all -> Fwd]
        BY <3>1, <1>a DEF failPendingRequests, Tell, On, Outcomes
      <4>2. upstream' \in [Callees -> [relay : BOOLEAN, reads : BOOLEAN, connected : BOOLEAN]]
        <5>1. upstream[c] \in [relay : BOOLEAN, reads : BOOLEAN, connected : BOOLEAN]
          BY <1>a
        <5>2. [upstream[c] EXCEPT !.relay = FALSE, !.reads = FALSE, !.connected = FALSE]
                \in [relay : BOOLEAN, reads : BOOLEAN, connected : BOOLEAN]
          BY <5>1
        <5>3. upstream' = [upstream EXCEPT ![c] =
                [upstream[c] EXCEPT !.relay = FALSE, !.reads = FALSE, !.connected = FALSE]]
          BY <3>1, <5>1, <1>a
        <5> QED
          BY <5>2, <5>3, <1>a
      <4>3. mapped' \in 0..MaxUpstream /\ drops' \in 0..MaxDrops
        BY <3>1, <1>a, <1>b, <1>c
      <4> QED
        BY <3>1, <4>1, <4>2, <4>3, <1>a DEF ProxyTypeOK
    <3>3. \A d \in Callees : (d # c => upstream'[d] = upstream[d]) /\ (d = c => ~upstream'[d].relay)
      BY <3>1, <1>a
    <3>4. \A y \in all : /\ fwd'[y].at = fwd[y].at /\ fwd'[y].conn = fwd[y].conn
                         /\ On(y) = c /\ fwd[y].at = "wait" => fwd'[y].told # "nothing"
                         /\ fwd'[y].told = "nothing" => fwd[y].told = "nothing"
      BY <3>1, <1>a DEF failPendingRequests, Tell, On, Outcomes
    <3>5. mapped' # 0 => Sound(mapped)'
      BY <3>1, <3>3, <1>a, <1>b DEF ToldInv, Sound
    <3>6. LostConnectionTold'
      BY <3>1, <3>3, <3>4, <1>a, <1>b DEF ToldInv, LostConnectionTold, On
    <3>7. ASSUME NEW y \in all
          PROVE  /\ fwd'[y].at \in {"subscribed", "store", "send", "publish", "wait"} => On(y)' # 0
                 /\ fwd'[y].at \in {"store", "send", "publish", "wait"} => Sound(On(y))'
      BY <3>1, <3>3, <3>4, <1>a, <1>b DEF ToldInv, Sound, On
    <3> QED
      BY <3>2, <3>5, <3>6, <3>7 DEF ToldInv
  <2>2. CASE ~upstream[c].reads
    <3>1. /\ upstream' = [upstream EXCEPT ![c].relay = FALSE]
          /\ UNCHANGED <<fwd, mapped, connParams, deaf>> /\ Drop
      BY <1>9, <2>2 DEF subscribeToResponses
    <3>2. ProxyTypeOK'
      BY <3>1, <1>a, <1>c DEF ProxyTypeOK
    <3>3. \A d \in Callees : /\ upstream'[d].relay => upstream[d].relay
                            /\ upstream'[d].reads = upstream[d].reads
      BY <3>1, <1>a
    <3> QED
      BY <3>1, <3>2, <3>3, <1>a, <1>b DEF ToldInv, LostConnectionTold, Sound, On
  <2> QED
    BY <2>1, <2>2
<1>10. CASE UNCHANGED proxyVars
  BY <1>10 DEF proxyVars, ToldInv, ProxyTypeOK, LostConnectionTold, Sound, On
<1> QED
  BY <1>1, <1>2, <1>3, <1>4, <1>5, <1>6, <1>7, <1>8, <1>9, <1>10 DEF ProxyNext, Connecting

-----------------------------------------------------------------------------
-----------------------------------------------------------------------------
(* KeyLocation.                                                            *)

\* At the start no replica holds a key or a request.
LEMMA LocationInitial == LocationInit => LocationInv
<1> SUFFICES ASSUME LocationInit PROVE LocationInv
  OBVIOUS
<1>1. LocationTypeOK
  BY LocationAssumption DEF LocationInit, LocationTypeOK, NoRecord, Unseen
<1>2. NonceInv
  BY FS_EmptySet DEF LocationInit, NonceInv
<1>3. ServedInv
  BY DEF LocationInit, ServedInv, Unseen
<1>4. HolderInv
  BY LocationAssumption DEF LocationInit, HolderInv
<1> QED
  BY <1>1, <1>2, <1>3, <1>4 DEF LocationInv

\* The clock, and what every replica reads of it, is a natural number.
LEMMA ClockNat ==
  ASSUME LocationTypeOK
  PROVE  now \in Nat /\ \A r \in Replicas : Clock(r) \in Nat
<1>1. now \in 0..MaxTime /\ MaxTime \in Nat
  BY LocationAssumption DEF LocationTypeOK
<1>2. now \in Nat
  BY <1>1
<1>3. ASSUME NEW r \in Replicas PROVE offset[r] \in Nat
  BY LocationAssumption DEF LocationTypeOK
<1> QED
  BY <1>2, <1>3 DEF Clock

\* What evictLocal leaves.
LEMMA Evicted ==
  ASSUME LocationTypeOK, NEW r \in Replicas, evictLocal(r)
  PROVE  /\ held' \in [Replicas -> BOOLEAN] /\ soleSince' \in {soleSince, now}
         /\ record' \in [addr : Replicas \cup {NoReplica}, expires : Nat]
         /\ record' = record \/ record.addr = r
         /\ \/ held[r] /\ soleSince' = now
            \/ ~held[r] /\ UNCHANGED <<held, soleSince>>
<1>1. record' = Forgotten(r)
  BY DEF evictLocal
<1>2. /\ record' \in [addr : Replicas \cup {NoReplica}, expires : Nat]
      /\ record' = record \/ record.addr = r
  BY <1>1 DEF Forgotten, NoRecord, LocationTypeOK
<1>3. CASE held[r]
  BY <1>2, <1>3 DEF evictLocal, Hold, LocationTypeOK
<1>4. CASE ~held[r]
  BY <1>2, <1>4 DEF evictLocal, LocationTypeOK
<1> QED
  BY <1>3, <1>4

\* A message that is sent has a nonce of its own, and is typed.
LEMMA Sent ==
  ASSUME LocationTypeOK, NonceInv, UNCHANGED <<served, seen, now, offset>>,
         NEW r \in Replicas, NEW kind \in {"req", "evict"}, Lookup(r) # NoReplica, Send(r, kind)
  PROVE  net' \subseteq Message /\ NonceInv' /\ net \subseteq net'
<1> DEFINE n == Cardinality(net) + 1
           m == [kind |-> kind, to |-> Lookup(r), ts |-> Clock(r), nonce |-> n]
<1>1. net' = net \cup {m} /\ Cardinality(net) < MaxMessages
  BY DEF Send
<1>2. Cardinality(net) \in Nat
  BY FS_CardinalityType DEF NonceInv
<1>3. m \notin net
  BY <1>2 DEF NonceInv
<1>4. IsFiniteSet(net') /\ Cardinality(net') = n
  BY <1>1, <1>3, FS_AddElement DEF NonceInv
<1>5. m \in Message
  <2>1. Lookup(r) \in Replicas
    BY DEF Lookup, LocationTypeOK
  <2>2. Clock(r) \in Nat
    BY ClockNat
  <2>3. n \in Nonces
    BY <1>1, <1>2, LocationAssumption DEF Nonces
  <2> QED
    BY <2>1, <2>2, <2>3 DEF Message
<1>6. \A k \in net : k.nonce \in Nat /\ k.nonce <= Cardinality(net)
  BY DEF NonceInv, LocationTypeOK, Message, Nonces
<1> HIDE DEF m
<1>7. m.nonce = n
  BY DEF m
<1>8. net' \subseteq Message /\ net \subseteq net'
  BY <1>1, <1>5 DEF LocationTypeOK
<1>9. \A k \in net' : k.nonce <= n
  BY <1>1, <1>2, <1>6, <1>7
<1>10. ASSUME NEW k \in net', NEW l \in net', k.nonce = l.nonce PROVE k = l
  <2>1. CASE k \in net /\ l \in net
    BY <1>10, <2>1 DEF NonceInv
  <2>2. CASE k = m \/ l = m
    BY <1>1, <1>2, <1>6, <1>7, <1>10, <2>2
  <2> QED
    BY <1>1, <2>1, <2>2
<1> QED
  BY <1>4, <1>8, <1>9, <1>10 DEF NonceInv

\* Every step keeps the types, and that a nonce names one message.
LEMMA LocationTypes == LocationTypeOK /\ NonceInv /\ [LocationNext]_locationVars => LocationTypeOK' /\ NonceInv'
<1> SUFFICES ASSUME LocationTypeOK, NonceInv, [LocationNext]_locationVars PROVE LocationTypeOK' /\ NonceInv'
  OBVIOUS
<1>a. UNCHANGED net => NonceInv'
  BY DEF NonceInv
<1>b. now \in Nat /\ now \in 0..MaxTime /\ \A r \in Replicas : Clock(r) \in Nat
  BY ClockNat DEF LocationTypeOK
<1>1. ASSUME NEW r \in Replicas, loadUserVaultKeys(r) PROVE LocationTypeOK' /\ NonceInv'
  BY <1>1, <1>a, LocationAssumption DEF loadUserVaultKeys, LocationTypeOK
<1>2. ASSUME NEW r \in Replicas, publishLoadedKeys(r) PROVE LocationTypeOK' /\ NonceInv'
  BY <1>2, <1>a, <1>b DEF publishLoadedKeys, Hold, LocationTypeOK
<1>3. ASSUME NEW r \in Replicas, Run(r) PROVE LocationTypeOK' /\ NonceInv'
  BY <1>3, <1>a, <1>b DEF Run, LocationTypeOK
<1>4. ASSUME NEW r \in Replicas, Publish(r) PROVE LocationTypeOK' /\ NonceInv'
  BY <1>4, <1>a, <1>b, LocationAssumption DEF Publish, LocationTypeOK
<1>5. ASSUME NEW r \in Replicas, Logout(r) PROVE LocationTypeOK' /\ NonceInv'
  BY <1>5, <1>a, <1>b, Evicted DEF Logout, LocationTypeOK
<1>6. ASSUME NEW r \in Replicas, Restart(r) PROVE LocationTypeOK' /\ NonceInv'
  BY <1>6, <1>a, <1>b, LocationAssumption
     DEF Restart, Hold, Forgotten, NoRecord, Unseen, LocationTypeOK
<1>7. ASSUME NEW r \in Replicas, forwardSession(r) PROVE LocationTypeOK' /\ NonceInv'
  <2>1. net' \subseteq Message /\ NonceInv'
    BY <1>7, Sent DEF forwardSession
  <2> QED
    BY <1>7, <2>1 DEF forwardSession, LocationTypeOK
<1>8. ASSUME NEW r \in Replicas, deleteAccount(r) PROVE LocationTypeOK' /\ NonceInv'
  <2>1. net' \subseteq Message /\ NonceInv'
    <3>1. CASE UNCHANGED net
      BY <1>a, <3>1 DEF LocationTypeOK
    <3>2. CASE Lookup(r) # NoReplica /\ Send(r, "evict")
      BY <1>8, <3>2, Sent DEF deleteAccount
    <3> QED
      BY <1>8, <3>1, <3>2 DEF deleteAccount, evictRemote
  <2> QED
    BY <1>8, <1>b, <2>1, Evicted DEF deleteAccount, LocationTypeOK
<1>9. ASSUME NEW r \in Replicas, evictIfKeyDeleted(r) PROVE LocationTypeOK' /\ NonceInv'
  BY <1>9, <1>a, <1>b DEF evictIfKeyDeleted, Hold, LocationTypeOK
<1>10. ASSUME NEW r \in Replicas, NEW m \in net, receive(r, m) \/ receiveEvict(r, m)
       PROVE LocationTypeOK' /\ NonceInv'
  <2>1. Meet(r, m) /\ m.nonce \in Nonces
    BY <1>10 DEF receive, receiveEvict, LocationTypeOK, Message
  <2>2. Pruned(r) \in [Nonces -> {-1} \cup Nat]
    BY DEF Pruned, LocationTypeOK
  <2>3. seen' \in [Replicas -> [Nonces -> {-1} \cup Nat]]
    BY <2>1, <2>2, <1>b DEF Meet, LocationTypeOK
  <2>4. served' \in [Replicas -> [Nonces -> Nat]]
    BY <2>1 DEF Meet, LocationTypeOK
  <2>5. /\ held' \in [Replicas -> BOOLEAN] /\ soleSince' \in 0..MaxTime
        /\ record' \in [addr : Replicas \cup {NoReplica}, expires : Nat]
    <3>1. CASE UNCHANGED <<held, record, soleSince>>
      BY <3>1 DEF LocationTypeOK
    <3>2. CASE evictLocal(r)
      BY <3>2, <1>b, Evicted DEF LocationTypeOK
    <3> QED
      BY <1>10, <3>1, <3>2 DEF receive, receiveEvict
  <2> QED
    BY <2>1, <2>3, <2>4, <2>5, <1>a DEF Meet, LocationTypeOK
<1>11. CASE Tick
  BY <1>11, <1>a, <1>b, LocationAssumption DEF Tick, LocationTypeOK
<1>12. CASE UNCHANGED locationVars
  BY <1>12, <1>a DEF locationVars, LocationTypeOK
<1> QED
  BY <1>1, <1>2, <1>3, <1>4, <1>5, <1>6, <1>7, <1>8, <1>9, <1>10, <1>11, <1>12 DEF LocationNext

\* A nonce is dropped only when its message is too old.
LEMMA ServedStep ==
  LocationTypeOK /\ NonceInv /\ ServedInv /\ [LocationNext]_locationVars => ServedInv'
<1> SUFFICES ASSUME LocationTypeOK, NonceInv, ServedInv, [LocationNext]_locationVars PROVE ServedInv'
  OBVIOUS
<1>a. /\ \A r \in Replicas : Clock(r) \in Nat
      /\ \A m \in net : m.ts \in Nat /\ m.nonce \in Nonces /\ m.to \in Replicas
      /\ \A r \in Replicas, n \in Nonces : seen[r][n] \in {-1} \cup Nat
      /\ ForwardSkew \in Nat
  BY ClockNat, LocationAssumption DEF LocationTypeOK, Message
<1>0. ASSUME UNCHANGED <<served, seen, offset>>, net \subseteq net', now' = now \/ now' = now + 1 PROVE ServedInv'
  <2>1. \A r \in Replicas : Clock(r)' >= Clock(r) /\ Clock(r)' \in Nat
    <3>1. ASSUME NEW r \in Replicas PROVE offset[r] \in Nat
      BY LocationAssumption DEF LocationTypeOK
    <3> QED
      BY <1>0, <3>1, ClockNat DEF Clock
  <2>2. ASSUME NEW r \in Replicas, NEW n \in Nonces, NEW m \in net, m.to = r, m.nonce = n,
               IF seen[r][n] = -1 THEN Clock(r) - m.ts > ForwardSkew ELSE m.ts - seen[r][n] <= ForwardSkew
        PROVE  IF seen'[r][n] = -1 THEN Clock(r)' - m.ts > ForwardSkew ELSE m.ts - seen'[r][n] <= ForwardSkew
    BY <1>0, <1>a, <2>1, <2>2
  <2>3. ASSUME NEW r \in Replicas, NEW n \in Nonces
        PROVE  \/ served'[r][n] = 0 /\ seen'[r][n] = -1
               \/ /\ served'[r][n] = 1
                  /\ \E m \in net' :
                       /\ m.to = r /\ m.nonce = n
                       /\ IF seen'[r][n] = -1 THEN Clock(r)' - m.ts > ForwardSkew
                          ELSE m.ts - seen'[r][n] <= ForwardSkew
    <3>1. CASE served[r][n] = 0 /\ seen[r][n] = -1
      BY <1>0, <3>1
    <3>2. CASE served[r][n] = 1
      <4>1. PICK m \in net :
              /\ m.to = r /\ m.nonce = n
              /\ IF seen[r][n] = -1 THEN Clock(r) - m.ts > ForwardSkew ELSE m.ts - seen[r][n] <= ForwardSkew
        BY <3>2 DEF ServedInv
      <4> QED
        BY <1>0, <2>2, <3>2, <4>1
    <3> QED
      BY <3>1, <3>2 DEF ServedInv
  <2> QED
    BY <2>3 DEF ServedInv
<1>1. ASSUME NEW r \in Replicas, Restart(r) PROVE ServedInv'
  <2>1. \A s \in Replicas, n \in Nonces :
          IF s = r THEN served'[s][n] = 0 /\ seen'[s][n] = -1
          ELSE served'[s][n] = served[s][n] /\ seen'[s][n] = seen[s][n]
    BY <1>1 DEF Restart, Unseen, LocationTypeOK
  <2>2. \A s \in Replicas : Clock(s)' = Clock(s)
    BY <1>1 DEF Restart, Clock
  <2> QED
    BY <1>1, <2>1, <2>2 DEF Restart, ServedInv
<1>2. ASSUME NEW r \in Replicas, NEW m \in net, receive(r, m) \/ receiveEvict(r, m) PROVE ServedInv'
  <2> DEFINE n == m.nonce
  <2>1. Meet(r, m) /\ m.to = r /\ Fresh(r, m) /\ n \in Nonces
    BY <1>2, <1>a DEF receive, receiveEvict, Meet
  <2>2. \A s \in Replicas : Clock(s)' = Clock(s)
    BY <2>1 DEF Meet, Clock
  <2>3. \A s \in Replicas, k \in Nonces :
          s # r => served'[s][k] = served[s][k] /\ seen'[s][k] = seen[s][k]
    BY <2>1 DEF Meet, LocationTypeOK
  <2>4. \A k \in Nonces : k # n => served'[r][k] = served[r][k]
                                   /\ seen'[r][k] = IF Forgets(r, k) THEN -1 ELSE seen[r][k]
    BY <2>1 DEF Meet, LocationTypeOK, Pruned
  <2>5. IF firstUse(r, n) THEN served'[r][n] = served[r][n] + 1 /\ seen'[r][n] = Clock(r)
        ELSE served'[r][n] = served[r][n] /\ seen'[r][n] = seen[r][n]
    BY <2>1 DEF Meet, LocationTypeOK, Pruned, firstUse
  <2>6. m.ts - Clock(r) <= ForwardSkew /\ ~(Clock(r) - m.ts > ForwardSkew)
    BY <2>1, <1>a DEF Fresh, Abs
  <2>7. firstUse(r, n) => served[r][n] = 0
    <3>1. SUFFICES ASSUME firstUse(r, n), served[r][n] # 0 PROVE FALSE
      OBVIOUS
    <3>2. PICK k \in net :
            /\ k.to = r /\ k.nonce = n
            /\ IF seen[r][n] = -1 THEN Clock(r) - k.ts > ForwardSkew ELSE k.ts - seen[r][n] <= ForwardSkew
      BY <2>1, <3>1, <1>a DEF ServedInv
    <3>3. k = m
      BY <3>2 DEF NonceInv
    <3>4. seen[r][n] # -1 /\ m.ts - seen[r][n] <= ForwardSkew
      BY <2>6, <3>2, <3>3
    <3>5. Clock(r) - seen[r][n] > 2 * ForwardSkew
      BY <2>1, <3>1, <3>4 DEF firstUse, Pruned, Forgets
    <3>6. seen[r][n] \in Nat /\ Clock(r) \in Nat /\ m.ts \in Nat /\ ForwardSkew \in Nat
      BY <1>a, <2>1, <3>4
    <3> QED
      BY <2>6, <3>4, <3>5, <3>6
  <2>8. ASSUME NEW s \in Replicas, NEW k \in Nonces, s # r \/ k # n
        PROVE  \/ served'[s][k] = 0 /\ seen'[s][k] = -1
               \/ /\ served'[s][k] = 1
                  /\ \E q \in net :
                       /\ q.to = s /\ q.nonce = k
                       /\ IF seen'[s][k] = -1 THEN Clock(s) - q.ts > ForwardSkew
                          ELSE q.ts - seen'[s][k] <= ForwardSkew
    <3>1. served'[s][k] = served[s][k]
      BY <2>3, <2>4, <2>8
    <3>2. seen'[s][k] = seen[s][k] \/ (s = r /\ Forgets(r, k) /\ seen'[s][k] = -1)
      BY <2>3, <2>4, <2>8
    <3>3. CASE served[s][k] = 0 /\ seen[s][k] = -1
      BY <3>1, <3>2, <3>3
    <3>4. CASE served[s][k] = 1
      <4>1. PICK q \in net :
              /\ q.to = s /\ q.nonce = k
              /\ IF seen[s][k] = -1 THEN Clock(s) - q.ts > ForwardSkew ELSE q.ts - seen[s][k] <= ForwardSkew
        BY <3>4 DEF ServedInv
      <4>2. CASE seen'[s][k] = seen[s][k]
        BY <3>1, <3>4, <4>1, <4>2
      <4>3. CASE s = r /\ Forgets(r, k) /\ seen'[s][k] = -1
        <5>1. seen[r][k] # -1 /\ Clock(r) - seen[r][k] > 2 * ForwardSkew
          BY <4>3 DEF Forgets
        <5>2. seen[r][k] \in Nat /\ Clock(r) \in Nat /\ q.ts \in Nat
          BY <1>a, <5>1
        <5>3. Clock(r) - q.ts > ForwardSkew
          BY <1>a, <4>1, <4>3, <5>1, <5>2
        <5> QED
          BY <3>1, <3>4, <4>1, <4>3, <5>3
      <4> QED
        BY <3>2, <4>2, <4>3
    <3> QED
      BY <3>3, <3>4 DEF ServedInv
  <2>9. \/ served'[r][n] = 0 /\ seen'[r][n] = -1
        \/ /\ served'[r][n] = 1
           /\ \E q \in net :
                /\ q.to = r /\ q.nonce = n
                /\ IF seen'[r][n] = -1 THEN Clock(r) - q.ts > ForwardSkew
                   ELSE q.ts - seen'[r][n] <= ForwardSkew
    <3>1. CASE firstUse(r, n)
      <4>1. served'[r][n] = 1 /\ seen'[r][n] = Clock(r) /\ Clock(r) # -1
        BY <2>5, <2>7, <3>1, <1>a
      <4> QED
        BY <2>1, <2>6, <4>1
    <3>2. CASE ~firstUse(r, n)
      BY <2>1, <2>5, <3>2 DEF ServedInv
    <3> QED
      BY <3>1, <3>2
  <2> QED
    BY <2>1, <2>2, <2>8, <2>9 DEF ServedInv, Meet
<1>3. ASSUME NEW r \in Replicas, forwardSession(r) \/ deleteAccount(r) PROVE ServedInv'
  <2>1. net \subseteq net'
    BY <1>3 DEF forwardSession, deleteAccount, evictRemote, Send
  <2> QED
    BY <1>0, <1>3, <2>1 DEF forwardSession, deleteAccount
<1>4. ASSUME NEW r \in Replicas,
             \/ loadUserVaultKeys(r) \/ publishLoadedKeys(r) \/ Run(r) \/ Publish(r)
             \/ Logout(r) \/ evictIfKeyDeleted(r)
      PROVE  ServedInv'
  BY <1>0, <1>4 DEF loadUserVaultKeys, publishLoadedKeys, Run, Publish, Logout, evictIfKeyDeleted
<1>5. CASE Tick
  BY <1>0, <1>5 DEF Tick
<1>6. CASE UNCHANGED locationVars
  BY <1>0, <1>6 DEF locationVars
<1> QED
  BY <1>1, <1>2, <1>3, <1>4, <1>5, <1>6 DEF LocationNext

\* Whoever loads, drops or fails to publish the key starts the holder's term
\* anew; in an undisturbed term only the holder writes the record, and Tick
\* waits for it.
LEMMA HolderStep ==
  LocationTypeOK /\ HolderInv /\ [LocationNext]_locationVars => HolderInv'
<1> SUFFICES ASSUME LocationTypeOK, HolderInv, [LocationNext]_locationVars PROVE HolderInv'
  OBVIOUS
<1>a. /\ now \in Nat /\ soleSince \in Nat /\ RecordTTL \in Nat /\ RecordTTL > 1
      /\ held \in [Replicas -> BOOLEAN] /\ publishing \subseteq Replicas
      /\ \A r \in Replicas : lastRun[r] \in Nat
      /\ record.expires \in Nat
  <2>1. MaxTime \in Nat /\ RecordTTL \in Nat /\ RecordTTL > 1
    BY LocationAssumption
  <2> QED
    BY <2>1, ClockNat DEF LocationTypeOK
\* A term that begins now.
<1>0. ASSUME soleSince' = now, now' = now PROVE HolderInv'
  BY <1>0, <1>a DEF HolderInv
\* Nothing that the invariant reads, but for publications that are no holder's.
<1>b. ASSUME UNCHANGED <<soleSince, now, held, lastRun>>, publishing' \subseteq publishing,
             \A r \in Replicas : held[r] => (r \in publishing => r \in publishing'),
             \A r \in Replicas : held[r] /\ record.addr = r => record' = record
      PROVE  HolderInv'
  BY <1>a, <1>b DEF HolderInv
<1>1. ASSUME NEW r \in Replicas, loadUserVaultKeys(r) \/ forwardSession(r) PROVE HolderInv'
  BY <1>1, <1>b DEF loadUserVaultKeys, forwardSession
<1>2. ASSUME NEW r \in Replicas, publishLoadedKeys(r) \/ Restart(r) \/ evictIfKeyDeleted(r) PROVE HolderInv'
  BY <1>2, <1>0 DEF publishLoadedKeys, Restart, evictIfKeyDeleted, Hold
<1>3. ASSUME NEW r \in Replicas, Run(r) PROVE HolderInv'
  <2>1. UNCHANGED <<soleSince, now, held, record>> /\ \A s \in Replicas : s # r => lastRun'[s] = lastRun[s]
    BY <1>3 DEF Run, LocationTypeOK
  <2>2. publishing \subseteq publishing' /\ (held[r] => r \in publishing')
        /\ \A s \in publishing' : s \in publishing \/ (s = r /\ held[r])
    BY <1>3 DEF Run
  <2> QED
    BY <2>1, <2>2, <1>a DEF HolderInv
<1>4. ASSUME NEW r \in Replicas, Publish(r) PROVE HolderInv'
  <2>1. CASE soleSince' = now
    BY <1>4, <1>0, <2>1 DEF Publish
  <2>2. CASE record' = [addr |-> r, expires |-> now + RecordTTL] /\ UNCHANGED soleSince
    <3>1. UNCHANGED <<soleSince, now, held, lastRun>> /\ r \in publishing /\ publishing' = publishing \ {r}
      BY <1>4, <2>2 DEF Publish
    <3>2. CASE held[r]
      BY <2>2, <3>1, <3>2, <1>a DEF HolderInv
    <3>3. CASE ~held[r]
      BY <1>0, <3>1, <3>3 DEF HolderInv
    <3> QED
      BY <3>2, <3>3
  <2> QED
    BY <1>4, <2>1, <2>2 DEF Publish
<1>c. ASSUME NEW r \in Replicas, evictLocal(r), UNCHANGED <<now, lastRun, publishing>> PROVE HolderInv'
  <2>1. CASE held[r]
    BY <1>c, <1>0, <2>1, Evicted
  <2>2. CASE ~held[r]
    BY <1>c, <1>b, <2>2, Evicted
  <2> QED
    BY <2>1, <2>2
<1>5. ASSUME NEW r \in Replicas, Logout(r) \/ deleteAccount(r) PROVE HolderInv'
  BY <1>5, <1>c DEF Logout, deleteAccount
<1>6. ASSUME NEW r \in Replicas, NEW m \in net, receive(r, m) \/ receiveEvict(r, m) PROVE HolderInv'
  <2>1. CASE UNCHANGED <<held, record, soleSince>>
    BY <1>6, <1>b, <2>1 DEF receive, receiveEvict, Meet
  <2>2. CASE evictLocal(r)
    BY <1>6, <1>c, <2>2 DEF receive, receiveEvict, Meet
  <2> QED
    BY <1>6, <2>1, <2>2 DEF receive, receiveEvict
<1>7. CASE Tick
  <2>1. /\ publishing = {} /\ publishing' = {} /\ \A r \in Replicas : lastRun[r] = now
        /\ now' = now + 1 /\ UNCHANGED <<held, lastRun, record, soleSince>>
    BY <1>7 DEF Tick
  <2> QED
    BY <2>1, <1>a DEF HolderInv
<1>8. CASE UNCHANGED locationVars
  BY <1>8, <1>b DEF locationVars
<1> QED
  BY <1>1, <1>2, <1>3, <1>4, <1>5, <1>6, <1>7, <1>8 DEF LocationNext

\* The invariant gives the two promises of key location.
LEMMA LocationGives == LocationInv => ServedOnce /\ SoleHolderIsFound
<1> SUFFICES ASSUME LocationInv PROVE ServedOnce /\ SoleHolderIsFound
  OBVIOUS
<1>1. ServedOnce
  BY DEF LocationInv, ServedInv, ServedOnce
<1>2. now \in Nat /\ soleSince \in Nat /\ RecordTTL \in Nat /\ RecordTTL > 1 /\ record.expires \in Nat
  <2>1. MaxTime \in Nat /\ RecordTTL \in Nat /\ RecordTTL > 1
    BY LocationAssumption
  <2> QED
    BY <2>1, ClockNat DEF LocationInv, LocationTypeOK
<1>3. SoleHolderIsFound
  BY <1>2 DEF LocationInv, HolderInv, SoleHolderIsFound
<1> QED
  BY <1>1, <1>3

-----------------------------------------------------------------------------
(* The composition: a step belongs to one part, or changes nothing.        *)

\* A step of the composition is, for each part, a step of that part or a stutter.
LEMMA PartSteps ==
  [Next]_serviceVars => /\ [RuntimeNext]_runtimeVars /\ [BaseNext]_baseVars
                        /\ [LocationNext]_locationVars /\ [ProxyNext]_proxyVars
<1> SUFFICES ASSUME [Next]_serviceVars
             PROVE  /\ [RuntimeNext]_runtimeVars /\ [BaseNext]_baseVars
                    /\ [LocationNext]_locationVars /\ [ProxyNext]_proxyVars
  OBVIOUS
<1>1. CASE Next
  BY <1>1 DEF Next
<1>2. CASE UNCHANGED serviceVars
  BY <1>2 DEF serviceVars
<1> QED
  BY <1>1, <1>2

\* Once no call of RegisterKey or UnregisterKey is under way, the key has a
\* subscription exactly when it is loaded.
THEOREM SubscriptionMatchesKeysAlways == Spec => []SubscriptionMatchesKeys
<1>1. Init => RefreshInv
  BY RefreshInit DEF Init
<1>2. RefreshInv /\ [Next]_serviceVars => RefreshInv'
  BY RefreshStep, PartSteps
<1> QED
  BY <1>1, <1>2, RefreshGives, PTL DEF Spec

\* PublishToRelay never gives up because a kept connection was dead.
THEOREM AckSurvivesAlways == Spec => []AckSurvivesDeadConnection
<1>1. Init => AckInv
  BY AckInit DEF Init
<1>2. AckInv /\ [Next]_serviceVars => AckInv'
  BY AckStep, PartSteps
<1>3. AckInv => AckSurvivesDeadConnection
  BY DEF AckInv
<1> QED
  BY <1>1, <1>2, <1>3, PTL DEF Spec

\* failPendingRequests leaves no request waiting on a lost connection.
THEOREM LostConnectionToldAlways == Spec => []LostConnectionTold
<1>1. Init => ToldInv
  BY ToldInit DEF Init
<1>2. ToldInv /\ [Next]_serviceVars => ToldInv'
  BY ToldStep, PartSteps
<1>3. ToldInv => LostConnectionTold
  BY DEF ToldInv
<1> QED
  BY <1>1, <1>2, <1>3, PTL DEF Spec

\* The inductive invariant of the locations and the forwards.
THEOREM LocationInvariant == Spec => []LocationInv
<1>1. Init => LocationInv
  BY LocationInitial DEF Init
<1>2. LocationInv /\ [Next]_serviceVars => LocationInv'
  BY LocationTypes, ServedStep, HolderStep, PartSteps DEF LocationInv
<1> QED
  BY <1>1, <1>2, PTL DEF Spec

\* The nonce table makes a replica act on a sealed message once.
THEOREM ServedOnceAlways == Spec => []ServedOnce
BY LocationInvariant, LocationGives, PTL

\* A replica that alone has held the key for an interval is found by Lookup.
THEOREM SoleHolderIsFoundAlways == Spec => []SoleHolderIsFound
BY LocationInvariant, LocationGives, PTL
=============================================================================
