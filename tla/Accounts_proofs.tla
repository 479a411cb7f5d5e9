-------------------------- MODULE Accounts_proofs --------------------------
(***************************************************************************)
(* Theorems about Accounts, for any number of apps, replicas, requests,    *)
(* nonces, wallets and browsers.                                           *)
(***************************************************************************)
EXTENDS Accounts, TLAPS

-----------------------------------------------------------------------------
(* The apps: AppConnect.                                                   *)

\* The record of a request, edited as the actions edit it, stays one.
LEMMA PostEdits ==
  ASSUME NEW q \in Post, NEW at \in Places
  PROVE  /\ [q EXCEPT !.at = at] \in Post
         /\ [q EXCEPT !.at = at, !.late = TRUE] \in Post
         /\ Unwaited(q) \in Post
         /\ \A w, s \in 0..MaxUnlocks : [q EXCEPT !.at = at, !.waits = w, !.saw = s] \in Post
         /\ \A r \in Servers : [q EXCEPT !.at = at, !.on = r] \in Post
         /\ \A r \in Servers, b \in BOOLEAN :
              [q EXCEPT !.at = at, !.kind = "session", !.on = r, !.ask = b] \in Post
<1>1. 0 \in 0..MaxUnlocks
  BY ConnectAssumption
<1>2. Unwaited(q) \in Post
  BY <1>1 DEF Post, Unwaited
<1>3. [q EXCEPT !.at = at] \in Post /\ [q EXCEPT !.at = at, !.late = TRUE] \in Post
  BY DEF Post
<1>4. \A w, s \in 0..MaxUnlocks : [q EXCEPT !.at = at, !.waits = w, !.saw = s] \in Post
  BY DEF Post
<1>5. \A r \in Servers : [q EXCEPT !.at = at, !.on = r] \in Post
  BY DEF Post
<1>6. \A r \in Servers, b \in BOOLEAN : [q EXCEPT !.at = at, !.kind = "session", !.on = r, !.ask = b] \in Post
  BY DEF Post
<1> QED BY <1>2, <1>3, <1>4, <1>5, <1>6

\* The fields that an edit leaves alone.
LEMMA Untouched ==
  ASSUME NEW q \in Post, NEW at \in Places
  PROVE  /\ LET e == [q EXCEPT !.at = at] IN
              e.at = at /\ e.on = q.on /\ e.home = q.home /\ e.kind = q.kind /\ e.app = q.app
              /\ e.waits = q.waits /\ e.saw = q.saw /\ e.late = q.late /\ e.consent = q.consent /\ e.ask = q.ask
         /\ LET e == [q EXCEPT !.at = at, !.late = TRUE] IN
              e.at = at /\ e.on = q.on /\ e.home = q.home /\ e.kind = q.kind /\ e.app = q.app
              /\ e.waits = q.waits /\ e.saw = q.saw /\ e.late
         /\ LET e == Unwaited(q) IN
              e.at = q.at /\ e.on = q.on /\ e.home = q.home /\ e.kind = q.kind /\ e.app = q.app
              /\ e.waits = 0 /\ e.saw = 0 /\ ~e.late /\ e.consent = q.consent /\ e.ask = q.ask
BY DEF Post, Unwaited

\* So is the record of a revocation.
LEMMA RevocationEdits ==
  ASSUME NEW v \in Revocation
  PROVE  /\ [v EXCEPT !.at = "list"] \in Revocation
         /\ [v EXCEPT !.at = "list", !.quiet = {}] \in Revocation
         /\ [v EXCEPT !.at = "delete", !.quiet = {}] \in Revocation
         /\ \A a : [v EXCEPT !.quiet = @ \ {a}] \in Revocation
         /\ \A t \in SUBSET Apps : [v EXCEPT !.at = "delete", !.todo = t] \in Revocation
         /\ \A a : [v EXCEPT !.todo = @ \ {a}] \in Revocation
         /\ \A a : [v EXCEPT !.todo = @ \ {a}, !.quiet = @ \ {a}] \in Revocation
BY DEF Revocation

\* A well-formed record in the place of a request keeps the table well-formed.
LEMMA SetTypes ==
  ASSUME ConnectTypeOK, NEW p \in Posts, NEW q \in Post, Proper(q), Set(p, q)
  PROVE  post' \in [Posts -> Post] /\ \A x \in Posts : Proper(post'[x])
BY DEF ConnectTypeOK, Set

\* Where a request that finds the key goes on.
LEMMA OrElseTypes ==
  ASSUME ConnectTypeOK, NEW p \in Posts, post[p].at # "none", NEW q \in Post, Proper(q), OrElse(p, q)
  PROVE  post' \in [Posts -> Post] /\ \A x \in Posts : Proper(post'[x])
<1>1. post[p] \in Post /\ Proper(post[p])
  BY DEF ConnectTypeOK
<1> DEFINE at == IF post[p].kind = "state" THEN "live" ELSE "record"
           l == [Unwaited(post[p]) EXCEPT !.at = at]
<1>2. l \in Post
  BY <1>1, PostEdits DEF Places
<1>3. Unwaited(post[p]) \in Post
  BY <1>1, PostEdits DEF Places
<1>4. l.on = post[p].on /\ l.home = post[p].home /\ l.kind = post[p].kind /\ l.app = post[p].app /\ l.at = at
  BY <1>1, <1>3, Untouched DEF Places
<1> HIDE DEF l
<1>5. Proper(l)
  BY <1>1, <1>4 DEF Proper
<1>6. Set(p, l) \/ Set(p, q)
  BY DEF OrElse, l
<1> QED BY <1>2, <1>5, <1>6, SetTypes

\* Every step of AppConnect keeps the types.
LEMMA ConnectTypeStep ==
  ASSUME ConnectTypeOK, ConnectNext
  PROVE  ConnectTypeOK'
<1> USE ConnectAssumption DEF storeVars, unlockVars
<1>0. NoPost \in Post /\ NoRevoke \in Revocation /\ Unlocks \subseteq 0..MaxUnlocks /\ 0 \in 0..MaxUnlocks
  BY DEF NoPost, Post, Places, NoRevoke, Revocation, Unlocks
<1>1. ASSUME NEW r \in Servers, beginUnlock(r) PROVE ConnectTypeOK'
  BY <1>1, <1>0 DEF beginUnlock, Posted, Unlocks, ConnectTypeOK
<1>2. ASSUME NEW r \in Servers, handleUserLogout(r) PROVE ConnectTypeOK'
  BY <1>2 DEF handleUserLogout, Posted, ConnectTypeOK
<1>3. ASSUME NEW r \in Servers, NEW u \in Unlocks, endUnlock(r, u) PROVE ConnectTypeOK'
  <2>1. latest' \in [Servers -> 0..MaxUnlocks] /\ inflight' \in [Servers -> 0..MaxUnlocks]
    BY <1>3, <1>0 DEF endUnlock, done, ConnectTypeOK
  <2>2. running' \subseteq Unlocks \X Servers /\ holds' \subseteq Servers
    BY <1>3 DEF endUnlock, ConnectTypeOK
  <2> QED BY <1>3, <2>1, <2>2 DEF endUnlock, ConnectTypeOK
<1>4. ASSUME NEW r \in Servers, NEW p \in Posts, handleSessionState(p, r) PROVE ConnectTypeOK'
  <2> DEFINE q == [NoPost EXCEPT !.at = "gate", !.kind = "state", !.home = r, !.on = r]
  <2>1. q \in Post /\ Proper(q)
    BY <1>0 DEF NoPost, Post, Places, Proper
  <2> HIDE DEF q
  <2>2. Set(p, q)
    BY <1>4 DEF handleSessionState, Arrives, q
  <2> QED BY <1>4, <2>1, <2>2, SetTypes DEF handleSessionState, Arrives, Posted, ConnectTypeOK
<1>5. ASSUME NEW r \in Servers, NEW p \in Posts, NEW a \in Apps, handleNostrConnect(p, r, a) PROVE ConnectTypeOK'
  <2> DEFINE q == [NoPost EXCEPT !.at = "load", !.kind = "form", !.app = a, !.home = r, !.on = r, !.consent = TRUE]
  <2>1. q \in Post /\ Proper(q)
    BY <1>0 DEF NoPost, Post, Places, Proper
  <2> HIDE DEF q
  <2>2. Set(p, q) /\ revoke' \in Revocation
    BY <1>5, RevocationEdits DEF handleNostrConnect, Arrives, Disturbs, q, ConnectTypeOK
  <2> QED BY <1>5, <2>1, <2>2, SetTypes DEF handleNostrConnect, Arrives, Posted, LetIn, ConnectTypeOK
<1>6. ASSUME NEW r \in Servers, NEW p \in Posts, NEW a \in Apps, NEW consent \in BOOLEAN,
             handleNostrConnectSession(p, r, a, consent)
      PROVE  ConnectTypeOK'
  <2> DEFINE q == [NoPost EXCEPT !.at = "load", !.app = a, !.home = r, !.on = r,
                                 !.consent = consent, !.ask = askFirst]
  <2>0. NoPost \in Post /\ a \in Apps /\ r \in Servers /\ consent \in BOOLEAN /\ askFirst \in BOOLEAN
    BY <1>0 DEF NoPost, Post, Places, ConnectTypeOK
  <2>1. q \in Post /\ Proper(q)
    BY <2>0 DEF NoPost, Post, Places, Proper
  <2> HIDE DEF q
  <2>2. Set(p, q) /\ revoke' \in Revocation
    BY <1>6, RevocationEdits DEF handleNostrConnectSession, Arrives, Disturbs, q, ConnectTypeOK
  <2> QED BY <1>6, <2>1, <2>2, SetTypes DEF handleNostrConnectSession, Arrives, Posted, LetIn, ConnectTypeOK
<1>7. ASSUME NEW b \in BOOLEAN, handleUpdateKey(b) PROVE ConnectTypeOK'
  BY <1>7 DEF handleUpdateKey, Posted, ConnectTypeOK
<1>8. ASSUME NEW p \in Posts, PostStep(p) PROVE ConnectTypeOK'
  <2> DEFINE Kept == post' \in [Posts -> Post] /\ \A x \in Posts : Proper(post'[x])
  <2>a. post[p] \in Post /\ Proper(post[p])
    BY DEF ConnectTypeOK
  <2>b. ASSUME NEW at \in Places, post[p].at # "none", To(p, at),
               post[p].kind = "state" => at \in {"load", "gate", "wait", "verdict", "live", "locked"}
        PROVE  Kept
    <3> DEFINE q == [post[p] EXCEPT !.at = at]
    <3>1. q \in Post
      BY <2>a, PostEdits
    <3>2. q.at = at /\ q.on = post[p].on /\ q.home = post[p].home /\ q.kind = post[p].kind /\ q.app = post[p].app
      BY <2>a, Untouched
    <3>3. Set(p, q)
      BY <2>b DEF To
    <3> HIDE DEF q
    <3>4. Proper(q)
      BY <2>a, <2>b, <3>2 DEF Proper
    <3> QED BY <3>1, <3>3, <3>4, SetTypes
  <2>1. CASE ensureNostrConnectKeyLoaded(p)
    <3>1. Kept
      BY <2>1, <2>a, <2>b DEF ensureNostrConnectKeyLoaded, Is, Post, Places
    <3> QED BY <2>1, <2>a, <3>1 DEF ensureNostrConnectKeyLoaded, Is, ConnectTypeOK, Proper
  <2>2. CASE HasAppConsent(p)
    <3>1. post[p].at = "consent" /\ post[p].kind # "state"
      BY <2>2, <2>a DEF HasAppConsent, Is, Proper
    <3>2. Kept
      BY <2>2, <2>b, <3>1 DEF HasAppConsent, Places
    <3> QED BY <2>2, <3>2 DEF HasAppConsent, ConnectFault, ConnectTypeOK
  <2>3. CASE gate(p)
    <3> DEFINE q == [post[p] EXCEPT !.at = "wait", !.waits = inflight[post[p].on], !.saw = latest[post[p].on]]
    <3>1. Is(p, "gate") /\ OrElse(p, q)
      BY <2>3 DEF gate
    <3>2. q \in Post
      BY <2>a, <3>1, PostEdits DEF Is, Places, Proper, ConnectTypeOK
    <3>3. q.on = post[p].on /\ q.home = post[p].home /\ q.at = "wait" /\ q.kind = post[p].kind /\ q.app = post[p].app
      BY <2>a DEF Post
    <3> HIDE DEF q
    <3>4. Proper(q)
      BY <2>a, <3>1, <3>3 DEF Proper, Is
    <3>5. Kept
      BY <3>1, <3>2, <3>4, OrElseTypes DEF Is
    <3> QED BY <2>3, <3>5 DEF gate, ConnectTypeOK
  <2>4. CASE wait(p)
    <3> DEFINE q == [post[p] EXCEPT !.at = NextTry(p)]
               t == [post[p] EXCEPT !.at = NextTry(p), !.late = TRUE]
    <3>1. Is(p, "wait") /\ (OrElse(p, q) \/ OrElse(p, t))
      BY <2>4 DEF wait
    <3>a. NextTry(p) \in Places
      BY DEF NextTry, Places
    <3>2. q \in Post /\ t \in Post
      BY <2>a, <3>a, PostEdits
    <3>3. /\ q.at = NextTry(p) /\ q.on = post[p].on /\ q.home = post[p].home /\ q.kind = post[p].kind /\ q.app = post[p].app
          /\ t.at = NextTry(p) /\ t.on = post[p].on /\ t.home = post[p].home /\ t.kind = post[p].kind /\ t.app = post[p].app
      BY <2>a, <3>a, Untouched
    <3> HIDE DEF q, t
    <3>4. Proper(q) /\ Proper(t)
      BY <2>a, <3>1, <3>3 DEF Proper, Is, NextTry
    <3>5. Kept
      BY <3>1, <3>2, <3>4, OrElseTypes DEF Is
    <3> QED BY <2>4, <3>5 DEF wait, ConnectFault, ConnectTypeOK
  <2>5. CASE forwardSession(p)
    <3>1. post[p].at = "forward" /\ post[p].kind # "state" /\ post[p].home \in Servers /\ post[p].app \in Apps
      BY <2>5, <2>a DEF forwardSession, Is, Proper
    <3>2. CASE To(p, "recheck")
      <4>1. Kept
        BY <2>b, <3>1, <3>2 DEF Places
      <4> QED BY <2>5, <4>1 DEF forwardSession, ConnectTypeOK
    <3>3. ASSUME NEW r \in Servers,
                 Set(p, [Unwaited(post[p]) EXCEPT !.at = "load", !.kind = "session", !.on = r, !.ask = askFirst])
          PROVE  ConnectTypeOK'
      <4> DEFINE q == [Unwaited(post[p]) EXCEPT !.at = "load", !.kind = "session", !.on = r, !.ask = askFirst]
      <4>1. Unwaited(post[p]) \in Post
        BY <2>a, PostEdits DEF Places
      <4>2. q \in Post
        BY <4>1, PostEdits DEF Places, ConnectTypeOK
      <4>3. q.on = r /\ q.home = post[p].home /\ q.kind = "session" /\ q.app = post[p].app
        BY <2>a DEF Post, Unwaited
      <4>4. Set(p, q)
        BY <3>3
      <4> HIDE DEF q
      <4>5. Proper(q)
        BY <3>1, <4>3 DEF Proper
      <4>6. Kept
        BY <4>2, <4>4, <4>5, SetTypes
      <4> QED BY <2>5, <4>6 DEF forwardSession, ConnectTypeOK
    <3> QED BY <2>5, <3>2, <3>3 DEF forwardSession
  <2>6. CASE recheck(p) \/ heldElsewhere(p)
    <3>1. PICK at \in {"live", "locked"} : OrElse(p, [post[p] EXCEPT !.at = at])
      BY <2>6 DEF recheck, heldElsewhere
    <3> DEFINE q == [post[p] EXCEPT !.at = at]
    <3>2. q \in Post
      BY <2>a, PostEdits DEF Places
    <3>3. q.on = post[p].on /\ q.home = post[p].home /\ q.at = at /\ q.kind = post[p].kind /\ q.app = post[p].app
      BY <2>a, Untouched DEF Places
    <3>4. OrElse(p, q) /\ post[p].at # "none"
      BY <2>6, <3>1 DEF recheck, heldElsewhere, Is
    <3> HIDE DEF q
    <3>5. Proper(q)
      BY <2>a, <3>3, <3>4 DEF Proper
    <3>6. Kept
      BY <3>2, <3>4, <3>5, OrElseTypes
    <3> QED BY <2>6, <3>6 DEF recheck, heldElsewhere, ConnectTypeOK
  <2>8. CASE RecordAppConsent(p) \/ approveNostrConnect(p)
    <3>1. post[p].at \in {"record", "grant"} /\ post[p].kind # "state" /\ post[p].app \in Apps
      BY <2>8, <2>a DEF RecordAppConsent, approveNostrConnect, Is, Proper
    <3>2. Kept
      BY <2>8, <2>b, <3>1 DEF RecordAppConsent, approveNostrConnect, Places
    <3> QED BY <2>8, <3>1, <3>2 DEF RecordAppConsent, approveNostrConnect, ConnectFault, ConnectTypeOK
  <2>10. CASE SendNostrConnectResponse(p)
    <3>1. post[p].at = "ack" /\ post[p].kind # "state" /\ post[p].on \in Servers
      BY <2>10, <2>a DEF SendNostrConnectResponse, Is, Proper
    <3>2. Kept
      BY <2>10, <2>b, <3>1 DEF SendNostrConnectResponse, Places
    <3> QED BY <2>10, <3>1, <3>2 DEF SendNostrConnectResponse, ConnectTypeOK
  <2>11. CASE answer(p)
    <3> DEFINE q == [post[p] EXCEPT !.at = "recheck", !.on = post[p].home]
    <3>1. post[p].at # "none" /\ (Set(p, NoPost) \/ (Forwarded(p) /\ Set(p, q)))
      BY <2>11 DEF answer, Answers
    <3>2. post[p].home \in Servers
      BY <2>a, <3>1 DEF Proper
    <3>3. q \in Post
      BY <2>a, <3>2, PostEdits DEF Places
    <3>4. q.on = post[p].home /\ q.home = post[p].home /\ q.kind = post[p].kind /\ q.app = post[p].app
      BY <2>a DEF Post
    <3> HIDE DEF q
    <3>5. Forwarded(p) => Proper(q)
      BY <2>a, <3>1, <3>4 DEF Forwarded, Proper
    <3>6. Proper(NoPost)
      BY DEF Proper, NoPost
    <3>7. Kept
      BY <1>0, <3>1, <3>3, <3>5, <3>6, SetTypes
    <3> QED BY <2>11, <3>7 DEF answer, ConnectFault, ConnectTypeOK
  <2> QED BY <1>8, <2>1, <2>2, <2>3, <2>4, <2>5, <2>6, <2>8, <2>10, <2>11 DEF PostStep
<1>9. ASSUME NEW apps \in SUBSET Apps, NEW all \in BOOLEAN, handleNostrConnectRevoke(apps, all) PROVE ConnectTypeOK'
  BY <1>9 DEF handleNostrConnectRevoke, Posted, Revocation, ConnectTypeOK
<1>10. CASE RevokeAppConsent
  <2>1. revoke' \in Revocation
    BY <1>10, RevocationEdits DEF RevokeAppConsent, ConnectTypeOK
  <2> QED BY <1>10, <2>1 DEF RevokeAppConsent, ConnectFault, ConnectTypeOK
<1>11. CASE ListPermissions
  <2>1. revoke.apps \in SUBSET Apps /\ granted \in SUBSET Apps
    BY DEF ConnectTypeOK, Revocation
  <2>2. revoke' \in Revocation
    <3>1. CASE revoke' = [revoke EXCEPT !.at = "delete", !.todo = IF revoke.all THEN granted ELSE revoke.apps]
      <4>1. PICK t \in SUBSET Apps : revoke' = [revoke EXCEPT !.at = "delete", !.todo = t]
        BY <2>1, <3>1
      <4> QED BY <4>1, RevocationEdits DEF ConnectTypeOK
    <3> QED BY <1>11, <3>1, RevocationEdits DEF ListPermissions, ConnectTypeOK
  <2> QED BY <1>11, <2>2 DEF ListPermissions, ConnectFault, ConnectTypeOK
<1>12. ASSUME NEW a \in Apps, DeletePermission(a) PROVE ConnectTypeOK'
  <2>1. revoke' \in Revocation
    <3>1. /\ [revoke EXCEPT !.todo = @ \ {a}] \in Revocation
          /\ [revoke EXCEPT !.todo = @ \ {a}, !.quiet = @ \ {a}] \in Revocation
      BY RevocationEdits DEF ConnectTypeOK
    <3> QED BY <1>12, <3>1 DEF DeletePermission
  <2>2. granted' \subseteq Apps
    BY <1>12 DEF DeletePermission, ConnectTypeOK
  <2>3. connectFaults' \in 0..MaxConnectFaults
    BY <1>12, ConnectAssumption DEF DeletePermission, ConnectFault, ConnectTypeOK
  <2> QED BY <1>12, <2>1, <2>2, <2>3 DEF DeletePermission, ConnectTypeOK
<1>13. CASE RevokeEnds
  <2>1. revoke.quiet \subseteq Apps /\ NoRevoke \in Revocation
    BY DEF ConnectTypeOK, Revocation, NoRevoke
  <2>2. revoke' \in Revocation /\ revoked' \subseteq Apps
    BY <1>13, <2>1 DEF RevokeEnds, ConnectTypeOK
  <2> QED BY <1>13, <2>2 DEF RevokeEnds, ConnectTypeOK
<1>14. ASSUME NEW r \in Servers,
              \/ beginUnlock(r) \/ handleUserLogout(r)
              \/ \E u \in Unlocks : endUnlock(r, u)
              \/ \E p \in Posts : handleSessionState(p, r)
              \/ \E p \in Posts, a \in Apps : handleNostrConnect(p, r, a)
              \/ \E p \in Posts, a \in Apps, consent \in BOOLEAN : handleNostrConnectSession(p, r, a, consent)
       PROVE ConnectTypeOK'
  BY <1>1, <1>2, <1>3, <1>4, <1>5, <1>6, <1>14
<1>15. ASSUME handleNostrConnectRevoke(Apps, TRUE) \/ \E a \in Apps : handleNostrConnectRevoke({a}, FALSE)
       PROVE ConnectTypeOK'
  BY <1>9, <1>15
<1> QED
  BY <1>7, <1>8, <1>10, <1>11, <1>12, <1>13, <1>14, <1>15, Zenon DEF ConnectNext

\* What a step of a request may do to what the others see.
LEMMA PostFacts ==
  ASSUME ConnectTypeOK, NEW p \in Posts, PostStep(p)
  PROVE  /\ \A x \in Posts \ {p} : post'[x] = post[x]
         /\ post'[p] = NoPost \/ post'[p].app = post[p].app
         /\ consents' \in {consents, consents \cup {post[p].app}}
         /\ granted' \in {granted, granted \cup {post[p].app}}
         /\ consents' # consents => post[p].at = "record"
         /\ granted' # granted => post[p].at = "grant"
         /\ UNCHANGED <<askFirst, latest, running, inflight, revoke, revoked>>
<1>1. post[p] \in Post /\ post \in [Posts -> Post]
  BY DEF ConnectTypeOK
<1>2. PICK q : Set(p, q) /\ (q = NoPost \/ q.app = post[p].app)
  <2>1. \A at : [post[p] EXCEPT !.at = at].app = post[p].app
    BY <1>1 DEF Post
  <2>2. \A at : [post[p] EXCEPT !.at = at, !.late = TRUE].app = post[p].app
    BY <1>1 DEF Post
  <2>3. \A at : [Unwaited(post[p]) EXCEPT !.at = at].app = post[p].app
    BY <1>1 DEF Post, Unwaited
  <2>4. \A at, w, s : [post[p] EXCEPT !.at = at, !.waits = w, !.saw = s].app = post[p].app
    BY <1>1 DEF Post
  <2>5. \A at, r : [post[p] EXCEPT !.at = at, !.on = r].app = post[p].app
    BY <1>1 DEF Post
  <2>6. \A at, r, b : [Unwaited(post[p]) EXCEPT !.at = at, !.kind = "session", !.on = r, !.ask = b].app = post[p].app
    BY <1>1 DEF Post, Unwaited
  <2>7. ASSUME NEW at, To(p, at) PROVE \E q : Set(p, q) /\ q.app = post[p].app
    BY <2>1, <2>7 DEF To
  <2>8. ASSUME NEW q, q.app = post[p].app, OrElse(p, q) PROVE \E e : Set(p, e) /\ e.app = post[p].app
    BY <2>3, <2>8 DEF OrElse
  <2>9. CASE ensureNostrConnectKeyLoaded(p) \/ HasAppConsent(p) \/ RecordAppConsent(p)
             \/ approveNostrConnect(p) \/ SendNostrConnectResponse(p)
    BY <2>7, <2>9 DEF ensureNostrConnectKeyLoaded, HasAppConsent, RecordAppConsent, approveNostrConnect,
                      SendNostrConnectResponse
  <2>10. CASE gate(p)
    <3> DEFINE q == [post[p] EXCEPT !.at = "wait", !.waits = inflight[post[p].on], !.saw = latest[post[p].on]]
    <3>1. OrElse(p, q)
      BY <2>10 DEF gate
    <3>2. q.app = post[p].app
      BY <2>4
    <3> HIDE DEF q
    <3> QED BY <2>8, <3>1, <3>2
  <2>11. CASE wait(p)
    <3>1. \/ OrElse(p, [post[p] EXCEPT !.at = NextTry(p)])
          \/ OrElse(p, [post[p] EXCEPT !.at = NextTry(p), !.late = TRUE])
      BY <2>11 DEF wait
    <3> QED BY <2>1, <2>2, <2>8, <3>1
  <2>12. CASE recheck(p) \/ heldElsewhere(p)
    <3>1. PICK at : OrElse(p, [post[p] EXCEPT !.at = at])
      BY <2>12 DEF recheck, heldElsewhere
    <3> QED BY <2>1, <2>8, <3>1
  <2>13. CASE forwardSession(p)
    <3>1. ASSUME NEW r, Set(p, [Unwaited(post[p]) EXCEPT !.at = "load", !.kind = "session", !.on = r, !.ask = askFirst])
          PROVE  \E q : Set(p, q) /\ q.app = post[p].app
      <4> DEFINE q == [Unwaited(post[p]) EXCEPT !.at = "load", !.kind = "session", !.on = r, !.ask = askFirst]
      <4>1. q.app = post[p].app
        BY <2>6
      <4>2. Set(p, q)
        BY <3>1
      <4> HIDE DEF q
      <4> QED BY <4>1, <4>2
    <3> QED BY <2>7, <2>13, <3>1 DEF forwardSession
  <2>14. CASE answer(p)
    <3>1. Set(p, NoPost) \/ Set(p, [post[p] EXCEPT !.at = "recheck", !.on = post[p].home])
      BY <2>14 DEF answer
    <3> QED BY <2>5, <3>1
  <2> QED BY <2>9, <2>10, <2>11, <2>12, <2>13, <2>14 DEF PostStep
<1>3. \A x \in Posts \ {p} : post'[x] = post[x]
  BY <1>1, <1>2 DEF Set
<1>4. post'[p] = NoPost \/ post'[p].app = post[p].app
  BY <1>1, <1>2 DEF Set
<1>5. /\ consents' \in {consents, consents \cup {post[p].app}}
      /\ granted' \in {granted, granted \cup {post[p].app}}
      /\ consents' # consents => post[p].at = "record"
      /\ granted' # granted => post[p].at = "grant"
  BY DEF PostStep, ensureNostrConnectKeyLoaded, HasAppConsent, gate, wait, forwardSession, recheck, heldElsewhere,
         RecordAppConsent, approveNostrConnect, SendNostrConnectResponse, answer, storeVars, Is
<1>6. UNCHANGED <<askFirst, latest, running, inflight, revoke, revoked>>
  BY DEF PostStep, ensureNostrConnectKeyLoaded, HasAppConsent, gate, wait, forwardSession, recheck, heldElsewhere,
         RecordAppConsent, approveNostrConnect, SendNostrConnectResponse, answer, storeVars, unlockVars
<1> QED BY <1>3, <1>4, <1>5, <1>6

\* A request that arrives changes its own record only.
LEMMA ArrivalFacts ==
  ASSUME ConnectTypeOK, NEW p \in Posts, NEW q, Arrives(p, q)
  PROVE  post'[p] = q /\ (\A x \in Posts \ {p} : post'[x] = post[x]) /\ UNCHANGED <<storeVars, unlockVars>>
BY DEF ConnectTypeOK, Arrives, Set

\* An app that is being revoked undisturbed loses its consent, then its grant.
LEMMA RevokeStep ==
  ASSUME ConnectInv, ConnectNext
  PROVE  RevokeInv'
<1> USE DEF storeVars, unlockVars
<1>0. ConnectTypeOK /\ revoke \in Revocation /\ RevokeInv /\ revoke.quiet \subseteq Apps
  BY DEF ConnectInv, ConnectTypeOK, Revocation
<1>a. ASSUME NEW p \in Posts, NEW q, Arrives(p, q), q.app \in Apps, Disturbs(q.app) PROVE RevokeInv'
  <2>1. /\ revoke'.quiet = revoke.quiet \ {q.app} /\ revoke'.at = revoke.at /\ revoke'.apps = revoke.apps
        /\ revoke'.todo = revoke.todo
    BY <1>0, <1>a DEF Disturbs, Revocation
  <2> QED BY <1>0, <1>a, <2>1, ArrivalFacts DEF RevokeInv
<1>1. ASSUME NEW r \in Servers, beginUnlock(r) PROVE RevokeInv'
  BY <1>0, <1>1 DEF beginUnlock, RevokeInv
<1>2. ASSUME NEW r \in Servers, handleUserLogout(r) PROVE RevokeInv'
  BY <1>0, <1>2 DEF handleUserLogout, RevokeInv
<1>3. ASSUME NEW r \in Servers, NEW u \in Unlocks, endUnlock(r, u) PROVE RevokeInv'
  BY <1>0, <1>3 DEF endUnlock, RevokeInv
<1>4. ASSUME NEW r \in Servers, NEW p \in Posts, handleSessionState(p, r) PROVE RevokeInv'
  <2> DEFINE q == [NoPost EXCEPT !.at = "gate", !.kind = "state", !.home = r, !.on = r]
  <2>1. q.app = NoApp
    BY DEF NoPost
  <2>2. Arrives(p, q) /\ revoke' = revoke
    BY <1>4 DEF handleSessionState
  <2> HIDE DEF q
  <2> QED BY <1>0, <2>1, <2>2, ArrivalFacts, ConnectAssumption DEF RevokeInv
<1>5. ASSUME NEW r \in Servers, NEW p \in Posts, NEW a \in Apps, handleNostrConnect(p, r, a) PROVE RevokeInv'
  <2> DEFINE q == [NoPost EXCEPT !.at = "load", !.kind = "form", !.app = a, !.home = r, !.on = r, !.consent = TRUE]
  <2>1. q.app = a
    BY DEF NoPost
  <2>2. Arrives(p, q) /\ Disturbs(a)
    BY <1>5 DEF handleNostrConnect
  <2> HIDE DEF q
  <2> QED BY <1>a, <2>1, <2>2
<1>6. ASSUME NEW r \in Servers, NEW p \in Posts, NEW a \in Apps, NEW consent \in BOOLEAN,
             handleNostrConnectSession(p, r, a, consent)
      PROVE  RevokeInv'
  <2> DEFINE q == [NoPost EXCEPT !.at = "load", !.app = a, !.home = r, !.on = r,
                                 !.consent = consent, !.ask = askFirst]
  <2>1. q.app = a
    BY DEF NoPost
  <2>2. Arrives(p, q) /\ Disturbs(a)
    BY <1>6 DEF handleNostrConnectSession
  <2> HIDE DEF q
  <2> QED BY <1>a, <2>1, <2>2
<1>7. ASSUME NEW b \in BOOLEAN, handleUpdateKey(b) PROVE RevokeInv'
  BY <1>0, <1>7 DEF handleUpdateKey, RevokeInv
<1>8. ASSUME NEW p \in Posts, PostStep(p) PROVE RevokeInv'
  <2>1. NoPost.app = NoApp
    BY DEF NoPost
  <2> QED BY <1>0, <1>8, <2>1, PostFacts, ConnectAssumption DEF RevokeInv
<1>9. ASSUME NEW apps \in SUBSET Apps, NEW all \in BOOLEAN, handleNostrConnectRevoke(apps, all) PROVE RevokeInv'
  BY <1>9 DEF handleNostrConnectRevoke, RevokeInv
<1>10. CASE RevokeAppConsent
  <2>1. CASE /\ consents' = consents \ revoke.apps /\ revoke' = [revoke EXCEPT !.at = "list"]
    <3>1. revoke'.quiet = revoke.quiet /\ revoke'.at = "list" /\ revoke'.apps = revoke.apps
      BY <1>0, <2>1 DEF Revocation
    <3> QED BY <1>0, <1>10, <2>1, <3>1 DEF RevokeAppConsent, RevokeInv
  <2>2. CASE revoke' = [revoke EXCEPT !.at = "list", !.quiet = {}]
    BY <1>0, <2>2 DEF Revocation, RevokeInv
  <2> QED BY <1>10, <2>1, <2>2 DEF RevokeAppConsent
<1>11. CASE ListPermissions
  <2>1. CASE revoke' = [revoke EXCEPT !.at = "delete", !.todo = IF revoke.all THEN granted ELSE revoke.apps]
    <3>1. /\ revoke'.quiet = revoke.quiet /\ revoke'.at = "delete" /\ revoke'.apps = revoke.apps
          /\ revoke'.todo = (IF revoke.all THEN granted ELSE revoke.apps)
      BY <1>0, <2>1 DEF Revocation
    <3> QED BY <1>0, <1>11, <3>1 DEF ListPermissions, RevokeInv
  <2>2. CASE revoke' = [revoke EXCEPT !.at = "delete", !.quiet = {}]
    BY <1>0, <2>2 DEF Revocation, RevokeInv
  <2> QED BY <1>11, <2>1, <2>2 DEF ListPermissions
<1>12. ASSUME NEW a \in Apps, DeletePermission(a) PROVE RevokeInv'
  <2>1. CASE granted' = granted \ {a} /\ revoke' = [revoke EXCEPT !.todo = @ \ {a}]
    <3>1. revoke'.quiet = revoke.quiet /\ revoke'.at = revoke.at /\ revoke'.apps = revoke.apps /\ revoke'.todo = revoke.todo \ {a}
      BY <1>0, <2>1 DEF Revocation
    <3> QED BY <1>0, <1>12, <2>1, <3>1 DEF DeletePermission, RevokeInv
  <2>2. CASE UNCHANGED granted /\ revoke' = [revoke EXCEPT !.todo = @ \ {a}, !.quiet = @ \ {a}]
    <3>1. /\ revoke'.quiet = revoke.quiet \ {a} /\ revoke'.at = revoke.at /\ revoke'.apps = revoke.apps
          /\ revoke'.todo = revoke.todo \ {a}
      BY <1>0, <2>2 DEF Revocation
    <3> QED BY <1>0, <1>12, <2>2, <3>1 DEF DeletePermission, RevokeInv
  <2> QED BY <1>12, <2>1, <2>2 DEF DeletePermission
<1>13. CASE RevokeEnds
  BY <1>13 DEF RevokeEnds, RevokeInv, NoRevoke
<1>14. ASSUME NEW r \in Servers,
              \/ beginUnlock(r) \/ handleUserLogout(r)
              \/ \E u \in Unlocks : endUnlock(r, u)
              \/ \E p \in Posts : handleSessionState(p, r)
              \/ \E p \in Posts, a \in Apps : handleNostrConnect(p, r, a)
              \/ \E p \in Posts, a \in Apps, consent \in BOOLEAN : handleNostrConnectSession(p, r, a, consent)
       PROVE RevokeInv'
  BY <1>1, <1>2, <1>3, <1>4, <1>5, <1>6, <1>14
<1>15. ASSUME handleNostrConnectRevoke(Apps, TRUE) \/ \E a \in Apps : handleNostrConnectRevoke({a}, FALSE)
       PROVE RevokeInv'
  BY <1>9, <1>15
<1> QED
  BY <1>7, <1>8, <1>10, <1>11, <1>12, <1>13, <1>14, <1>15, Zenon DEF ConnectNext

\* A revoked app that asks again gets as far as the question.
LEMMA AskedStep ==
  ASSUME ConnectInv, ConnectNext
  PROVE  AskedInv'
<1> USE DEF storeVars, unlockVars
<1>0. ConnectTypeOK /\ revoke \in Revocation /\ RevokeInv /\ AskedInv /\ revoked \subseteq Apps
  BY DEF ConnectInv, ConnectTypeOK
<1>1. ASSUME NEW r \in Servers, beginUnlock(r) PROVE AskedInv'
  BY <1>0, <1>1 DEF beginUnlock, AskedInv
<1>2. ASSUME NEW r \in Servers, handleUserLogout(r) PROVE AskedInv'
  BY <1>0, <1>2 DEF handleUserLogout, AskedInv
<1>3. ASSUME NEW r \in Servers, NEW u \in Unlocks, endUnlock(r, u) PROVE AskedInv'
  BY <1>0, <1>3 DEF endUnlock, AskedInv
<1>4. ASSUME NEW r \in Servers, NEW p \in Posts, handleSessionState(p, r) PROVE AskedInv'
  <2> DEFINE q == [NoPost EXCEPT !.at = "gate", !.kind = "state", !.home = r, !.on = r]
  <2>1. q.app = NoApp
    BY DEF NoPost
  <2>2. Arrives(p, q) /\ revoked' = revoked
    BY <1>4 DEF handleSessionState
  <2> HIDE DEF q
  <2> QED BY <1>0, <2>1, <2>2, ArrivalFacts, ConnectAssumption DEF AskedInv
<1>5. ASSUME NEW r \in Servers, NEW p \in Posts, NEW a \in Apps, handleNostrConnect(p, r, a) PROVE AskedInv'
  <2> DEFINE q == [NoPost EXCEPT !.at = "load", !.kind = "form", !.app = a, !.home = r, !.on = r, !.consent = TRUE]
  <2>1. q.app = a
    BY DEF NoPost
  <2>2. Arrives(p, q) /\ revoked' = revoked \ {a}
    BY <1>5 DEF handleNostrConnect, LetIn
  <2> HIDE DEF q
  <2> QED BY <1>0, <2>1, <2>2, ArrivalFacts DEF AskedInv
<1>6. ASSUME NEW r \in Servers, NEW p \in Posts, NEW a \in Apps, NEW consent \in BOOLEAN,
             handleNostrConnectSession(p, r, a, consent)
      PROVE  AskedInv'
  <2> DEFINE q == [NoPost EXCEPT !.at = "load", !.app = a, !.home = r, !.on = r,
                                 !.consent = consent, !.ask = askFirst]
  <2>1. q.app = a /\ q.at = "load" /\ q.kind = "session" /\ q.consent = consent /\ q.ask = askFirst /\ q.on = r /\ q.home = r
    BY DEF NoPost
  <2>2. Arrives(p, q) /\ IF consent \/ ~askFirst THEN revoked' = revoked \ {a} ELSE revoked' = revoked
    BY <1>6 DEF handleNostrConnectSession, LetIn
  <2> HIDE DEF q
  <2> QED BY <1>0, <2>1, <2>2, ArrivalFacts DEF AskedInv
<1>7. ASSUME NEW b \in BOOLEAN, handleUpdateKey(b) PROVE AskedInv'
  BY <1>0, <1>7 DEF handleUpdateKey, AskedInv
<1>8. ASSUME NEW p \in Posts, PostStep(p) PROVE AskedInv'
  <2>1. NoPost.app = NoApp
    BY DEF NoPost
  <2>2. CASE post[p].app \notin revoked
    BY <1>0, <1>8, <2>1, <2>2, PostFacts, ConnectAssumption DEF AskedInv
  <2>3. CASE post[p].app \in revoked
    <3>1. /\ askFirst /\ post[p].app \notin consents
          /\ post[p].at \in {"load", "consent", "asked"} /\ post[p].kind = "session"
          /\ ~post[p].consent /\ post[p].ask /\ post[p].on = post[p].home
      BY <1>0, <2>3 DEF AskedInv
    <3>2. consents' = consents /\ granted' = granted
      BY <1>0, <1>8, <3>1, PostFacts
    <3>3. \/ post'[p] = NoPost
          \/ post'[p] = [post[p] EXCEPT !.at = "consent"]
          \/ post'[p] = [post[p] EXCEPT !.at = "asked"]
      BY <1>0, <1>8, <3>1 DEF PostStep, ensureNostrConnectKeyLoaded, HasAppConsent, gate, wait, forwardSession, recheck,
         heldElsewhere, RecordAppConsent, approveNostrConnect, SendNostrConnectResponse, answer, Is, To, Set,
         Forwarded, ConnectTypeOK
    <3>4. \/ post'[p].app = NoApp
          \/ /\ post'[p].app = post[p].app /\ post'[p].at \in {"consent", "asked"} /\ post'[p].kind = "session"
             /\ ~post'[p].consent /\ post'[p].ask /\ post'[p].on = post'[p].home
      <4>1. post[p] \in Post
        BY <1>0 DEF ConnectTypeOK
      <4>2. ASSUME NEW at \in {"consent", "asked"}, post'[p] = [post[p] EXCEPT !.at = at]
            PROVE  /\ post'[p].app = post[p].app /\ post'[p].at = at /\ post'[p].kind = "session"
                   /\ ~post'[p].consent /\ post'[p].ask /\ post'[p].on = post'[p].home
        BY <3>1, <4>1, <4>2, Untouched DEF Places
      <4> QED BY <2>1, <3>3, <4>2
    <3> QED BY <1>0, <1>8, <3>2, <3>4, PostFacts, ConnectAssumption DEF AskedInv
  <2> QED BY <2>2, <2>3
<1>9. ASSUME NEW apps \in SUBSET Apps, NEW all \in BOOLEAN, handleNostrConnectRevoke(apps, all) PROVE AskedInv'
  BY <1>0, <1>9 DEF handleNostrConnectRevoke, AskedInv
<1>10. CASE RevokeAppConsent
  BY <1>0, <1>10 DEF RevokeAppConsent, AskedInv
<1>11. CASE ListPermissions
  BY <1>0, <1>11 DEF ListPermissions, AskedInv
<1>12. ASSUME NEW a \in Apps, DeletePermission(a) PROVE AskedInv'
  BY <1>0, <1>12 DEF DeletePermission, AskedInv
<1>13. CASE RevokeEnds
  <2>1. \A a \in revoke.quiet : a \notin consents /\ a \notin granted /\ \A p \in Posts : post[p].app # a
    BY <1>0, <1>13 DEF RevokeEnds, RevokeInv
  <2> QED BY <1>0, <1>13, <2>1 DEF RevokeEnds, AskedInv
<1>14. ASSUME NEW r \in Servers,
              \/ beginUnlock(r) \/ handleUserLogout(r)
              \/ \E u \in Unlocks : endUnlock(r, u)
              \/ \E p \in Posts : handleSessionState(p, r)
              \/ \E p \in Posts, a \in Apps : handleNostrConnect(p, r, a)
              \/ \E p \in Posts, a \in Apps, consent \in BOOLEAN : handleNostrConnectSession(p, r, a, consent)
       PROVE AskedInv'
  BY <1>1, <1>2, <1>3, <1>4, <1>5, <1>6, <1>14
<1>15. ASSUME handleNostrConnectRevoke(Apps, TRUE) \/ \E a \in Apps : handleNostrConnectRevoke({a}, FALSE)
       PROVE AskedInv'
  BY <1>9, <1>15
<1> QED
  BY <1>7, <1>8, <1>10, <1>11, <1>12, <1>13, <1>14, <1>15, Zenon DEF ConnectNext

\* The tracker's entry is the unlock that began last, and who no longer waits
\* has seen the end of its own.
LEMMA UnlockStep ==
  ASSUME ConnectInv, ConnectNext
  PROVE  UnlockInv'
<1> USE DEF storeVars, unlockVars
<1>0. ConnectTypeOK /\ UnlockInv /\ running \subseteq Unlocks \X Servers /\ (\A r : <<0, r>> \notin running)
  BY ConnectAssumption DEF ConnectInv, ConnectTypeOK, Unlocks
<1> DEFINE Seen(q) ==
      /\ q.waits = q.saw
      /\ q.at = "wait" => \A r \in Servers \ {q.on} : <<q.saw, r>> \notin running
      /\ q.at # "wait" /\ ~q.late => \A r \in Servers : <<q.saw, r>> \notin running
<1>a. \A x \in Posts : Seen(post[x])
  BY <1>0 DEF UnlockInv
<1>b. ASSUME NEW p \in Posts, \A x \in Posts \ {p} : post'[x] = post[x], Seen(post'[p]), UNCHANGED unlockVars
      PROVE  UnlockInv'
  <2>1. \A x \in Posts : Seen(post'[x])
    BY <1>a, <1>b
  <2> QED BY <1>0, <1>b, <2>1 DEF UnlockInv
<1> HIDE DEF Seen
<1>c. ASSUME UNCHANGED <<unlockVars, post>> PROVE UnlockInv'
  BY <1>0, <1>c DEF UnlockInv
<1>1. ASSUME NEW r \in Servers, beginUnlock(r) PROVE UnlockInv'
  <2>1. PICK u \in Unlocks :
          /\ Unused(u) /\ latest' = [latest EXCEPT ![r] = u] /\ inflight' = [inflight EXCEPT ![r] = u]
          /\ running' = running \cup {<<u, r>>} /\ post' = post
    BY <1>1 DEF beginUnlock
  <2>2. inflight' = latest'
    BY <1>0, <2>1 DEF UnlockInv
  <2>3. \A s \in Servers : latest'[s] # 0 => <<latest'[s], s>> \in running'
    BY <1>0, <2>1 DEF UnlockInv, ConnectTypeOK
  <2>4. \A v \in Unlocks, s, t \in Servers : <<v, s>> \in running' /\ <<v, t>> \in running' => s = t
    BY <1>0, <2>1 DEF UnlockInv, Unused
  <2>5. \A p \in Posts : \A s : <<post[p].saw, s>> \in running' => <<post[p].saw, s>> \in running
    BY <2>1 DEF Unused
  <2> QED BY <1>0, <2>1, <2>2, <2>3, <2>4, <2>5 DEF UnlockInv
<1>2. ASSUME NEW r \in Servers, handleUserLogout(r) PROVE UnlockInv'
  BY <1>c, <1>2 DEF handleUserLogout
<1>3. ASSUME NEW r \in Servers, NEW u \in Unlocks, endUnlock(r, u) PROVE UnlockInv'
  <2>1. /\ running' = running \ {<<u, r>>} /\ post' = post
        /\ inflight' = [inflight EXCEPT ![r] = IF @ = u THEN 0 ELSE @]
        /\ latest' = [latest EXCEPT ![r] = IF @ = u THEN 0 ELSE @]
    BY <1>3 DEF endUnlock, done
  <2>2. inflight' = latest'
    BY <1>0, <2>1 DEF UnlockInv
  <2>3. \A s \in Servers : latest'[s] # 0 => <<latest'[s], s>> \in running'
    <3> SUFFICES ASSUME NEW s \in Servers, latest'[s] # 0 PROVE <<latest'[s], s>> \in running'
      OBVIOUS
    <3>1. latest'[s] = latest[s] /\ (s = r => latest[s] # u)
      BY <1>0, <2>1 DEF ConnectTypeOK
    <3> QED BY <1>0, <2>1, <3>1 DEF UnlockInv
  <2> QED BY <1>0, <2>1, <2>2, <2>3 DEF UnlockInv
<1>4. ASSUME NEW r \in Servers, NEW p \in Posts, NEW q, Arrives(p, q), q.waits = 0, q.saw = 0 PROVE UnlockInv'
  <2>1. Seen(q)
    BY <1>0, <1>4 DEF Seen
  <2>2. post'[p] = q
    BY <1>0, <1>4, ArrivalFacts
  <2> QED BY <1>0, <1>4, <1>b, <2>1, <2>2, ArrivalFacts
<1>5. ASSUME NEW r \in Servers, NEW p \in Posts,
             \/ handleSessionState(p, r)
             \/ \E a \in Apps : handleNostrConnect(p, r, a)
             \/ \E a \in Apps, consent \in BOOLEAN : handleNostrConnectSession(p, r, a, consent)
      PROVE  UnlockInv'
  <2>1. CASE handleSessionState(p, r)
    <3> DEFINE q == [NoPost EXCEPT !.at = "gate", !.kind = "state", !.home = r, !.on = r]
    <3>1. Arrives(p, q)
      BY <2>1 DEF handleSessionState
    <3>2. q.waits = 0 /\ q.saw = 0
      BY DEF NoPost
    <3> HIDE DEF q
    <3> QED BY <1>4, <3>1, <3>2
  <2>2. ASSUME NEW a \in Apps, handleNostrConnect(p, r, a) PROVE UnlockInv'
    <3> DEFINE q == [NoPost EXCEPT !.at = "load", !.kind = "form", !.app = a, !.home = r, !.on = r, !.consent = TRUE]
    <3>1. Arrives(p, q)
      BY <2>2 DEF handleNostrConnect
    <3>2. q.waits = 0 /\ q.saw = 0
      BY DEF NoPost
    <3> HIDE DEF q
    <3> QED BY <1>4, <3>1, <3>2
  <2>3. ASSUME NEW a \in Apps, NEW consent \in BOOLEAN, handleNostrConnectSession(p, r, a, consent) PROVE UnlockInv'
    <3> DEFINE q == [NoPost EXCEPT !.at = "load", !.app = a, !.home = r, !.on = r,
                                   !.consent = consent, !.ask = askFirst]
    <3>1. Arrives(p, q)
      BY <2>3 DEF handleNostrConnectSession
    <3>2. q.waits = 0 /\ q.saw = 0
      BY DEF NoPost
    <3> HIDE DEF q
    <3> QED BY <1>4, <3>1, <3>2
  <2> QED BY <1>5, <2>1, <2>2, <2>3
<1>7. ASSUME NEW b \in BOOLEAN, handleUpdateKey(b) PROVE UnlockInv'
  BY <1>c, <1>7 DEF handleUpdateKey
<1>8. ASSUME NEW p \in Posts, PostStep(p) PROVE UnlockInv'
  <2>0. post[p] \in Post /\ post \in [Posts -> Post] /\ Proper(post[p]) /\ Seen(post[p])
    BY <1>0, <1>a DEF ConnectTypeOK
  <2>1. SUFFICES Seen(post'[p])
    BY <1>0, <1>8, <1>b, <2>1, PostFacts
  <2>a. ASSUME NEW q, Set(p, q) PROVE post'[p] = q
    BY <2>0, <2>a DEF Set
  <2>b. ASSUME NEW at \in Places \ {"wait"}, post[p].at # "wait", To(p, at) PROVE Seen(post'[p])
    <3> DEFINE q == [post[p] EXCEPT !.at = at]
    <3>1. q.at = at /\ q.waits = post[p].waits /\ q.saw = post[p].saw /\ q.late = post[p].late
      BY <2>0, Untouched
    <3>2. post'[p] = q
      BY <2>a, <2>b DEF To
    <3> HIDE DEF q
    <3> QED BY <2>0, <2>b, <3>1, <3>2 DEF Seen
  <2>c. ASSUME NEW q, Seen(q), OrElse(p, q) PROVE Seen(post'[p])
    <3> DEFINE at == IF post[p].kind = "state" THEN "live" ELSE "record"
               l == [Unwaited(post[p]) EXCEPT !.at = at]
    <3>1. l.waits = 0 /\ l.saw = 0
      BY <2>0 DEF Post, Unwaited
    <3>2. post'[p] = l \/ post'[p] = q
      BY <2>a, <2>c DEF OrElse
    <3> HIDE DEF l
    <3>3. Seen(l)
      BY <1>0, <3>1 DEF Seen
    <3> QED BY <2>c, <3>2, <3>3
  <2>2. CASE ensureNostrConnectKeyLoaded(p) \/ HasAppConsent(p) \/ RecordAppConsent(p)
             \/ approveNostrConnect(p) \/ SendNostrConnectResponse(p)
    <3>1. PICK at : To(p, at) /\ at \in Places \ {"wait"}
      BY <2>0, <2>2 DEF ensureNostrConnectKeyLoaded, HasAppConsent, RecordAppConsent, approveNostrConnect,
                   SendNostrConnectResponse, Post, Places
    <3>2. post[p].at # "wait"
      BY <2>2 DEF ensureNostrConnectKeyLoaded, HasAppConsent, RecordAppConsent, approveNostrConnect,
                   SendNostrConnectResponse, Is
    <3> QED BY <2>b, <3>1, <3>2
  <2>3. CASE gate(p)
    <3> DEFINE on == post[p].on
               q == [post[p] EXCEPT !.at = "wait", !.waits = inflight[on], !.saw = latest[on]]
    <3>1. OrElse(p, q) /\ on \in Servers
      BY <2>0, <2>3 DEF gate, Is, Proper
    <3>2. q.at = "wait" /\ q.waits = inflight[on] /\ q.saw = latest[on] /\ q.on = on
      BY <2>0 DEF Post
    <3> HIDE DEF q
    <3>3. \A r \in Servers \ {on} : <<latest[on], r>> \notin running
      <4>1. CASE latest[on] = 0
        BY <1>0, <4>1
      <4>2. CASE latest[on] # 0
        <5>1. latest[on] \in Unlocks
          BY <1>0, <3>1, <4>2, ConnectAssumption DEF ConnectTypeOK, Unlocks
        <5>2. <<latest[on], on>> \in running
          BY <1>0, <3>1, <4>2 DEF UnlockInv
        <5> HIDE DEF on
        <5> QED BY <1>0, <3>1, <5>1, <5>2 DEF UnlockInv
      <4> QED BY <4>1, <4>2
    <3>4. Seen(q)
      BY <1>0, <3>2, <3>3 DEF Seen, UnlockInv
    <3> QED BY <2>c, <3>1, <3>4
  <2>4. CASE wait(p)
    <3> DEFINE q == [post[p] EXCEPT !.at = NextTry(p)]
               t == [post[p] EXCEPT !.at = NextTry(p), !.late = TRUE]
    <3>1. \/ <<post[p].waits, post[p].on>> \notin running /\ OrElse(p, q)
          \/ OrElse(p, t)
      BY <2>4 DEF wait
    <3>2. NextTry(p) \in Places \ {"wait"} /\ post[p].at = "wait"
      BY <2>4 DEF NextTry, Places, wait, Is
    <3>3. /\ q.at = NextTry(p) /\ q.waits = post[p].waits /\ q.saw = post[p].saw
          /\ t.at = NextTry(p) /\ t.waits = post[p].waits /\ t.saw = post[p].saw /\ t.late
      BY <2>0, <3>2, Untouched
    <3> HIDE DEF q, t
    <3>4. Seen(t)
      BY <2>0, <3>2, <3>3 DEF Seen
    <3>5. <<post[p].waits, post[p].on>> \notin running => Seen(q)
      BY <2>0, <3>2, <3>3 DEF Seen
    <3> QED BY <2>c, <3>1, <3>4, <3>5
  <2>5. CASE forwardSession(p)
    <3>1. CASE To(p, "recheck")
      BY <2>b, <2>5, <3>1 DEF forwardSession, Is, Places
    <3>2. ASSUME NEW r \in Servers,
                 Set(p, [Unwaited(post[p]) EXCEPT !.at = "load", !.kind = "session", !.on = r, !.ask = askFirst])
          PROVE  Seen(post'[p])
      <4> DEFINE q == [Unwaited(post[p]) EXCEPT !.at = "load", !.kind = "session", !.on = r, !.ask = askFirst]
      <4>1. q.waits = 0 /\ q.saw = 0
        BY <2>0 DEF Post, Unwaited
      <4>2. post'[p] = q
        BY <2>a, <3>2
      <4> HIDE DEF q
      <4> QED BY <1>0, <4>1, <4>2 DEF Seen
    <3> QED BY <2>5, <3>1, <3>2 DEF forwardSession
  <2>6. CASE recheck(p) \/ heldElsewhere(p)
    <3>1. PICK at \in {"live", "locked"} : OrElse(p, [post[p] EXCEPT !.at = at])
      BY <2>6 DEF recheck, heldElsewhere
    <3> DEFINE q == [post[p] EXCEPT !.at = at]
    <3>2. q.at = at /\ q.waits = post[p].waits /\ q.saw = post[p].saw /\ q.late = post[p].late
      BY <2>0, Untouched DEF Places
    <3>3. OrElse(p, q) /\ post[p].at # "wait"
      BY <2>6, <3>1 DEF recheck, heldElsewhere, Is
    <3> HIDE DEF q
    <3>4. Seen(q)
      BY <2>0, <3>2, <3>3 DEF Seen
    <3> QED BY <2>c, <3>3, <3>4
  <2>7. CASE answer(p)
    <3> DEFINE q == [post[p] EXCEPT !.at = "recheck", !.on = post[p].home]
    <3>1. (post'[p] = NoPost \/ post'[p] = q) /\ post[p].at # "wait"
      BY <2>a, <2>7 DEF answer, Answers
    <3>2. q.at = "recheck" /\ q.waits = post[p].waits /\ q.saw = post[p].saw /\ q.late = post[p].late
      BY <2>0 DEF Post
    <3> HIDE DEF q
    <3>3. Seen(q)
      BY <2>0, <3>1, <3>2 DEF Seen
    <3>4. Seen(NoPost)
      BY <1>0 DEF Seen, NoPost
    <3> QED BY <3>1, <3>3, <3>4
  <2> QED BY <1>8, <2>2, <2>3, <2>4, <2>5, <2>6, <2>7 DEF PostStep
<1>9. ASSUME NEW apps, NEW all, handleNostrConnectRevoke(apps, all) PROVE UnlockInv'
  BY <1>c, <1>9 DEF handleNostrConnectRevoke
<1>10. CASE RevokeAppConsent \/ ListPermissions \/ (\E a \in Apps : DeletePermission(a)) \/ RevokeEnds
  BY <1>c, <1>10 DEF RevokeAppConsent, ListPermissions, DeletePermission, RevokeEnds
<1>14. ASSUME NEW r \in Servers,
              \/ beginUnlock(r) \/ handleUserLogout(r)
              \/ \E u \in Unlocks : endUnlock(r, u)
              \/ \E p \in Posts : handleSessionState(p, r)
              \/ \E p \in Posts, a \in Apps : handleNostrConnect(p, r, a)
              \/ \E p \in Posts, a \in Apps, consent \in BOOLEAN : handleNostrConnectSession(p, r, a, consent)
       PROVE UnlockInv'
  BY <1>1, <1>2, <1>3, <1>5, <1>14
<1> QED
  BY <1>7, <1>8, <1>9, <1>10, <1>14, Zenon DEF ConnectNext

\* AppConnect's invariant holds in every state of Accounts.
THEOREM ConnectInvariant == Spec => []ConnectInv
<1>1. Init => ConnectInv
  <2> SUFFICES ASSUME ConnectInit PROVE ConnectInv
    BY DEF Init
  <2>1. NoPost \in Post /\ NoRevoke \in Revocation /\ Proper(NoPost) /\ 0 \in 0..MaxUnlocks
        /\ 0 \in 0..MaxPosts /\ 0 \in 0..MaxConnectFaults
    BY ConnectAssumption DEF NoPost, Post, Places, NoRevoke, Revocation, Proper
  <2>2. ConnectTypeOK
    BY <2>1 DEF ConnectInit, ConnectTypeOK
  <2>3. RevokeInv /\ AskedInv /\ UnlockInv
    BY DEF ConnectInit, RevokeInv, AskedInv, UnlockInv, NoPost, NoRevoke
  <2> QED BY <2>2, <2>3 DEF ConnectInv
<1>2. ConnectInv /\ [Next]_accountVars => ConnectInv'
  <2>1. ASSUME ConnectInv, UNCHANGED connectVars PROVE ConnectInv'
    BY <2>1 DEF ConnectInv, ConnectTypeOK, RevokeInv, AskedInv, UnlockInv, connectVars, unlockVars, storeVars
  <2>2. ASSUME ConnectInv, ConnectNext PROVE ConnectInv'
    BY <2>2, ConnectTypeStep, RevokeStep, AskedStep, UnlockStep DEF ConnectInv
  <2> QED BY <2>1, <2>2 DEF Next, accountVars
<1> QED BY <1>1, <1>2, PTL DEF Spec

\* An app that was revoked has no grant until the user lets it in again.
THEOREM RevokedStaysOutAlways == Spec => []RevokedStaysOut
<1>1. ConnectInv => RevokedStaysOut
  BY DEF ConnectInv, AskedInv, RevokedStaysOut
<1> QED BY <1>1, ConnectInvariant, PTL

\* key_locked is answered only when the latest unlock on the replica has ended,
\* or took too long.
THEOREM LockedAfterUnlockAlways == Spec => []LockedAfterUnlock
<1>1. ConnectInv => LockedAfterUnlock
  <2> SUFFICES ASSUME ConnectInv, NEW p \in Posts, Is(p, "locked"), ~post[p].late
               PROVE  <<post[p].saw, post[p].on>> \notin running
    BY DEF LockedAfterUnlock
  <2> QED BY DEF ConnectInv, UnlockInv, ConnectTypeOK, Proper, Is
<1> QED BY <1>1, ConnectInvariant, PTL

-----------------------------------------------------------------------------
(* The one-time rows: Challenges.                                          *)

\* The records that the actions make are well-formed.
LEMMA ChallengeRecords ==
  ASSUME ChallengeTypeOK
  PROVE  /\ Unopened \in Challenge /\ Unlinked \in LinkingKey /\ Free \in Call
         /\ \A c \in Nonces : chal[c] \in Challenge /\ [chal[c] EXCEPT !.st = "gone"] \in Challenge
         /\ \A w \in Wallets : wallet[w] \in LinkingKey
         /\ \A p \in Callers : call[p] \in Call
         /\ \A c \in Nonces, at \in {"complete", "unseen", "validate"} : [FreeAt(c) EXCEPT !.at = at] \in Call
         /\ Free.at = "free" /\ Unlinked.id = 0 /\ Unopened.kind = "login"
<1> USE ChallengeAssumption
<1>1. Unopened \in Challenge /\ Unlinked \in LinkingKey /\ Free \in Call
  BY DEF Unopened, Challenge, Kinds, Unlinked, LinkingKey, Free, Call
<1>2. \A c \in Nonces : chal[c] \in Challenge /\ [chal[c] EXCEPT !.st = "gone"] \in Challenge
  BY DEF ChallengeTypeOK, Challenge
<1>3. (\A w \in Wallets : wallet[w] \in LinkingKey) /\ (\A p \in Callers : call[p] \in Call)
  BY DEF ChallengeTypeOK
<1>4. \A c \in Nonces, at \in {"complete", "unseen", "validate"} : [FreeAt(c) EXCEPT !.at = at] \in Call
  <2> SUFFICES ASSUME NEW c \in Nonces, NEW at \in {"complete", "unseen", "validate"} PROVE [FreeAt(c) EXCEPT !.at = at] \in Call
    OBVIOUS
  <2>1. FreeAt(c) \in Call
    BY <1>1 DEF FreeAt, Call
  <2>2. at \in OfWallet \cup Completing \cup {"free", "claim", "validate", "cleanup"}
    BY DEF Completing
  <2> QED BY <2>1, <2>2 DEF Call
<1> QED BY <1>1, <1>2, <1>3, <1>4 DEF Free, Unlinked, Unopened

\* One request's record changes, and the others' do not.
LEMMA ProceedFacts ==
  ASSUME ChallengeTypeOK, NEW p \in Callers, NEW r \in Call, Proceed(p, r)
  PROVE  call' \in [Callers -> Call] /\ call'[p] = r /\ \A q \in Callers \ {p} : call'[q] = call[q]
BY DEF ChallengeTypeOK, Proceed

\* A request that ends is free again.
LEMMA EndsFacts ==
  ASSUME ChallengeTypeOK, NEW p \in Callers, Ends(p)
  PROVE  call' \in [Callers -> Call] /\ call'[p] = Free /\ \A q \in Callers \ {p} : call'[q] = call[q]
BY ChallengeRecords DEF ChallengeTypeOK, Ends

\* The count of a row goes up by one, to two at most.
LEMMA LeadsFacts ==
  ASSUME ChallengeTypeOK, NEW c \in Nonces, Leads(c)
  PROVE  /\ ended' \in [Nonces -> 0..2] /\ \A d \in Nonces \ {c} : ended'[d] = ended[d]
         /\ ended'[c] = IF ended[c] = 2 THEN 2 ELSE ended[c] + 1
BY DEF ChallengeTypeOK, Leads

\* A row that is spent or has expired changes in its status only.
LEMMA GoneFacts ==
  ASSUME ChallengeTypeOK, NEW c \in Nonces, chal' = [chal EXCEPT ![c].st = "gone"]
  PROVE  /\ chal' \in [Nonces -> Challenge] /\ \A d \in Nonces \ {c} : chal'[d] = chal[d]
         /\ chal'[c].st = "gone" /\ chal'[c].kind = chal[c].kind /\ chal'[c].by = chal[c].by
         /\ chal'[c].user = chal[c].user /\ chal'[c].key = chal[c].key /\ chal'[c].id = chal[c].id
<1>1. chal'[c] = [chal[c] EXCEPT !.st = "gone"] /\ \A d \in Nonces \ {c} : chal'[d] = chal[d]
  BY DEF ChallengeTypeOK
<1>2. chal' \in [Nonces -> Challenge]
  BY <1>1, ChallengeRecords DEF ChallengeTypeOK
<1>3. chal[c] \in Challenge
  BY DEF ChallengeTypeOK
<1> QED BY <1>1, <1>2, <1>3 DEF Challenge

\* The request ends, and of its row at most the status changes, to gone: what
\* remains to be shown is about the counts and the exposed sessions.
LEMMA EndStep ==
  ASSUME ChallengeInv, NEW p \in Callers, Ends(p), UNCHANGED <<chal, wallet, links, marker, ended>>,
         exposed' \in SUBSET Nonces, exposed \subseteq exposed',
         call[p].at = "cleanup" => call[p].of \in exposed'
  PROVE  ChallengeInv'
<1> USE DEF ChallengeInv
<1>1. call' \in [Callers -> Call] /\ call'[p] = Free /\ \A q \in Callers \ {p} : call'[q] = call[q]
  BY EndsFacts
<1>2. Free.at = "free"
  BY DEF Free
<1>3. ChallengeTypeOK'
  BY <1>1 DEF ChallengeTypeOK
<1>4. RowInv'
  BY DEF RowInv, Live, WebAuthn, Lightning
<1>5. CallInv'
  BY <1>1, <1>2 DEF CallInv, WebAuthn, Lightning
<1>6. SessionInv'
  <2>1. ASSUME NEW a \in Callers, NEW b \in Callers, call'[a].at \in {"validate", "cleanup"}, call'[a].of \notin exposed'
        PROVE  /\ call'[a].at = "validate" => ended'[call'[a].of] = 0
               /\ call'[b].at # "free" /\ call'[b].of = call'[a].of => b = a
    BY <1>1, <1>2, <2>1 DEF SessionInv
  <2>2. ASSUME NEW c \in Nonces \ exposed', WebAuthn(c)', chal'[c].st = "pending", ended'[c] = 1
        PROVE  \E a \in Callers : call'[a].at = "cleanup" /\ call'[a].of = c
    <3>1. PICK a \in Callers : call[a].at = "cleanup" /\ call[a].of = c
      BY <2>2 DEF SessionInv, WebAuthn
    <3>2. a # p
      BY <2>2, <3>1
    <3> QED BY <1>1, <3>1, <3>2
  <2> QED BY <2>1, <2>2 DEF SessionInv
<1>7. WalletInv'
  BY <1>1, <1>2 DEF WalletInv, Named
<1>8. ConfirmInv'
  BY <1>1, <1>2 DEF ConfirmInv
<1> QED BY <1>3, <1>4, <1>5, <1>6, <1>7, <1>8

\* A request proceeds on its row, or begins, and nothing else changes.
LEMMA ProceedStep ==
  ASSUME ChallengeInv, NEW p \in Callers, NEW r \in Call, Proceed(p, r), UNCHANGED <<chal, wallet, links, marker, ended, exposed>>,
         r.at \notin {"free", "validate", "cleanup"}, call[p].at # "cleanup",
         r.of \in Nonces, chal[r.of].st # "none", Lightning(r.of),
         r.at \in OfWallet => r.key \in Wallets, r.at = "link" => chal[r.of].kind = "link",
         r.at \in Completing \cup {"confirm", "reject", "unlink"} => chal[r.of].st \in {"authenticated", "gone"},
         r.at = "claim" /\ chal[r.of].kind = "login" => Named(r),
         LET c == r.of IN
           /\ r.at \in {"confirm", "complete"} /\ chal[c].kind = "login" /\ chal[c].st = "authenticated"
           /\ wallet[chal[c].key].id = chal[c].id
           => IF r.at = "complete" /\ r.id = 0 THEN <<chal[c].by, chal[c].id>> \in marker ELSE r.id = chal[c].id
  PROVE  ChallengeInv'
<1> USE DEF ChallengeInv
<1>1. call' \in [Callers -> Call] /\ call'[p] = r /\ \A q \in Callers \ {p} : call'[q] = call[q]
  BY ProceedFacts
<1>3. ChallengeTypeOK'
  BY <1>1 DEF ChallengeTypeOK
<1>4. RowInv'
  BY DEF RowInv, Live, WebAuthn, Lightning
<1>5. CallInv'
  BY <1>1 DEF CallInv, WebAuthn, Lightning, Completing
<1>6. SessionInv'
  <2>1. ASSUME NEW a \in Callers, NEW b \in Callers, call'[a].at \in {"validate", "cleanup"}, call'[a].of \notin exposed'
        PROVE  /\ call'[a].at = "validate" => ended'[call'[a].of] = 0
               /\ call'[b].at # "free" /\ call'[b].of = call'[a].of => b = a
    <3>1. a # p /\ call'[a] = call[a]
      BY <1>1, <2>1
    <3>2. WebAuthn(call[a].of)
      BY <2>1, <3>1 DEF CallInv
    <3>3. call'[a].of # r.of
      BY <3>1, <3>2 DEF WebAuthn, Lightning
    <3> QED BY <1>1, <2>1, <3>1, <3>3 DEF SessionInv
  <2>2. ASSUME NEW c \in Nonces \ exposed', WebAuthn(c)', chal'[c].st = "pending", ended'[c] = 1
        PROVE  \E a \in Callers : call'[a].at = "cleanup" /\ call'[a].of = c
    BY <1>1, <2>2 DEF SessionInv, WebAuthn
  <2> QED BY <2>1, <2>2 DEF SessionInv
<1>7. WalletInv'
  BY <1>1 DEF WalletInv, Named
<1>8. ConfirmInv'
  BY <1>1 DEF ConfirmInv
<1> QED BY <1>3, <1>4, <1>5, <1>6, <1>7, <1>8

\* A row ends when only its status changes, to gone.
Spends(d) == chal[d].st # "none" /\ chal'[d] = [chal[d] EXCEPT !.st = "gone"]

\* Spending a row ends it, and no other.
LEMMA SpendsFacts ==
  ASSUME ChallengeTypeOK, NEW d \in Nonces, chal'[d] = chal[d] \/ Spends(d)
  PROVE  /\ chal'[d].kind = chal[d].kind /\ chal'[d].by = chal[d].by /\ chal'[d].user = chal[d].user
         /\ chal'[d].key = chal[d].key /\ chal'[d].id = chal[d].id
         /\ (chal'[d] = chal[d] /\ chal'[d].st = chal[d].st) \/ (chal[d].st # "none" /\ chal'[d].st = "gone")
<1>1. chal[d] \in Challenge
  BY DEF ChallengeTypeOK
<1> QED BY <1>1 DEF Spends, Challenge

\* A row that nobody has opened is opened; others may end.
LEMMA OpenStep ==
  ASSUME ChallengeInv, NEW c \in Nonces, NEW r \in Challenge, chal[c].st = "none",
         chal' \in [Nonces -> Challenge], chal'[c] = r, \A d \in Nonces \ {c} : chal'[d] = chal[d] \/ Spends(d),
         UNCHANGED <<wallet, links, marker, call, ended, exposed>>,
         r.st = "pending", r.kind \in {"login", "link"} => r.by \in Browsers
  PROVE  ChallengeInv'
<1> USE DEF ChallengeInv
<1>1. \A d \in Nonces \ {c} :
        /\ chal'[d].kind = chal[d].kind /\ chal'[d].by = chal[d].by /\ chal'[d].user = chal[d].user
        /\ chal'[d].key = chal[d].key /\ chal'[d].id = chal[d].id
        /\ (chal'[d] = chal[d] /\ chal'[d].st = chal[d].st) \/ (chal[d].st # "none" /\ chal'[d].st = "gone")
  BY SpendsFacts
<1>2. chal[c].st = "none" /\ ended[c] = 0
  BY DEF RowInv
<1>3. \A p \in Callers : call[p].at # "free" => call[p].of \in Nonces /\ call[p].of # c
  BY <1>2 DEF CallInv
<1>4. ChallengeTypeOK'
  BY DEF ChallengeTypeOK
<1>5. RowInv'
  <2> SUFFICES ASSUME NEW d \in Nonces PROVE
        /\ chal'[d].st = "none" => chal'[d] = Unopened /\ ended'[d] = 0
        /\ Live(d)' /\ ~WebAuthn(d)' => ended'[d] = 0
        /\ chal'[d].st = "authenticated" => Lightning(d)'
        /\ chal'[d].st # "none" /\ Lightning(d)' => chal'[d].by \in Browsers
        /\ d \notin exposed' => ended'[d] <= 1
    BY DEF RowInv
  <2>1. CASE d = c
    BY <1>2, <2>1 DEF Live, WebAuthn, Lightning
  <2>2. CASE d # c
    BY <1>1, <2>2 DEF RowInv, Live, WebAuthn, Lightning
  <2> QED BY <2>1, <2>2
<1>6. CallInv'
  BY <1>1, <1>3 DEF CallInv, WebAuthn, Lightning
<1>7. SessionInv'
  BY <1>1, <1>2 DEF SessionInv, WebAuthn
<1>8. WalletInv'
  <2>1. \A d \in Nonces : chal'[d].st = "authenticated" /\ chal'[d].kind = "login" => Named(chal'[d])
    BY <1>1 DEF WalletInv
  <2> QED BY <1>1, <1>3, <2>1 DEF WalletInv, Named
<1>9. ConfirmInv'
  BY <1>1, <1>3 DEF ConfirmInv
<1> QED BY <1>4, <1>5, <1>6, <1>7, <1>8, <1>9

\* Rows end, requests end or go from rejecting to unlinking, and a row that is
\* counted ends with it.
LEMMA SpentStep ==
  ASSUME ChallengeInv, chal' \in [Nonces -> Challenge], \A d \in Nonces : chal'[d] = chal[d] \/ Spends(d),
         UNCHANGED <<wallet, links, exposed>>, marker \subseteq marker', marker' \subseteq Browsers \X (1..MaxLinks),
         call' \in [Callers -> Call], ended' \in [Nonces -> 0..2],
         \A q \in Callers :
           \/ call'[q] = call[q]
           \/ call'[q].at = "free" /\ (call[q].at = "cleanup" => chal'[call[q].of].st = "gone")
           \/ /\ call[q].at = "reject" /\ call'[q].at = "unlink" /\ call'[q].of = call[q].of /\ call'[q].key = call[q].key,
         \A d \in Nonces :
           ended'[d] = ended[d] \/ (ended[d] = 0 /\ ended'[d] = 1 /\ ~WebAuthn(d) /\ chal'[d].st = "gone")
  PROVE  ChallengeInv'
<1> USE DEF ChallengeInv
<1>1. \A d \in Nonces :
        /\ chal'[d].kind = chal[d].kind /\ chal'[d].by = chal[d].by /\ chal'[d].user = chal[d].user
        /\ chal'[d].key = chal[d].key /\ chal'[d].id = chal[d].id
        /\ (chal'[d] = chal[d] /\ chal'[d].st = chal[d].st) \/ (chal[d].st # "none" /\ chal'[d].st = "gone")
  BY SpendsFacts
<1>2. ChallengeTypeOK'
  BY DEF ChallengeTypeOK
<1>3. RowInv'
  BY <1>1 DEF RowInv, Live, WebAuthn, Lightning
<1>4. CallInv'
  <2> SUFFICES ASSUME NEW p \in Callers, call'[p].at # "free" PROVE
        /\ call'[p].of \in Nonces /\ chal'[call'[p].of].st # "none"
        /\ IF call'[p].at \in {"validate", "cleanup"} THEN chal'[call'[p].of].kind \in {"passkey", "register"}
           ELSE chal'[call'[p].of].kind \in {"login", "link"}
        /\ call'[p].at \in OfWallet => call'[p].key \in Wallets
        /\ call'[p].at = "link" => chal'[call'[p].of].kind = "link"
        /\ call'[p].at \in Completing \cup {"confirm", "reject", "unlink"}
           => chal'[call'[p].of].st \in {"authenticated", "gone"}
    BY DEF CallInv, WebAuthn, Lightning
  <2>1. call[p].at # "free" /\ call'[p].of = call[p].of /\ call'[p].key = call[p].key
        /\ (call'[p].at = call[p].at \/ (call[p].at = "reject" /\ call'[p].at = "unlink"))
    OBVIOUS
  <2> QED BY <1>1, <2>1 DEF CallInv, WebAuthn, Lightning, OfWallet, Completing
<1>5. SessionInv'
  <2>1. ASSUME NEW a \in Callers, NEW b \in Callers, call'[a].at \in {"validate", "cleanup"}, call'[a].of \notin exposed'
        PROVE  /\ call'[a].at = "validate" => ended'[call'[a].of] = 0
               /\ call'[b].at # "free" /\ call'[b].of = call'[a].of => b = a
    <3>1. call'[a] = call[a] /\ WebAuthn(call[a].of) /\ call[a].of \in Nonces
      BY <2>1 DEF CallInv
    <3>2. call'[b].at # "free" => call[b].at # "free" /\ call'[b].of = call[b].of
      OBVIOUS
    <3> QED BY <2>1, <3>1, <3>2 DEF SessionInv
  <2>2. ASSUME NEW c \in Nonces \ exposed', WebAuthn(c)', chal'[c].st = "pending", ended'[c] = 1
        PROVE  \E a \in Callers : call'[a].at = "cleanup" /\ call'[a].of = c
    <3>1. WebAuthn(c) /\ chal[c].st = "pending" /\ ended[c] = 1
      BY <1>1, <2>2 DEF WebAuthn
    <3>2. PICK a \in Callers : call[a].at = "cleanup" /\ call[a].of = c
      BY <2>2, <3>1 DEF SessionInv
    <3> QED BY <2>2, <3>2
  <2> QED BY <2>1, <2>2 DEF SessionInv
<1>6. WalletInv'
  <2>1. \A d \in Nonces : chal'[d].st = "authenticated" /\ chal'[d].kind = "login" => Named(chal'[d])
    BY <1>1 DEF WalletInv
  <2>2. \A p \in Callers : call'[p].at = "claim" /\ chal'[call'[p].of].kind = "login" => Named(call'[p])
    <3> SUFFICES ASSUME NEW p \in Callers, call'[p].at = "claim", chal'[call'[p].of].kind = "login" PROVE Named(call'[p])
      OBVIOUS
    <3>1. call'[p] = call[p] /\ call[p].of \in Nonces
      BY DEF CallInv
    <3> QED BY <1>1, <3>1 DEF WalletInv
  <2> QED BY <2>1, <2>2 DEF WalletInv, Named
<1>7. ConfirmInv'
  <2> SUFFICES ASSUME NEW p \in Callers, call'[p].at \in {"confirm", "complete"}, chal'[call'[p].of].kind = "login",
                      chal'[call'[p].of].st = "authenticated",
                      wallet'[chal'[call'[p].of].key].id = chal'[call'[p].of].id
               PROVE  IF call'[p].at = "complete" /\ call'[p].id = 0
                      THEN <<chal'[call'[p].of].by, chal'[call'[p].of].id>> \in marker'
                      ELSE call'[p].id = chal'[call'[p].of].id
    BY DEF ConfirmInv
  <2>1. call'[p] = call[p] /\ call[p].of \in Nonces
    BY DEF CallInv
  <2>2. chal'[call[p].of] = chal[call[p].of]
    BY <1>1, <2>1
  <2> QED BY <2>1, <2>2 DEF ConfirmInv
<1> QED BY <1>2, <1>3, <1>4, <1>5, <1>6, <1>7

\* The linking key of a wallet comes with a new id, or goes, by a request that
\* links it, unlinks it, or by the account's owner.
LEMMA WalletStep ==
  ASSUME ChallengeInv, NEW w \in Wallets, NEW k \in LinkingKey, wallet' = [wallet EXCEPT ![w] = k],
         links' \in 0..MaxLinks, links <= links', k.id <= links', k.id = 0 => k = Unlinked, k.id # 0 => k.id > links,
         UNCHANGED <<chal, marker, ended, exposed>>, call' \in [Callers -> Call],
         \A q \in Callers :
           \/ call'[q] = call[q]
           \/ call'[q].at = "free" /\ call[q].at # "cleanup"
           \/ call[q].at = "link" /\ call'[q].at = "claim" /\ call'[q].of = call[q].of
  PROVE  ChallengeInv'
<1> USE DEF ChallengeInv
<1>1. /\ wallet' \in [Wallets -> LinkingKey] /\ wallet'[w] = k /\ \A v \in Wallets \ {w} : wallet'[v] = wallet[v]
      /\ links \in Nat /\ links' \in Nat
      /\ \A v \in Wallets : wallet[v].id \in Nat
      /\ \A c \in Nonces : chal[c].id \in Nat
      /\ \A p \in Callers : call[p].id \in Nat
  BY ChallengeAssumption DEF ChallengeTypeOK, LinkingKey, Challenge, Call
<1>2. ChallengeTypeOK'
  BY <1>1 DEF ChallengeTypeOK
<1>3. RowInv'
  BY DEF RowInv, Live, WebAuthn, Lightning
<1>a. \A q \in Callers : call'[q].at # "free" =>
        /\ call[q].at # "free" /\ call'[q].of = call[q].of /\ call[q].of \in Nonces
        /\ \/ call'[q] = call[q]
           \/ call'[q].at = "claim" /\ chal[call[q].of].kind = "link"
  BY DEF CallInv
<1>b. CallInv'
  <2> SUFFICES ASSUME NEW p \in Callers, call'[p].at # "free" PROVE
        /\ call'[p].of \in Nonces /\ chal[call'[p].of].st # "none"
        /\ IF call'[p].at \in {"validate", "cleanup"} THEN WebAuthn(call'[p].of) ELSE Lightning(call'[p].of)
        /\ call'[p].at \in OfWallet => call'[p].key \in Wallets
        /\ call'[p].at = "link" => chal[call'[p].of].kind = "link"
        /\ call'[p].at \in Completing \cup {"confirm", "reject", "unlink"}
           => chal[call'[p].of].st \in {"authenticated", "gone"}
    BY DEF CallInv, WebAuthn, Lightning
  <2> QED BY <1>a DEF CallInv, WebAuthn, Lightning, OfWallet, Completing
<1>c. SessionInv'
  <2>1. ASSUME NEW a \in Callers, NEW b \in Callers, call'[a].at \in {"validate", "cleanup"}, call'[a].of \notin exposed'
        PROVE  /\ call'[a].at = "validate" => ended'[call'[a].of] = 0
               /\ call'[b].at # "free" /\ call'[b].of = call'[a].of => b = a
    BY <1>a, <2>1 DEF SessionInv
  <2>2. ASSUME NEW c \in Nonces \ exposed', WebAuthn(c)', chal'[c].st = "pending", ended'[c] = 1
        PROVE  \E a \in Callers : call'[a].at = "cleanup" /\ call'[a].of = c
    <3>1. PICK a \in Callers : call[a].at = "cleanup" /\ call[a].of = c
      BY <2>2 DEF SessionInv, WebAuthn
    <3> QED BY <3>1
  <2> QED BY <2>1, <2>2 DEF SessionInv
<1>4. ASSUME NEW key \in Wallets, NEW id \in 1..links
      PROVE  wallet'[key].id = id => wallet'[key] = wallet[key]
  BY <1>1, <1>4
<1>5. WalletInv'
  <2>1. \A v \in Wallets : wallet'[v].id <= links' /\ (wallet'[v].id = 0 => wallet'[v] = Unlinked)
    BY <1>1 DEF WalletInv
  <2>2. ASSUME NEW n, Named(n)
        PROVE  n.key \in Wallets /\ n.id \in 1..links' /\ (wallet'[n.key].id = n.id => wallet'[n.key].owner = n.user)
    BY <1>1, <1>4, <2>2 DEF Named
  <2>3. \A c \in Nonces : chal[c].st = "authenticated" /\ chal[c].kind = "login" => Named(chal[c])
    BY DEF WalletInv
  <2>4. \A p \in Callers : call'[p].at = "claim" /\ chal[call'[p].of].kind = "login" => Named(call'[p])
    BY <1>a DEF WalletInv
  <2> QED BY <2>1, <2>2, <2>3, <2>4 DEF WalletInv, Named
<1>6. ConfirmInv'
  <2> SUFFICES ASSUME NEW p \in Callers, call'[p].at \in {"confirm", "complete"}, chal[call'[p].of].kind = "login",
                      chal[call'[p].of].st = "authenticated", wallet'[chal[call'[p].of].key].id = chal[call'[p].of].id
               PROVE  IF call'[p].at = "complete" /\ call'[p].id = 0
                      THEN <<chal[call'[p].of].by, chal[call'[p].of].id>> \in marker
                      ELSE call'[p].id = chal[call'[p].of].id
    BY DEF ConfirmInv
  <2>1. call'[p] = call[p] /\ call[p].of \in Nonces
    BY <1>a
  <2>2. Named(chal[call[p].of])
    BY <2>1 DEF WalletInv
  <2>3. wallet[chal[call[p].of].key].id = chal[call[p].of].id
    BY <1>4, <2>1, <2>2 DEF Named
  <2> QED BY <2>1, <2>3 DEF ConfirmInv
<1> QED BY <1>2, <1>3, <1>b, <1>c, <1>5, <1>6

\* A wallet's claim of a pending row; a spent one stays as it is.
LEMMA ClaimStep ==
  ASSUME ChallengeInv, NEW p \in Callers, claimLightningChallenge(p)
  PROVE  ChallengeInv'
<1> USE DEF ChallengeInv
<1> DEFINE c == call[p].of
<1>0. /\ call[p].at = "claim" /\ c \in Nonces /\ Lightning(c) /\ Ends(p) /\ UNCHANGED <<wallet, links, marker, ended, exposed>>
      /\ call[p] \in Call /\ chal[c] \in Challenge
  BY ChallengeRecords DEF claimLightningChallenge, Runs, CallInv
<1>1. CASE chal[c].st # "pending"
  <2>1. chal' = chal
    BY <1>1 DEF claimLightningChallenge
  <2> QED BY <1>0, <2>1, EndStep DEF ChallengeTypeOK
<1>2. CASE chal[c].st = "pending"
  <2> DEFINE r == [chal[c] EXCEPT !.st = "authenticated", !.user = call[p].user, !.key = call[p].key, !.id = call[p].id]
  <2>1. chal' = [chal EXCEPT ![c] = r]
    BY <1>2 DEF claimLightningChallenge
  <2>2. r \in Challenge
    BY <1>0 DEF Challenge, Call
  <2>3. r.st = "authenticated" /\ r.kind = chal[c].kind /\ r.by = chal[c].by /\ r.user = call[p].user /\ r.key = call[p].key /\ r.id = call[p].id
    BY <1>0 DEF Challenge
  <2> HIDE DEF r
  <2>4. chal' \in [Nonces -> Challenge] /\ chal'[c] = r /\ \A d \in Nonces \ {c} : chal'[d] = chal[d]
    BY <1>0, <2>1, <2>2 DEF ChallengeTypeOK
  <2>5. call' \in [Callers -> Call] /\ call'[p].at = "free" /\ \A q \in Callers \ {p} : call'[q] = call[q]
    BY <1>0, EndsFacts DEF Free
  <2> HIDE DEF c
  <2>6. \A q \in Callers : call'[q].at # "free" => call'[q] = call[q] /\ q # p
    BY <2>5
  <2>7. \A q \in Callers : call[q].at \in Completing \cup {"confirm", "reject", "unlink"} => call[q].of # c
    BY <1>2 DEF CallInv, Completing
  <2>8. ChallengeTypeOK'
    BY <1>0, <2>4, <2>5 DEF ChallengeTypeOK
  <2>9. RowInv'
    <3> SUFFICES ASSUME NEW d \in Nonces PROVE
          /\ chal'[d].st = "none" => chal'[d] = Unopened /\ ended'[d] = 0
          /\ Live(d)' /\ ~WebAuthn(d)' => ended'[d] = 0
          /\ chal'[d].st = "authenticated" => Lightning(d)'
          /\ chal'[d].st # "none" /\ Lightning(d)' => chal'[d].by \in Browsers
          /\ d \notin exposed' => ended'[d] <= 1
      BY DEF RowInv
    <3>1. CASE d = c
      BY <1>0, <1>2, <2>3, <2>4, <3>1 DEF RowInv, Live, WebAuthn, Lightning
    <3>2. CASE d # c
      BY <1>0, <2>4, <3>2 DEF RowInv, Live, WebAuthn, Lightning
    <3> QED BY <3>1, <3>2
  <2>10. CallInv'
    <3> SUFFICES ASSUME NEW q \in Callers, call'[q].at # "free" PROVE
          /\ call'[q].of \in Nonces /\ chal'[call'[q].of].st # "none"
          /\ IF call'[q].at \in {"validate", "cleanup"} THEN chal'[call'[q].of].kind \in {"passkey", "register"}
             ELSE chal'[call'[q].of].kind \in {"login", "link"}
          /\ call'[q].at \in OfWallet => call'[q].key \in Wallets
          /\ call'[q].at = "link" => chal'[call'[q].of].kind = "link"
          /\ call'[q].at \in Completing \cup {"confirm", "reject", "unlink"}
             => chal'[call'[q].of].st \in {"authenticated", "gone"}
      BY DEF CallInv, WebAuthn, Lightning
    <3>1. call'[q] = call[q]
      BY <2>6
    <3> QED BY <2>3, <2>4, <3>1 DEF CallInv, WebAuthn, Lightning
  <2>11. SessionInv'
    <3>1. ASSUME NEW a \in Callers, NEW b \in Callers, call'[a].at \in {"validate", "cleanup"}, call'[a].of \notin exposed'
          PROVE  /\ call'[a].at = "validate" => ended'[call'[a].of] = 0
                 /\ call'[b].at # "free" /\ call'[b].of = call'[a].of => b = a
      BY <1>0, <2>6, <3>1 DEF SessionInv
    <3>2. ASSUME NEW d \in Nonces \ exposed', WebAuthn(d)', chal'[d].st = "pending", ended'[d] = 1
          PROVE  \E a \in Callers : call'[a].at = "cleanup" /\ call'[a].of = d
      <4>1. d # c /\ chal'[d] = chal[d]
        BY <2>3, <2>4, <3>2
      <4>2. PICK a \in Callers : call[a].at = "cleanup" /\ call[a].of = d
        BY <1>0, <3>2, <4>1 DEF SessionInv, WebAuthn
      <4> QED BY <1>0, <2>5, <4>2
    <3> QED BY <3>1, <3>2 DEF SessionInv
  <2>12. WalletInv'
    <3>1. \A d \in Nonces : chal'[d].st = "authenticated" /\ chal'[d].kind = "login" => Named(chal'[d])
      <4>1. chal[c].kind = "login" => Named(r)
        BY <1>0, <2>3 DEF WalletInv, Named, c
      <4> QED BY <2>3, <2>4, <4>1 DEF WalletInv
    <3>2. \A q \in Callers : call'[q].at = "claim" /\ chal'[call'[q].of].kind = "login" => Named(call'[q])
      <4> SUFFICES ASSUME NEW q \in Callers, call'[q].at = "claim", chal'[call'[q].of].kind = "login" PROVE Named(call'[q])
        OBVIOUS
      <4>1. call'[q] = call[q] /\ call[q].of \in Nonces
        BY <2>6 DEF CallInv
      <4>2. chal[call[q].of].kind = "login"
        BY <2>3, <2>4, <4>1
      <4> QED BY <4>1, <4>2 DEF WalletInv
    <3> QED BY <1>0, <3>1, <3>2 DEF WalletInv, Named
  <2>13. ConfirmInv'
    <3> SUFFICES ASSUME NEW q \in Callers, call'[q].at \in {"confirm", "complete"}, chal'[call'[q].of].kind = "login",
                        chal'[call'[q].of].st = "authenticated",
                        wallet'[chal'[call'[q].of].key].id = chal'[call'[q].of].id
                 PROVE  IF call'[q].at = "complete" /\ call'[q].id = 0
                        THEN <<chal'[call'[q].of].by, chal'[call'[q].of].id>> \in marker'
                        ELSE call'[q].id = chal'[call'[q].of].id
      BY DEF ConfirmInv
    <3>1. call'[q] = call[q] /\ call[q].of \in Nonces
      BY <2>6 DEF CallInv
    <3>2. chal'[call[q].of] = chal[call[q].of]
      BY <2>4, <2>7, <3>1 DEF Completing
    <3> QED BY <1>0, <3>1, <3>2 DEF ConfirmInv
  <2> QED BY <2>8, <2>9, <2>10, <2>11, <2>12, <2>13
<1> QED BY <1>1, <1>2

\* A WebAuthn session is read.
LEMMA SessionReadStep ==
  ASSUME ChallengeInv, NEW p \in Callers, NEW c \in Nonces, GetWebAuthnSession(p, c)
  PROVE  ChallengeInv'
<1> USE DEF ChallengeInv
<1> DEFINE r == [FreeAt(c) EXCEPT !.at = "validate"]
<1>0. WebAuthn(c) /\ chal[c].st = "pending" /\ call[p].at = "free" /\ Proceed(p, r)
      /\ UNCHANGED <<chal, wallet, links, marker, ended>>
      /\ exposed' = IF \E q \in Callers : call[q].of = c THEN exposed \cup {c} ELSE exposed
  BY DEF GetWebAuthnSession, Calls, Proceed, WebAuthn, Free
<1>1. r \in Call /\ r.at = "validate" /\ r.of = c
  <2>1. r \in Call
    BY ChallengeRecords
  <2> QED BY <2>1 DEF FreeAt, Free
<1> HIDE DEF r
<1>2. call' \in [Callers -> Call] /\ call'[p] = r /\ \A q \in Callers \ {p} : call'[q] = call[q]
  BY <1>0, <1>1, ProceedFacts
<1>3. ChallengeTypeOK'
  BY <1>0, <1>2 DEF ChallengeTypeOK
<1>4. RowInv'
  BY <1>0 DEF RowInv, Live, WebAuthn, Lightning
<1>5. CallInv'
  BY <1>0, <1>1, <1>2 DEF CallInv, WebAuthn, Lightning, OfWallet, Completing
<1>6. SessionInv'
  <2>1. ASSUME NEW a \in Callers, NEW b \in Callers, call'[a].at \in {"validate", "cleanup"}, call'[a].of \notin exposed'
        PROVE  /\ call'[a].at = "validate" => ended'[call'[a].of] = 0
               /\ call'[b].at # "free" /\ call'[b].of = call'[a].of => b = a
    <3>1. CASE call'[a].of = c
      <4>1. \A q \in Callers : call[q].of # c
        BY <1>0, <2>1, <3>1
      <4>2. ended[c] = 0
        <5>1. ended[c] \in 0..2 /\ c \notin exposed
          BY <1>0, <2>1, <3>1 DEF ChallengeTypeOK
        <5>2. ended[c] # 1
          BY <1>0, <4>1, <5>1 DEF SessionInv
        <5> QED BY <5>1, <5>2 DEF RowInv
      <4>3. a = p
        BY <1>2, <3>1, <4>1
      <4> QED BY <1>0, <1>1, <1>2, <4>1, <4>2, <4>3
    <3>2. CASE call'[a].of # c
      <4>1. a # p /\ call'[a] = call[a]
        BY <1>1, <1>2, <3>2
      <4> QED BY <1>0, <1>1, <1>2, <2>1, <3>2, <4>1 DEF SessionInv
    <3> QED BY <3>1, <3>2
  <2>2. ASSUME NEW d \in Nonces \ exposed', WebAuthn(d)', chal'[d].st = "pending", ended'[d] = 1
        PROVE  \E a \in Callers : call'[a].at = "cleanup" /\ call'[a].of = d
    <3>1. PICK a \in Callers : call[a].at = "cleanup" /\ call[a].of = d
      BY <1>0, <2>2 DEF SessionInv, WebAuthn
    <3> QED BY <1>0, <1>2, <3>1
  <2> QED BY <2>1, <2>2 DEF SessionInv
<1>7. WalletInv'
  BY <1>0, <1>1, <1>2 DEF WalletInv, Named
<1>8. ConfirmInv'
  BY <1>0, <1>1, <1>2 DEF ConfirmInv
<1> QED BY <1>3, <1>4, <1>5, <1>6, <1>7, <1>8

\* Its answer is checked, and counts when it is good.
LEMMA ValidateStep ==
  ASSUME ChallengeInv, NEW p \in Callers, validateCredential(p)
  PROVE  /\ ChallengeInv'
         /\ call[p].of \in Nonces
         /\ call[p].of \notin exposed => ended[call[p].of] = 0
<1> USE DEF ChallengeInv
<1> DEFINE c == call[p].of
           r == [call[p] EXCEPT !.at = "cleanup"]
<1>0. /\ call[p].at = "validate" /\ c \in Nonces /\ WebAuthn(c) /\ chal[c].st # "none" /\ Proceed(p, r)
      /\ UNCHANGED <<chal, wallet, links, marker, exposed>> /\ (Leads(c) \/ ended' = ended)
      /\ call[p] \in Call
  BY ChallengeRecords DEF validateCredential, Runs, CallInv
<1>1. r \in Call /\ r.at = "cleanup" /\ r.of = c
  BY <1>0 DEF Call
<1> HIDE DEF r, c
<1>2. call' \in [Callers -> Call] /\ call'[p] = r /\ \A q \in Callers \ {p} : call'[q] = call[q]
  BY <1>0, <1>1, ProceedFacts
<1>3. c \notin exposed => ended[c] = 0 /\ \A q \in Callers : call[q].at # "free" /\ call[q].of = c => q = p
  BY <1>0 DEF SessionInv, c
<1>4. /\ ended' \in [Nonces -> 0..2] /\ \A d \in Nonces \ {c} : ended'[d] = ended[d]
      /\ c \notin exposed => ended'[c] <= 1
  BY <1>0, <1>3, LeadsFacts DEF ChallengeTypeOK
<1>5. ChallengeTypeOK'
  BY <1>0, <1>2, <1>4 DEF ChallengeTypeOK
<1>6. RowInv'
  BY <1>0, <1>4 DEF RowInv, Live, WebAuthn, Lightning
<1>7. CallInv'
  BY <1>0, <1>1, <1>2 DEF CallInv, WebAuthn, Lightning, OfWallet, Completing
<1>8. SessionInv'
  <2>1. ASSUME NEW a \in Callers, NEW b \in Callers, call'[a].at \in {"validate", "cleanup"}, call'[a].of \notin exposed'
        PROVE  /\ call'[a].at = "validate" => ended'[call'[a].of] = 0
               /\ call'[b].at # "free" /\ call'[b].of = call'[a].of => b = a
    <3>0. \A q \in Callers : call'[q].of = call[q].of /\ (call'[q].at = "free" <=> call[q].at = "free")
      BY <1>0, <1>1, <1>2 DEF c
    <3>1. call[a].at \in {"validate", "cleanup"} /\ call[a].of \notin exposed
      BY <1>0, <1>2, <2>1, <3>0
    <3>2. call'[b].at # "free" /\ call'[b].of = call'[a].of => b = a
      BY <3>0, <3>1 DEF SessionInv
    <3>3. call'[a].at = "validate" => ended'[call'[a].of] = 0
      <4> SUFFICES ASSUME call'[a].at = "validate" PROVE ended'[call'[a].of] = 0
        OBVIOUS
      <4>1. a # p /\ call'[a] = call[a] /\ call[a].of \in Nonces
        BY <1>1, <1>2 DEF CallInv
      <4>2. call[a].of # c
        BY <1>0, <3>1, <4>1 DEF SessionInv, c
      <4> QED BY <1>4, <3>1, <4>1, <4>2 DEF SessionInv
    <3> QED BY <3>2, <3>3
  <2>2. ASSUME NEW d \in Nonces \ exposed', WebAuthn(d)', chal'[d].st = "pending", ended'[d] = 1
        PROVE  \E a \in Callers : call'[a].at = "cleanup" /\ call'[a].of = d
    <3>1. CASE d = c
      BY <1>1, <1>2, <3>1
    <3>2. CASE d # c
      <4>1. PICK a \in Callers : call[a].at = "cleanup" /\ call[a].of = d
        BY <1>0, <1>4, <2>2, <3>2 DEF SessionInv, WebAuthn
      <4> QED BY <1>0, <1>2, <4>1
    <3> QED BY <3>1, <3>2
  <2> QED BY <2>1, <2>2 DEF SessionInv
<1>9. WalletInv'
  BY <1>0, <1>1, <1>2 DEF WalletInv, Named
<1>10. ConfirmInv'
  BY <1>0, <1>1, <1>2 DEF ConfirmInv
<1> QED BY <1>0, <1>3, <1>5, <1>6, <1>7, <1>8, <1>9, <1>10 DEF c

\* A Lightning row is consumed: it ends, and is counted for the first time.
LEMMA ConsumeFacts ==
  ASSUME ChallengeInv, NEW c \in Nonces, ConsumeLightningChallenge(c), Leads(c)
  PROVE  /\ ~WebAuthn(c) /\ ended[c] = 0 /\ ended'[c] = 1 /\ chal'[c].st = "gone"
         /\ chal' \in [Nonces -> Challenge] /\ (\A d \in Nonces : chal'[d] = chal[d] \/ Spends(d))
         /\ ended' \in [Nonces -> 0..2] /\ \A d \in Nonces \ {c} : ended'[d] = ended[d]
<1>1. chal[c].st = "authenticated" /\ Lightning(c) /\ chal' = [chal EXCEPT ![c].st = "gone"]
  BY DEF ChallengeInv, ConsumeLightningChallenge, RowInv
<1>2. ~WebAuthn(c) /\ ended[c] = 0
  BY <1>1 DEF ChallengeInv, RowInv, Live, Lightning, WebAuthn
<1>3. chal'[c] = [chal[c] EXCEPT !.st = "gone"]
  BY <1>1 DEF ChallengeInv, ChallengeTypeOK
<1>4. ChallengeTypeOK
  BY DEF ChallengeInv
<1>5. chal' \in [Nonces -> Challenge] /\ chal'[c].st = "gone" /\ \A d \in Nonces \ {c} : chal'[d] = chal[d]
  BY <1>1, <1>4, GoneFacts
<1>6. Spends(c)
  BY <1>1, <1>3 DEF Spends
<1>7. ended' \in [Nonces -> 0..2] /\ ended'[c] = 1 /\ \A d \in Nonces \ {c} : ended'[d] = ended[d]
  BY <1>2, <1>4, LeadsFacts
<1> QED BY <1>2, <1>5, <1>6, <1>7

\* Every step of Challenges keeps the invariant.
LEMMA ChallengeStep ==
  ASSUME ChallengeInv, ChallengeNext
  PROVE  ChallengeInv'
<1>0. ChallengeTypeOK /\ RowInv /\ CallInv /\ WalletInv /\ ConfirmInv
  BY DEF ChallengeInv
<1> USE ChallengeAssumption
<1>1. ASSUME NEW c \in Nonces, Expire(c) PROVE ChallengeInv'
  <2>1. chal' = [chal EXCEPT ![c].st = "gone"] /\ chal[c].st # "none" /\ UNCHANGED <<wallet, links, marker, call, ended, exposed>>
    BY <1>1 DEF Expire, Live
  <2>2. chal'[c] = [chal[c] EXCEPT !.st = "gone"]
    BY <1>0, <2>1 DEF ChallengeTypeOK
  <2>3. chal' \in [Nonces -> Challenge] /\ \A d \in Nonces : chal'[d] = chal[d] \/ Spends(d)
    BY <1>0, <2>1, <2>2, GoneFacts DEF Spends
  <2> QED BY <1>0, <2>1, <2>3, SpentStep DEF ChallengeTypeOK
<1>2. ASSUME NEW c \in Nonces, NEW r \in Challenge, Open(c, r), UNCHANGED <<wallet, links, marker, call, ended, exposed>>,
             r.st = "pending", r.kind \in {"login", "link"} => r.by \in Browsers
      PROVE  ChallengeInv'
  <2>1. /\ chal' \in [Nonces -> Challenge] /\ chal'[c] = r /\ chal[c].st = "none"
        /\ \A d \in Nonces \ {c} : chal'[d] = chal[d]
    BY <1>0, <1>2 DEF Open, ChallengeTypeOK
  <2> QED BY <1>2, <2>1, OpenStep
<1>3. ASSUME NEW c \in Nonces, handlePasskeyLoginBegin(c) PROVE ChallengeInv'
  <2> DEFINE r == [Unopened EXCEPT !.st = "pending", !.kind = "passkey"]
  <2>0. Unopened \in Challenge
    BY <1>0, ChallengeRecords
  <2>a. r \in Challenge
    BY <2>0 DEF Challenge, Kinds
  <2>1. r \in Challenge /\ r.st = "pending" /\ r.kind = "passkey"
    BY <2>a DEF Unopened
  <2>2. Open(c, r) /\ UNCHANGED <<wallet, links, marker, call, ended, exposed>>
    BY <1>3 DEF handlePasskeyLoginBegin
  <2> HIDE DEF r
  <2> QED BY <1>2, <2>1, <2>2
<1>4. ASSUME NEW c \in Nonces, NEW u \in Users, handleRecoveryChallenge(c, u) PROVE ChallengeInv'
  <2> DEFINE r == [Unopened EXCEPT !.st = "pending", !.kind = "recovery", !.user = u]
  <2>0. Unopened \in Challenge
    BY <1>0, ChallengeRecords
  <2>a. r \in Challenge
    BY <2>0 DEF Challenge, Kinds
  <2>1. r \in Challenge /\ r.st = "pending" /\ r.kind = "recovery"
    BY <2>a DEF Unopened
  <2>2. Open(c, r) /\ UNCHANGED <<wallet, links, marker, call, ended, exposed>>
    BY <1>4 DEF handleRecoveryChallenge
  <2> HIDE DEF r
  <2> QED BY <1>2, <2>1, <2>2
<1>5. ASSUME NEW c \in Nonces, NEW b \in Browsers, NEW u \in Users \cup {NoUser}, generateLightningChallenge(c, b, u)
      PROVE  ChallengeInv'
  <2> DEFINE k == IF u = NoUser THEN "login" ELSE "link"
             r == [Unopened EXCEPT !.st = "pending", !.by = b, !.user = u, !.kind = k]
  <2>0. Unopened \in Challenge
    BY <1>0, ChallengeRecords
  <2>a. r \in Challenge
    BY <2>0 DEF Challenge, Kinds
  <2>1. r \in Challenge /\ r.st = "pending" /\ r.by = b
    BY <2>a DEF Unopened
  <2>2. Open(c, r) /\ UNCHANGED <<wallet, links, marker, call, ended, exposed>>
    BY <1>5 DEF generateLightningChallenge
  <2> HIDE DEF r
  <2> QED BY <1>2, <2>1, <2>2
<1>6. ASSUME NEW c \in Nonces, NEW u \in Users, handlePasskeyRegisterBegin(c, u) PROVE ChallengeInv'
  <2> DEFINE r == [Unopened EXCEPT !.st = "pending", !.kind = "register", !.user = u]
  <2>0. Unopened \in Challenge
    BY <1>0, ChallengeRecords
  <2>a. r \in Challenge
    BY <2>0 DEF Challenge, Kinds
  <2>1. r \in Challenge /\ r.st = "pending" /\ r.kind = "register"
    BY <2>a DEF Unopened
  <2>2. /\ chal[c].st = "none" /\ UNCHANGED <<wallet, links, marker, call, ended, exposed>>
        /\ chal' = [d \in Nonces |-> IF d = c THEN r
             ELSE IF chal[d].kind = "register" /\ chal[d].user = u THEN [chal[d] EXCEPT !.st = "gone"] ELSE chal[d]]
    BY <1>6 DEF handlePasskeyRegisterBegin
  <2> HIDE DEF r
  <2>3. chal'[c] = r /\ \A d \in Nonces \ {c} : chal'[d] = chal[d] \/ Spends(d)
    BY <1>0, <2>2 DEF Spends, RowInv, Unopened
  <2>4. chal' \in [Nonces -> Challenge]
    BY <1>0, <2>1, <2>2, ChallengeRecords
  <2> QED BY <2>1, <2>2, <2>3, <2>4, OpenStep
<1>7. ASSUME NEW c \in Nonces, ConsumeRecoveryChallenge(c) PROVE ChallengeInv'
  <2>1. /\ chal[c].kind = "recovery" /\ chal[c].st = "pending" /\ chal' = [chal EXCEPT ![c].st = "gone"] /\ Leads(c)
        /\ UNCHANGED <<wallet, links, marker, call, exposed>>
    BY <1>7 DEF ConsumeRecoveryChallenge
  <2>2. chal'[c] = [chal[c] EXCEPT !.st = "gone"]
    BY <1>0, <2>1 DEF ChallengeTypeOK
  <2>3. chal' \in [Nonces -> Challenge] /\ chal'[c].st = "gone" /\ \A d \in Nonces : chal'[d] = chal[d] \/ Spends(d)
    BY <1>0, <2>1, <2>2, GoneFacts DEF Spends
  <2>4. ended[c] = 0 /\ ~WebAuthn(c)
    BY <1>0, <2>1 DEF RowInv, Live, WebAuthn
  <2>5. ended' \in [Nonces -> 0..2] /\ ended'[c] = 1 /\ \A d \in Nonces \ {c} : ended'[d] = ended[d]
    BY <1>0, <2>1, <2>4, LeadsFacts
  <2> QED BY <1>0, <2>1, <2>3, <2>4, <2>5, SpentStep DEF ChallengeTypeOK
<1>8. ASSUME NEW c \in Nonces, NEW p \in Callers, handleLightningStatus(p, c) PROVE ChallengeInv'
  <2>1. /\ Lightning(c) /\ chal[c].st = "authenticated" /\ call[p].at = "free"
        /\ UNCHANGED <<chal, wallet, links, marker, ended, exposed>>
        /\ \/ (chal[c].kind = "link" \/ ~lightningKeyNeedsConfirm(c)) /\ Calls(p, c, "complete")
           \/ Calls(p, c, "unseen")
    BY <1>8 DEF handleLightningStatus, Calls, Free
  <2>2. chal[c].kind = "login" /\ wallet[chal[c].key].id = chal[c].id /\ ~lightningKeyNeedsConfirm(c)
        => <<chal[c].by, chal[c].id>> \in marker
    <3> SUFFICES ASSUME chal[c].kind = "login", wallet[chal[c].key].id = chal[c].id, ~lightningKeyNeedsConfirm(c)
                 PROVE  <<chal[c].by, chal[c].id>> \in marker
      OBVIOUS
    <3>1. chal[c].key \in Wallets /\ chal[c].id # 0 /\ wallet[chal[c].key].owner = chal[c].user
      BY <1>0, <2>1 DEF WalletInv, Named, ChallengeTypeOK
    <3>2. wallet[chal[c].key] # Unlinked /\ chal[c].key # NoWallet
      BY <3>1 DEF Unlinked
    <3> QED BY <3>1, <3>2 DEF lightningKeyNeedsConfirm
  <2>3. ASSUME NEW at \in Completing, Calls(p, c, at), at = "complete" => chal[c].kind = "link" \/ ~lightningKeyNeedsConfirm(c)
        PROVE  ChallengeInv'
    <3> DEFINE r == [FreeAt(c) EXCEPT !.at = at]
    <3>1. Proceed(p, r) /\ r.at = at /\ r.of = c /\ r.id = 0
      BY <2>3 DEF Calls, Proceed, FreeAt, Free
    <3>2. r \in Call
      BY <1>0, <2>3, ChallengeRecords DEF Completing
    <3>3. at \in {"complete", "unseen"} /\ at \notin OfWallet
      BY DEF Completing, OfWallet
    <3> HIDE DEF r
    <3>4. r.at \in {"confirm", "complete"} => r.at = "complete" /\ (chal[c].kind = "link" \/ ~lightningKeyNeedsConfirm(c))
      BY <2>3, <3>1, <3>3
    <3> QED BY <2>1, <2>2, <3>1, <3>2, <3>3, <3>4, ProceedStep
  <2> QED BY <2>1, <2>3 DEF Completing
<1>9. ASSUME NEW c \in Nonces, NEW p \in Callers, NEW confirm \in {"confirm", "reject"}, handleLightningConfirm(p, c, confirm)
      PROVE  ChallengeInv'
  <2> DEFINE w == chal[c].key
             r == [FreeAt(c) EXCEPT !.at = confirm, !.key = w, !.id = wallet[w].id]
  <2>1. /\ chal[c].kind = "login" /\ chal[c].st = "authenticated" /\ Lightning(c)
        /\ call[p].at = "free" /\ Proceed(p, r) /\ UNCHANGED <<chal, wallet, links, marker, ended, exposed>>
    BY <1>9 DEF handleLightningConfirm, Lightning, Free
  <2>2. w \in Wallets
    BY <1>0, <2>1 DEF WalletInv, Named
  <2>3. wallet[w].id \in 0..MaxLinks
    BY <1>0, <2>2 DEF ChallengeTypeOK, LinkingKey
  <2>4. r \in Call
    <3>1. FreeAt(c) \in Call
      BY <1>0, ChallengeRecords DEF FreeAt, Call
    <3>2. confirm \in OfWallet
      BY DEF OfWallet
    <3> QED BY <2>2, <2>3, <3>1, <3>2 DEF Call
  <2>5. r.at = confirm /\ r.of = c /\ r.key = w /\ r.id = wallet[w].id
    BY DEF FreeAt, Free
  <2> HIDE DEF r
  <2> QED BY <2>1, <2>2, <2>4, <2>5, ProceedStep DEF OfWallet
<1>10. ASSUME NEW c \in Nonces, NEW p \in Callers, NEW w \in Wallets, handleLNURLAuthCallback(p, c, w) PROVE ChallengeInv'
  <2> DEFINE at == IF chal[c].kind = "link" THEN "link" ELSE "lookup"
             u == IF chal[c].kind = "link" THEN chal[c].user ELSE NoUser
             r == [FreeAt(c) EXCEPT !.key = w, !.at = at, !.user = u]
  <2>1. /\ Live(c) /\ Lightning(c) /\ call[p].at = "free" /\ Proceed(p, r)
        /\ UNCHANGED <<chal, wallet, links, marker, ended, exposed>>
    BY <1>10 DEF handleLNURLAuthCallback, Free
  <2>2. u \in Users \cup {NoUser} /\ at \in {"link", "lookup"} /\ at \in OfWallet
        /\ (at = "link" => chal[c].kind = "link")
    BY <1>0 DEF ChallengeTypeOK, Challenge, OfWallet
  <2>3. r.at = at /\ r.of = c /\ r.key = w
    BY DEF FreeAt, Free
  <2> HIDE DEF at, u
  <2>4. r \in Call
    <3>1. FreeAt(c) \in Call
      BY <1>0, ChallengeRecords DEF FreeAt, Call
    <3> QED BY <2>2, <3>1 DEF Call
  <2> HIDE DEF r
  <2> QED BY <2>1, <2>2, <2>3, <2>4, ProceedStep DEF Live, Completing
<1>11. ASSUME NEW p \in Callers, CreateLightningKey(p) \/ GetLightningKeyByLinkingKey(p) PROVE ChallengeInv'
  <2> DEFINE w == call[p].key
             c == call[p].of
             linked == [call[p] EXCEPT !.at = "claim", !.key = NoWallet]
  <2>0. /\ w \in Wallets /\ c \in Nonces /\ chal[c].st # "none" /\ Lightning(c) /\ call[p].at \in {"link", "lookup"}
        /\ wallet[w] \in LinkingKey /\ call[p] \in Call
    BY <1>0, <1>11, ChallengeRecords DEF CreateLightningKey, GetLightningKeyByLinkingKey, Runs, CallInv, OfWallet
  <2>1. CASE Ends(p) /\ UNCHANGED <<chal, wallet, links, marker, ended, exposed>>
    BY <1>0, <2>0, <2>1, EndStep DEF ChallengeTypeOK
  <2>2. CASE GetLightningKeyByLinkingKey(p) /\ wallet[w] # Unlinked
    <3> DEFINE r == [call[p] EXCEPT !.at = "claim", !.user = wallet[w].owner, !.id = wallet[w].id]
    <3>1. Proceed(p, r) /\ UNCHANGED <<chal, wallet, links, marker, ended, exposed>>
      BY <2>2 DEF GetLightningKeyByLinkingKey
    <3>2. r \in Call
      BY <2>0 DEF Call, LinkingKey
    <3>3. r.at = "claim" /\ r.of = c /\ r.key = w /\ r.user = wallet[w].owner /\ r.id = wallet[w].id
      BY <2>0 DEF Call
    <3> HIDE DEF r
    <3>4. Named(r)
      <4>1. wallet[w].id \in Nat /\ wallet[w].id # 0 /\ wallet[w].id <= links /\ links \in Nat
        BY <1>0, <2>0, <2>2 DEF WalletInv, LinkingKey, ChallengeTypeOK
      <4> QED BY <2>0, <3>3, <4>1 DEF Named
    <3> HIDE DEF w, c
    <3> QED BY <2>0, <3>1, <3>2, <3>3, <3>4, ProceedStep DEF OfWallet, Completing
  <2>3. CASE CreateLightningKey(p) /\ Proceed(p, linked)
    <3> DEFINE r == linked
    <3>1. Proceed(p, r) /\ UNCHANGED <<chal, marker, ended, exposed>> /\ call[p].at = "link"
      BY <2>3 DEF CreateLightningKey, Runs
    <3>2. r \in Call
      BY <2>0 DEF Call
    <3>3. r.at = "claim" /\ r.of = c
      BY <2>0 DEF Call
    <3> HIDE DEF r
    <3>4. chal[c].kind = "link"
      BY <1>0, <2>0, <3>1 DEF CallInv
    <3>5. CASE UNCHANGED <<wallet, links>>
      <4> HIDE DEF c
      <4> QED BY <2>0, <3>1, <3>2, <3>3, <3>4, <3>5, ProceedStep DEF OfWallet, Completing
    <3>6. CASE /\ links < MaxLinks /\ links' = links + 1
               /\ wallet' = [wallet EXCEPT ![w] = [owner |-> call[p].user, id |-> links + 1]]
      <4> DEFINE k == [owner |-> call[p].user, id |-> links + 1]
      <4>1. links \in Nat /\ links' \in 0..MaxLinks /\ links <= links'
        BY <1>0, <3>6 DEF ChallengeTypeOK
      <4>2. k \in LinkingKey /\ k.id = links + 1
        BY <2>0, <3>6, <4>1 DEF LinkingKey, Call
      <4> HIDE DEF k
      <4>3. call' \in [Callers -> Call] /\ call'[p] = r /\ \A q \in Callers \ {p} : call'[q] = call[q]
        BY <1>0, <3>1, <3>2, ProceedFacts
      <4>4. wallet' = [wallet EXCEPT ![w] = k]
        BY <3>6 DEF k
      <4>5. k.id <= links' /\ k.id # 0 /\ k.id > links
        BY <3>6, <4>1, <4>2
      <4>6. \A q \in Callers :
              \/ call'[q] = call[q]
              \/ call'[q].at = "free" /\ call[q].at # "cleanup"
              \/ call[q].at = "link" /\ call'[q].at = "claim" /\ call'[q].of = call[q].of
        BY <3>1, <3>3, <4>3
      <4> HIDE DEF w, c
      <4> QED BY <2>0, <3>1, <4>1, <4>2, <4>3, <4>4, <4>5, <4>6, WalletStep
    <3> QED BY <2>3, <3>5, <3>6 DEF CreateLightningKey
  <2> QED BY <1>11, <2>1, <2>2, <2>3 DEF CreateLightningKey, GetLightningKeyByLinkingKey
<1>12. ASSUME NEW p \in Callers, ConfirmLightningKey(p) PROVE ChallengeInv'
  <2> DEFINE r == [call[p] EXCEPT !.at = "complete"]
             c == call[p].of
  <2>1. /\ call[p].at = "confirm" /\ c \in Nonces /\ Lightning(c) /\ chal[c].st \in {"authenticated", "gone"}
        /\ call[p].key \in Wallets /\ UNCHANGED <<chal, wallet, links, marker, ended, exposed>>
        /\ call[p] \in Call
    BY <1>0, <1>12, ChallengeRecords DEF ConfirmLightningKey, Runs, CallInv, OfWallet
  <2>2. CASE Ends(p)
    BY <1>0, <2>1, <2>2, EndStep DEF ChallengeTypeOK
  <2>3. CASE Proceed(p, r)
    <3>1. r \in Call
      BY <2>1 DEF Call, Completing
    <3>2. r.at = "complete" /\ r.of = c /\ r.id = call[p].id
      BY <2>1 DEF Call
    <3> HIDE DEF r
    <3>3. chal[c].kind = "login" /\ chal[c].st = "authenticated" /\ wallet[chal[c].key].id = chal[c].id
          => r.id = chal[c].id /\ r.id # 0
      <4> SUFFICES ASSUME chal[c].kind = "login", chal[c].st = "authenticated", wallet[chal[c].key].id = chal[c].id
                   PROVE  r.id = chal[c].id /\ r.id # 0
        OBVIOUS
      <4>1. call[p].id = chal[c].id
        BY <1>0, <2>1 DEF ConfirmInv
      <4>2. chal[c].id # 0
        BY <1>0, <2>1 DEF WalletInv, Named, ChallengeTypeOK
      <4> QED BY <3>2, <4>1, <4>2
    <3> HIDE DEF c
    <3> QED BY <2>1, <2>3, <3>1, <3>2, <3>3, ProceedStep DEF OfWallet
  <2> QED BY <1>12, <2>2, <2>3 DEF ConfirmLightningKey, EndsOrProceeds
<1>13. ASSUME NEW p \in Callers, completeLightningLogin(p) PROVE ChallengeInv'
  <2> DEFINE c == call[p].of
  <2>1. /\ call[p].at \in {"complete", "unseen"} /\ c \in Nonces /\ chal[c].by \in Browsers /\ Ends(p) /\ UNCHANGED <<wallet, links, exposed>>
        /\ call[p] \in Call
    BY <1>0, <1>13, ChallengeRecords DEF completeLightningLogin, Completing, CallInv, RowInv
  <2>2. call' \in [Callers -> Call] /\ call'[p] = Free /\ Free.at = "free" /\ \A q \in Callers \ {p} : call'[q] = call[q]
    BY <1>0, <2>1, EndsFacts DEF Free
  <2>3. CASE UNCHANGED <<chal, ended, marker>>
    BY <1>0, <2>1, <2>3, EndStep DEF ChallengeTypeOK
  <2>4. CASE /\ ConsumeLightningChallenge(c) /\ Leads(c)
             /\ marker' = IF call[p].id # 0 THEN marker \cup {<<chal[c].by, call[p].id>>} ELSE marker
    <3>1. marker' \subseteq Browsers \X (1..MaxLinks) /\ marker \subseteq marker'
      BY <1>0, <2>1, <2>4 DEF ChallengeTypeOK, Call
    <3>2. /\ ~WebAuthn(c) /\ ended[c] = 0 /\ ended'[c] = 1 /\ chal'[c].st = "gone"
          /\ chal' \in [Nonces -> Challenge] /\ (\A d \in Nonces : chal'[d] = chal[d] \/ Spends(d))
          /\ ended' \in [Nonces -> 0..2] /\ \A d \in Nonces \ {c} : ended'[d] = ended[d]
      BY <2>1, <2>4, ConsumeFacts
    <3> HIDE DEF c
    <3> QED BY <2>1, <2>2, <3>1, <3>2, SpentStep
  <2> QED BY <1>13, <2>3, <2>4 DEF completeLightningLogin
<1>14. ASSUME NEW p \in Callers, rejectLogin(p) PROVE ChallengeInv'
  <2> DEFINE c == call[p].of
             r == [call[p] EXCEPT !.at = "unlink"]
  <2>1. call[p].at = "reject" /\ c \in Nonces /\ UNCHANGED <<wallet, links, marker, exposed>> /\ call[p] \in Call
    BY <1>0, <1>14, ChallengeRecords DEF rejectLogin, Runs, CallInv
  <2>3. CASE UNCHANGED <<chal, ended>> /\ Ends(p)
    BY <1>0, <2>1, <2>3, EndStep DEF ChallengeTypeOK
  <2>4. CASE ConsumeLightningChallenge(c) /\ Leads(c) /\ Proceed(p, r)
    <3>1. r \in Call
      BY <2>1 DEF Call, OfWallet
    <3>2. r.at = "unlink" /\ r.of = c /\ r.key = call[p].key
      BY <2>1 DEF Call
    <3> HIDE DEF r
    <3>3. call' \in [Callers -> Call] /\ call'[p] = r /\ \A q \in Callers \ {p} : call'[q] = call[q]
      BY <1>0, <2>4, <3>1, ProceedFacts
    <3>4. /\ ~WebAuthn(c) /\ ended[c] = 0 /\ ended'[c] = 1 /\ chal'[c].st = "gone"
          /\ chal' \in [Nonces -> Challenge] /\ (\A d \in Nonces : chal'[d] = chal[d] \/ Spends(d))
          /\ ended' \in [Nonces -> 0..2] /\ \A d \in Nonces \ {c} : ended'[d] = ended[d]
      BY <2>1, <2>4, ConsumeFacts
    <3>5. \A q \in Callers :
            \/ call'[q] = call[q]
            \/ /\ call[q].at = "reject" /\ call'[q].at = "unlink" /\ call'[q].of = call[q].of /\ call'[q].key = call[q].key
      BY <2>1, <3>2, <3>3
    <3> HIDE DEF c
    <3> QED BY <1>0, <2>1, <3>3, <3>4, <3>5, SpentStep DEF ChallengeTypeOK
  <2> QED BY <1>14, <2>3, <2>4 DEF rejectLogin
<1>15. ASSUME NEW w \in Wallets, NEW id, DeleteLightningKey(w, id), UNCHANGED <<chal, links, marker, ended, exposed>>,
              call' \in [Callers -> Call],
              \A q \in Callers : call'[q] = call[q] \/ (call'[q].at = "free" /\ call[q].at # "cleanup")
       PROVE  ChallengeInv'
  <2>1. links \in 0..MaxLinks /\ wallet[w] \in LinkingKey /\ Unlinked \in LinkingKey /\ Unlinked.id = 0
    BY <1>0, ChallengeRecords DEF ChallengeTypeOK
  <2>2. CASE wallet' = [wallet EXCEPT ![w] = Unlinked]
    <3>1. links' \in 0..MaxLinks /\ links <= links' /\ Unlinked.id <= links'
      BY <1>15, <2>1
    <3> QED BY <1>15, <2>1, <2>2, <3>1, WalletStep
  <2>3. CASE wallet' = wallet
    <3>1. \A q \in Callers : call'[q].at # "free" => call'[q] = call[q]
      BY <1>15
    <3>2. /\ \A d \in Nonces : chal'[d] = chal[d] \/ Spends(d)
          /\ chal' \in [Nonces -> Challenge] /\ ended' \in [Nonces -> 0..2]
          /\ marker \subseteq marker' /\ marker' \subseteq Browsers \X (1..MaxLinks)
      BY <1>0, <1>15 DEF ChallengeTypeOK
    <3> QED BY <1>15, <2>3, <3>1, <3>2, SpentStep
  <2> QED BY <1>15, <2>2, <2>3 DEF DeleteLightningKey
<1>16. ASSUME NEW p \in Callers, unlinkRejected(p) PROVE ChallengeInv'
  <2>1. call[p].at = "unlink" /\ call[p].key \in Wallets /\ DeleteLightningKey(call[p].key, call[p].id) /\ Ends(p)
        /\ UNCHANGED <<chal, links, marker, ended, exposed>>
    BY <1>0, <1>16 DEF unlinkRejected, Runs, CallInv, OfWallet
  <2>2. call' \in [Callers -> Call] /\ call'[p].at = "free" /\ \A q \in Callers \ {p} : call'[q] = call[q]
    BY <1>0, <2>1, EndsFacts DEF Free
  <2>3. \A q \in Callers : call'[q] = call[q] \/ (call'[q].at = "free" /\ call[q].at # "cleanup")
    BY <2>1, <2>2
  <2> QED BY <1>15, <2>1, <2>2, <2>3
<1>17. ASSUME NEW u \in Users, NEW w \in Wallets, handleLightningKeyByID(u, w) PROVE ChallengeInv'
  BY <1>0, <1>15, <1>17 DEF handleLightningKeyByID, ChallengeTypeOK
<1>18. ASSUME NEW p \in Callers, DeleteWebAuthnSession(p) PROVE ChallengeInv'
  <2> DEFINE c == call[p].of
  <2>1. call[p].at = "cleanup" /\ c \in Nonces /\ chal[c].st # "none" /\ Ends(p) /\ UNCHANGED <<wallet, links, marker, ended, exposed>>
    BY <1>0, <1>18 DEF DeleteWebAuthnSession, Runs, CallInv
  <2>2. chal' = [d \in Nonces |-> IF d \in Slot(c) /\ chal[d].st # "none" THEN [chal[d] EXCEPT !.st = "gone"] ELSE chal[d]]
    BY <1>18 DEF DeleteWebAuthnSession
  <2>3. chal' \in [Nonces -> Challenge] /\ \A d \in Nonces : chal'[d] = chal[d] \/ Spends(d)
    BY <1>0, <2>2, ChallengeRecords DEF Spends
  <2>4. chal'[c].st = "gone"
    <3>1. c \in Slot(c)
      BY <2>1 DEF Slot
    <3>2. chal'[c] = [chal[c] EXCEPT !.st = "gone"] /\ chal[c] \in Challenge
      BY <1>0, <2>1, <2>2, <3>1 DEF ChallengeTypeOK
    <3> QED BY <3>2 DEF Challenge
  <2>5. call' \in [Callers -> Call] /\ call'[p].at = "free" /\ \A q \in Callers \ {p} : call'[q] = call[q]
    BY <1>0, <2>1, EndsFacts DEF Free
  <2> QED BY <1>0, <2>1, <2>3, <2>4, <2>5, SpentStep DEF ChallengeTypeOK
<1>19. ASSUME NEW p \in Callers, Abandon(p) PROVE ChallengeInv'
  <2>1. Ends(p) /\ UNCHANGED <<chal, wallet, links, marker, ended>> /\ call[p] # Free /\ call[p] \in Call
        /\ exposed' = IF Runs(p, "cleanup") THEN exposed \cup {call[p].of} ELSE exposed
    BY <1>0, <1>19, ChallengeRecords DEF Abandon
  <2>2. call[p].at = "cleanup" => call[p].of \in Nonces
    BY <1>0 DEF CallInv
  <2> QED BY <1>0, <2>1, <2>2, EndStep DEF Runs, ChallengeTypeOK
<1>20. ASSUME NEW c \in Nonces,
              \/ Expire(c) \/ handlePasskeyLoginBegin(c) \/ ConsumeRecoveryChallenge(c)
              \/ \E u \in Users : handlePasskeyRegisterBegin(c, u) \/ handleRecoveryChallenge(c, u)
              \/ \E u \in Users, b \in Browsers : generateLightningChallenge(c, b, u)
              \/ \E b \in Browsers : generateLightningChallenge(c, b, NoUser)
       PROVE  ChallengeInv'
  BY <1>1, <1>3, <1>4, <1>5, <1>6, <1>7, <1>20
<1>21. ASSUME NEW c \in Nonces, NEW p \in Callers,
              \/ handleLightningStatus(p, c) \/ GetWebAuthnSession(p, c)
              \/ \E confirm \in {"confirm", "reject"} : handleLightningConfirm(p, c, confirm)
              \/ \E w \in Wallets : handleLNURLAuthCallback(p, c, w)
       PROVE  ChallengeInv'
  BY <1>8, <1>9, <1>10, <1>21, SessionReadStep
<1>22. ASSUME NEW p \in Callers,
              \/ CreateLightningKey(p) \/ GetLightningKeyByLinkingKey(p) \/ claimLightningChallenge(p)
              \/ ConfirmLightningKey(p) \/ completeLightningLogin(p) \/ rejectLogin(p) \/ unlinkRejected(p)
              \/ validateCredential(p) \/ DeleteWebAuthnSession(p) \/ Abandon(p)
       PROVE  ChallengeInv'
  BY <1>11, <1>12, <1>13, <1>14, <1>16, <1>18, <1>19, <1>22, ClaimStep, ValidateStep
<1> QED BY <1>17, <1>20, <1>21, <1>22, Zenon DEF ChallengeNext

\* Challenges' invariant holds in every state of Accounts.
THEOREM ChallengeInvariant == Spec => []ChallengeInv
<1>1. Init => ChallengeInv
  <2> SUFFICES ASSUME ChallengeInit PROVE ChallengeInv
    BY DEF Init
  <2>1. Unopened \in Challenge /\ Unlinked \in LinkingKey /\ Free \in Call
    BY ChallengeAssumption DEF Unopened, Challenge, Kinds, Unlinked, LinkingKey, Free, Call
  <2>2. /\ Unopened.st = "none" /\ Unopened.kind = "login" /\ Unlinked.id = 0 /\ Free.at = "free"
    BY DEF Unopened, Unlinked, Free
  <2>3. links \in 0..MaxLinks /\ wallet \in [Wallets -> LinkingKey]
        /\ \A w \in Wallets : wallet[w].id <= links /\ (wallet[w].id = 0 => wallet[w] = Unlinked)
    <3>1. CASE links = 0 /\ wallet = [w \in Wallets |-> Unlinked]
      BY <2>1, <2>2, <3>1, ChallengeAssumption
    <3>2. ASSUME links = 1, NEW w \in Wallets, NEW u \in Users,
                 wallet = [v \in Wallets |-> IF v = w THEN [owner |-> u, id |-> 1] ELSE Unlinked]
          PROVE  links \in 0..MaxLinks /\ wallet \in [Wallets -> LinkingKey]
                 /\ \A v \in Wallets : wallet[v].id <= links /\ (wallet[v].id = 0 => wallet[v] = Unlinked)
      <4>1. [owner |-> u, id |-> 1] \in LinkingKey
        BY <3>2, ChallengeAssumption DEF LinkingKey
      <4> QED BY <2>1, <2>2, <3>2, <4>1, ChallengeAssumption
    <3> QED BY <3>1, <3>2 DEF ChallengeInit
  <2>4. ChallengeTypeOK
    BY <2>1, <2>3 DEF ChallengeInit, ChallengeTypeOK
  <2>5. RowInv /\ CallInv /\ SessionInv /\ ConfirmInv
    BY <2>2 DEF ChallengeInit, RowInv, CallInv, SessionInv, ConfirmInv, Live, WebAuthn, Lightning
  <2>6. WalletInv
    BY <2>2, <2>3 DEF ChallengeInit, WalletInv
  <2> QED BY <2>4, <2>5, <2>6 DEF ChallengeInv
<1>2. ChallengeInv /\ [Next]_accountVars => ChallengeInv'
  <2>1. ASSUME ChallengeInv, UNCHANGED challengeVars PROVE ChallengeInv'
    BY <2>1 DEF ChallengeInv, ChallengeTypeOK, RowInv, CallInv, SessionInv, WalletInv, ConfirmInv, Named, Live, WebAuthn,
                Lightning, challengeVars
  <2>2. ASSUME ChallengeInv, ChallengeNext PROVE ChallengeInv'
    BY <2>2, ChallengeStep
  <2> QED BY <2>1, <2>2 DEF Next, accountVars
<1> QED BY <1>1, <1>2, PTL DEF Spec

\* A row is counted by one step at a time, and unless it is an exposed session
\* for the first time.
LEMMA CountStep ==
  ASSUME ChallengeInv, ChallengeNext
  PROVE  /\ exposed \subseteq exposed'
         /\ \/ ended' = ended
            \/ exposed' = exposed /\ \E c \in Nonces : Leads(c) /\ (c \notin exposed => ended[c] = 0)
<1> DEFINE Counts == exposed' = exposed /\ \E c \in Nonces : Leads(c) /\ (c \notin exposed => ended[c] = 0)
           Quiet == exposed \subseteq exposed' /\ ended' = ended
<1>1. ASSUME NEW c \in Nonces, ConsumeRecoveryChallenge(c) PROVE Counts
  <2>1. ended[c] = 0
    BY <1>1 DEF ConsumeRecoveryChallenge, ChallengeInv, RowInv, Live, WebAuthn
  <2> QED BY <1>1, <2>1 DEF ConsumeRecoveryChallenge
<1>2. ASSUME NEW p \in Callers, completeLightningLogin(p) \/ rejectLogin(p) PROVE Counts \/ Quiet
  <2>1. call[p].of \in Nonces /\ exposed' = exposed
    BY <1>2 DEF completeLightningLogin, rejectLogin, Runs, Completing, ChallengeInv, CallInv
  <2>2. CASE ConsumeLightningChallenge(call[p].of) /\ Leads(call[p].of)
    <3>1. ended[call[p].of] = 0
      BY <2>1, <2>2, ConsumeFacts
    <3> QED BY <2>1, <2>2, <3>1
  <2> QED BY <1>2, <2>1, <2>2 DEF completeLightningLogin, rejectLogin
<1>3. ASSUME NEW p \in Callers, validateCredential(p) PROVE Counts \/ Quiet
  BY <1>3, ValidateStep DEF validateCredential
<1>4. ASSUME NEW c \in Nonces,
             \/ Expire(c) \/ handlePasskeyLoginBegin(c)
             \/ \E u \in Users : handlePasskeyRegisterBegin(c, u) \/ handleRecoveryChallenge(c, u)
             \/ \E u \in Users, b \in Browsers : generateLightningChallenge(c, b, u)
             \/ \E b \in Browsers : generateLightningChallenge(c, b, NoUser)
      PROVE  Quiet
  BY <1>4 DEF Expire, handlePasskeyLoginBegin, handlePasskeyRegisterBegin, handleRecoveryChallenge, generateLightningChallenge
<1>5. ASSUME NEW c \in Nonces, NEW p \in Callers,
             \/ handleLightningStatus(p, c) \/ GetWebAuthnSession(p, c)
             \/ \E confirm \in {"confirm", "reject"} : handleLightningConfirm(p, c, confirm)
             \/ \E w \in Wallets : handleLNURLAuthCallback(p, c, w)
      PROVE  Quiet
  BY <1>5 DEF handleLightningStatus, GetWebAuthnSession, handleLightningConfirm, handleLNURLAuthCallback
<1>6. ASSUME NEW p \in Callers,
             \/ CreateLightningKey(p) \/ GetLightningKeyByLinkingKey(p) \/ claimLightningChallenge(p)
             \/ ConfirmLightningKey(p) \/ unlinkRejected(p) \/ DeleteWebAuthnSession(p) \/ Abandon(p)
      PROVE  Quiet
  BY <1>6 DEF CreateLightningKey, GetLightningKeyByLinkingKey, claimLightningChallenge, ConfirmLightningKey,
              unlinkRejected, DeleteWebAuthnSession, Abandon
<1>7. ASSUME NEW u \in Users, NEW w \in Wallets, handleLightningKeyByID(u, w) PROVE Quiet
  BY <1>7 DEF handleLightningKeyByID
<1>8. Counts => exposed \subseteq exposed'
  OBVIOUS
<1> HIDE DEF Counts, Quiet
<1>9. Counts \/ Quiet
  BY <1>1, <1>2, <1>3, <1>4, <1>5, <1>6, <1>7, Zenon DEF ChallengeNext
<1> QED BY <1>8, <1>9 DEF Counts, Quiet

\* A row leads to one sign-in, rejection, credential or reset at most: every
\* step of Challenges takes one item of OneTime or none.
THEOREM ChallengeIsOneTimeAlways == Spec => ChallengeIsOneTime
<1> DEFINE uses == [c \in Nonces |-> IF c \in exposed /\ ended[c] > 1 THEN 1 ELSE ended[c]]
<1>1. Init => SingleUse!Init
  <2> SUFFICES ASSUME ChallengeInit PROVE SingleUse!Init
    BY DEF Init
  <2> QED BY DEF ChallengeInit, SingleUse!Init
<1>2. ChallengeInv /\ [Next]_accountVars => [SingleUse!Next]_uses
  <2> SUFFICES ASSUME ChallengeInv, [Next]_accountVars PROVE [SingleUse!Next]_uses
    OBVIOUS
  <2>1. CASE UNCHANGED challengeVars
    BY <2>1 DEF challengeVars
  <2>2. CASE ChallengeNext
    <3>0. ended \in [Nonces -> 0..2] /\ \A c \in Nonces \ exposed : ended[c] <= 1
      BY DEF ChallengeInv, ChallengeTypeOK, RowInv
    <3>1. CASE ended' = ended /\ exposed \subseteq exposed'
      <4>1. ASSUME NEW c \in Nonces PROVE uses'[c] = uses[c]
        BY <3>0, <3>1
      <4> QED BY <4>1
    <3>2. ASSUME exposed' = exposed, NEW c \in Nonces, Leads(c), c \notin exposed => ended[c] = 0
          PROVE  [SingleUse!Next]_uses
      <4>1. ended[c] \in 0..2 /\ ended'[c] = (IF ended[c] = 2 THEN 2 ELSE ended[c] + 1)
            /\ \A d \in Nonces \ {c} : ended'[d] = ended[d]
        BY <3>0, <3>2, LeadsFacts DEF ChallengeInv
      <4>2. \A d \in Nonces \ {c} : uses'[d] = uses[d]
        BY <3>2, <4>1
      <4>3. CASE ended[c] = 0
        <5>1. uses[c] = 0 /\ uses'[c] = 1
          BY <3>2, <4>1, <4>3
        <5>2. uses' = [uses EXCEPT ![c] = 1]
          BY <4>2, <5>1
        <5>3. SingleUse!Take(c)
          BY <5>1, <5>2 DEF SingleUse!Take
        <5> QED BY <5>3 DEF SingleUse!Next
      <4>4. CASE ended[c] # 0
        <5>1. c \in exposed /\ uses[c] = 1 /\ uses'[c] = 1
          BY <3>2, <4>1, <4>4
        <5> QED BY <4>2, <5>1
      <4> QED BY <4>3, <4>4
    <3> QED BY <2>2, <3>1, <3>2, CountStep
  <2> QED BY <2>1, <2>2 DEF Next, accountVars
<1> QED BY <1>1, <1>2, ChallengeInvariant, PTL DEF Spec, ChallengeIsOneTime, SingleUse!Spec

\* No login ends in a session unless its browser has the marker of the
\* linking-key row that signed.
THEOREM SeenLoginConfirmedAlways == Spec => SeenLoginConfirmed
<1> DEFINE Step ==
      \A c \in Nonces, p \in Callers :
        Runs(p, "complete") /\ LogsIn(p, c) => Marked(c)
<1>1. ChallengeInv /\ [Next]_accountVars => [Step]_challengeVars
  <2> SUFFICES ASSUME ChallengeInv, ChallengeNext PROVE Step
    BY DEF Next, accountVars
  <2> SUFFICES ASSUME NEW c \in Nonces, NEW p \in Callers,
                      Runs(p, "complete"), call[p].of = c, call'[p] = Free, ended'[c] > ended[c],
                      chal[c].kind = "login", wallet[chal[c].key].id = chal[c].id
               PROVE  <<chal[c].by, chal[c].id>> \in marker'
    BY DEF LogsIn, Marked
  <2>0. call[p].at = "complete" /\ Free.at = "free" /\ ended \in [Nonces -> 0..2] /\ ChallengeTypeOK
    BY DEF Runs, Free, ChallengeInv, ChallengeTypeOK
  <2>1. ended' # ended
    BY <2>0
  <2>2. \/ \E d \in Nonces : ConsumeRecoveryChallenge(d)
        \/ \E q \in Callers : completeLightningLogin(q) \/ rejectLogin(q) \/ validateCredential(q)
    <3>1. ASSUME NEW d \in Nonces,
                 \/ Expire(d) \/ handlePasskeyLoginBegin(d)
                 \/ \E u \in Users : handlePasskeyRegisterBegin(d, u) \/ handleRecoveryChallenge(d, u)
                 \/ \E u \in Users, b \in Browsers : generateLightningChallenge(d, b, u)
                 \/ \E b \in Browsers : generateLightningChallenge(d, b, NoUser)
          PROVE  ended' = ended
      BY <3>1 DEF Expire, handlePasskeyLoginBegin, handlePasskeyRegisterBegin, handleRecoveryChallenge, generateLightningChallenge
    <3>2. ASSUME NEW d \in Nonces, NEW q \in Callers,
                 \/ handleLightningStatus(q, d) \/ GetWebAuthnSession(q, d)
                 \/ \E confirm \in {"confirm", "reject"} : handleLightningConfirm(q, d, confirm)
                 \/ \E w \in Wallets : handleLNURLAuthCallback(q, d, w)
          PROVE  ended' = ended
      BY <3>2 DEF handleLightningStatus, GetWebAuthnSession, handleLightningConfirm, handleLNURLAuthCallback
    <3>3. ASSUME NEW q \in Callers,
                 \/ CreateLightningKey(q) \/ GetLightningKeyByLinkingKey(q) \/ claimLightningChallenge(q)
                 \/ ConfirmLightningKey(q) \/ unlinkRejected(q) \/ DeleteWebAuthnSession(q) \/ Abandon(q)
          PROVE  ended' = ended
      BY <3>3 DEF CreateLightningKey, GetLightningKeyByLinkingKey, claimLightningChallenge, ConfirmLightningKey,
                  unlinkRejected, DeleteWebAuthnSession, Abandon
    <3>4. ASSUME NEW u \in Users, NEW w \in Wallets, handleLightningKeyByID(u, w) PROVE ended' = ended
      BY <3>4 DEF handleLightningKeyByID
    <3> QED BY <2>1, <3>1, <3>2, <3>3, <3>4, Zenon DEF ChallengeNext
  <2>3. ~\E d \in Nonces : ConsumeRecoveryChallenge(d)
    BY <2>0 DEF ConsumeRecoveryChallenge
  <2>4. PICK q \in Callers : completeLightningLogin(q) \/ rejectLogin(q) \/ validateCredential(q)
    BY <2>2, <2>3
  <2>5. q = p
    BY <2>0, <2>4 DEF completeLightningLogin, rejectLogin, validateCredential, Ends, Proceed, ChallengeTypeOK
  <2>6. completeLightningLogin(p)
    BY <2>0, <2>4, <2>5 DEF rejectLogin, validateCredential, Runs
  <2>7. /\ chal[c].st = "authenticated"
        /\ marker' = IF call[p].id # 0 THEN marker \cup {<<chal[c].by, call[p].id>>} ELSE marker
    BY <2>1, <2>6 DEF completeLightningLogin, ConsumeLightningChallenge
  <2>8. IF call[p].id = 0 THEN <<chal[c].by, chal[c].id>> \in marker ELSE call[p].id = chal[c].id
    BY <2>0, <2>7 DEF ChallengeInv, ConfirmInv
  <2> QED BY <2>7, <2>8
<1> QED BY <1>1, ChallengeInvariant, PTL DEF Spec, SeenLoginConfirmed

-----------------------------------------------------------------------------
(* The password and what it opens: AccountCustody.                         *)

\* The records that the actions make are requests.
LEMMA HandlingEdits ==
  ASSUME CustodyTypeOK
  PROVE  /\ NoAccount \in Rows /\ Missing \in Wraps /\ Server \in Wraps /\ Transit \in Wraps
         /\ Idle \in Handling /\ 0 \in Passwords
         /\ \A w \in Passwords : Under(w) \in Wraps /\ Under(w).by = "password" /\ Under(w).pw = w
         /\ \A op \in {"register", "change", "recover", "login", "mfa", "delete"}, pw \in Passwords,
               at \in {"provision", "list", "read", "setup", "on", "off"} : Starts(op, at, pw) \in Handling
         /\ \A h \in Handlers : req[h] \in Handling
<1> USE CustodyAssumption DEF Handling, Passwords, Rows
<1>1. NoAccount \in Rows /\ 0 \in Passwords
  BY DEF NoAccount
<1>2. Idle \in Handling
  BY <1>1 DEF Idle
<1>3. \A w \in Passwords : Under(w) \in Wraps /\ Under(w).by = "password" /\ Under(w).pw = w
  BY DEF Under, Wraps
<1>4. Missing \in Wraps /\ Server \in Wraps /\ Transit \in Wraps
  BY DEF Wraps
<1>5. ASSUME NEW op \in {"register", "change", "recover", "login", "mfa", "delete"}, NEW pw \in Passwords,
             NEW at \in {"provision", "list", "read", "setup", "on", "off"}
      PROVE  Starts(op, at, pw) \in Handling
  <2>2. op \in {"idle", "register", "change", "recover", "login", "mfa", "delete"}
    BY Zenon
  <2>3. at \in {"done", "provision", "key", "primary", "list", "read", "write", "restore", "vault",
                "setup", "on", "off", "login", "policy", "keys", "transit", "record"}
    BY Zenon
  <2>4. row \in Rows
    BY DEF CustodyTypeOK
  <2>5. \A q \in Handling : [q EXCEPT !.op = op] \in Handling
    BY <2>2
  <2>6. \A q \in Handling : [q EXCEPT !.at = at] \in Handling
    BY <2>3
  <2>7. \A q \in Handling : [q EXCEPT !.snap = row] \in Handling /\ [q EXCEPT !.new = pw] \in Handling
    BY <2>4
  <2> HIDE DEF Handling, Passwords, Rows
  <2>8. [[[[Idle EXCEPT !.op = op] EXCEPT !.at = at] EXCEPT !.snap = row] EXCEPT !.new = pw] \in Handling
    BY <1>2, <2>5, <2>6, <2>7, Zenon
  <2> QED BY <2>8 DEF Starts
<1>6. \A h \in Handlers : req[h] \in Handling
  BY DEF CustodyTypeOK
<1> QED BY <1>1, <1>2, <1>3, <1>4, <1>5, <1>6

\* A request, edited as the actions edit it, stays one.
LEMMA HandlingField ==
  ASSUME NEW q \in Handling
  PROVE  /\ \A at \in {"key", "write", "restore", "vault", "policy", "keys", "transit", "record"} :
              [q EXCEPT !.at = at] \in Handling
         /\ [q EXCEPT !.gone = TRUE] \in Handling /\ [q EXCEPT !.touch = TRUE] \in Handling
         /\ [q EXCEPT !.touch = FALSE] \in Handling
         /\ \A K \in SUBSET Keys, at \in {"primary", "write", "login"} :
              [q EXCEPT !.at = at, !.todo = K] \in Handling
         /\ \A r \in Rows : [q EXCEPT !.at = "write", !.snap = r] \in Handling
         /\ \A k \in Keys :
              /\ [q EXCEPT !.todo = @ \ {k}] \in Handling
              /\ [q EXCEPT !.todo = @ \ {k}, !.written = @ \cup {k}] \in Handling
              /\ [q EXCEPT !.written = @ \ {k}] \in Handling
              /\ [q EXCEPT !.written = {k}] \in Handling
         /\ \A k \in Keys, K \in SUBSET Keys : [q EXCEPT !.key = k, !.todo = K] \in Handling
<1> USE DEF Handling
<1>1. \A at \in {"key", "write", "restore", "vault", "policy", "keys", "transit", "record"} :
        [q EXCEPT !.at = at] \in Handling
  OBVIOUS
<1>2. /\ [q EXCEPT !.gone = TRUE] \in Handling /\ [q EXCEPT !.touch = TRUE] \in Handling
      /\ [q EXCEPT !.touch = FALSE] \in Handling
  OBVIOUS
<1>3. \A K \in SUBSET Keys, at \in {"primary", "write", "login"} : [q EXCEPT !.at = at, !.todo = K] \in Handling
  OBVIOUS
<1>4. \A r \in Rows : [q EXCEPT !.at = "write", !.snap = r] \in Handling
  OBVIOUS
<1>5. ASSUME NEW k \in Keys
      PROVE  /\ [q EXCEPT !.todo = @ \ {k}] \in Handling
             /\ [q EXCEPT !.todo = @ \ {k}, !.written = @ \cup {k}] \in Handling
  <2>1. q.todo \ {k} \in SUBSET Keys /\ q.written \cup {k} \in SUBSET Keys
    OBVIOUS
  <2> QED BY <2>1
<1>6. ASSUME NEW k \in Keys
      PROVE  /\ [q EXCEPT !.written = @ \ {k}] \in Handling
             /\ [q EXCEPT !.written = {k}] \in Handling
  <2>1. q.written \ {k} \in SUBSET Keys /\ {k} \in SUBSET Keys
    OBVIOUS
  <2> QED BY <2>1
<1>7. \A k \in Keys, K \in SUBSET Keys : [q EXCEPT !.key = k, !.todo = K] \in Handling
  OBVIOUS
<1> HIDE DEF Handling
<1> QED BY <1>1, <1>2, <1>3, <1>4, <1>5, <1>6, <1>7

\* A step of request h to c, which may be nothing it had before.
LEMMA RequestStep ==
  ASSUME CustodyTypeOK, NEW h \in Handlers, NEW c \in Handling, req' = [req EXCEPT ![h] = c]
  PROVE  req' \in [Handlers -> Handling] /\ req'[h] = c /\ \A g \in Handlers \ {h} : req'[g] = req[g]
BY DEF CustodyTypeOK

\* The steps with nothing to say of req, and of single variables, keep the types.
LEMMA CustodyTypeStep ==
  ASSUME CustodyInv, CustodyNext
  PROVE  CustodyTypeOK'
<1> USE CustodyAssumption
<1>0. CustodyTypeOK
  BY DEF CustodyInv
<1>a. /\ \A h \in Handlers : req[h] \in Handling
      /\ NoAccount \in Rows /\ Missing \in Wraps /\ Server \in Wraps /\ Transit \in Wraps /\ Idle \in Handling
      /\ \A w \in Passwords : Under(w) \in Wraps
  BY <1>0, HandlingEdits
<1> DEFINE rest == {retained', overlapped', broken', behind', lost'} \subseteq BOOLEAN
                   /\ begun' \in 0..MaxHandled /\ custodyFaults' \in 0..MaxCustodyFaults
           data == /\ row' \in Rows /\ wrap' \in [Keys -> Wraps] /\ primary' \in Keys \cup {NoKey}
                   /\ vault' \in [login : Passwords, policy : BOOLEAN, transit : BOOLEAN, mayDelete : BOOLEAN]
                   /\ passwords' \in Passwords /\ committed' \in Passwords /\ stranded' \subseteq Keys
<1>b. ASSUME data, rest, req' \in [Handlers -> Handling] PROVE CustodyTypeOK'
  BY <1>b DEF CustodyTypeOK
<1>c. ASSUME NEW h \in Handlers, NEW c \in Handling, Begin(h, c)
      PROVE  req' \in [Handlers -> Handling] /\ begun' \in 0..MaxHandled /\ overlapped' \in BOOLEAN
  BY <1>0, <1>c DEF Begin, Handled, CustodyTypeOK
<1>d. ASSUME NEW h \in Handlers, NEW c \in Handling, Become(h, c)
      PROVE  req' \in [Handlers -> Handling] /\ begun' \in 0..MaxHandled
  BY <1>0, <1>d DEF Become, CustodyTypeOK
<1>e. ASSUME NewPassword PROVE passwords' \in Passwords /\ passwords' = passwords + 1 /\ passwords + 1 \in Passwords
  BY <1>0, <1>e DEF NewPassword, CustodyTypeOK, Passwords
<1>f. /\ row \in Rows /\ wrap \in [Keys -> Wraps] /\ primary \in Keys \cup {NoKey}
      /\ vault \in [login : Passwords, policy : BOOLEAN, transit : BOOLEAN, mayDelete : BOOLEAN]
      /\ passwords \in Passwords /\ committed \in Passwords /\ stranded \subseteq Keys
      /\ {retained, overlapped, broken, behind, lost} \subseteq BOOLEAN
      /\ begun \in 0..MaxHandled /\ custodyFaults \in 0..MaxCustodyFaults
  BY <1>0 DEF CustodyTypeOK
<1>g. \A h \in Handlers : /\ Succeeds(h) => custodyFaults' \in 0..MaxCustodyFaults
                          /\ Fails(h) => custodyFaults' \in 0..MaxCustodyFaults
  BY <1>f DEF Succeeds, Fails
<1>h. ASSUME NEW h \in Handlers, NEW k \in Keys, NEW w \in Wraps,
             UpdateKeyEncryption(h, k, w) \/ UpdateFails(h, k)
      PROVE  wrap' \in [Keys -> Wraps] /\ custodyFaults' \in 0..MaxCustodyFaults
  BY <1>f, <1>g, <1>h DEF UpdateKeyEncryption, UpdateFails
<1>i. \A h \in Handlers, at \in {"key", "write", "restore", "vault", "policy", "keys", "transit", "record"} :
        Goto(h, at) => req' \in [Handlers -> Handling] /\ begun' \in 0..MaxHandled
  BY <1>a, <1>d, HandlingField DEF Goto
<1>j. \A h \in Handlers : Return(h) => req' \in [Handlers -> Handling] /\ begun' \in 0..MaxHandled
  BY <1>a, <1>d DEF Return
<1>k. PassphraseEncrypted \in SUBSET Keys /\ Owned \in SUBSET Keys /\ {k \in Keys : wrap[k].by = "server"} \in SUBSET Keys
  BY DEF PassphraseEncrypted, Owned
<1>l. \A h \in Handlers : req[h].snap \in Rows /\ req[h].new \in Passwords /\ req[h].key \in Keys \cup {NoKey}
                          /\ req[h].todo \in SUBSET Keys /\ req[h].written \in SUBSET Keys
  BY <1>a DEF Handling
<1>m. \A h \in Handlers, pw \in Passwords, op \in {"register", "change", "recover", "login", "mfa", "delete"},
         at \in {"provision", "list", "read", "setup", "on", "off"} : Starts(op, at, pw) \in Handling
  BY <1>0, HandlingEdits
<1> USE DEF rowVars, histVars
<1> HIDE DEF data, rest
<1>1. ASSUME NEW h \in Handlers, Disconnect(h) PROVE CustodyTypeOK'
  <2>1. [req[h] EXCEPT !.gone = TRUE] \in Handling
    BY <1>a, HandlingField
  <2>2. data /\ rest
    BY <1>1, <1>f, <1>d, <2>1 DEF data, rest, Disconnect
  <2> QED BY <1>1, <1>b, <1>d, <2>1, <2>2 DEF Disconnect
<1>2. ASSUME NEW h \in Handlers, Crash(h) PROVE CustodyTypeOK'
  <2>1. data
    BY <1>2, <1>f DEF data, Crash
  <2>2. rest
    BY <1>2, <1>f, <1>j DEF rest, Crash
  <2> QED BY <1>2, <1>b, <1>j, <2>1, <2>2 DEF Crash
<1>3. ASSUME NEW h \in Handlers, handleUserRegister(h) PROVE CustodyTypeOK'
  <2>0. 1 \in Passwords
    BY <1>3, <1>e DEF handleUserRegister
  <2>1. Starts("register", "provision", 1) \in Handling
    BY <1>m, <2>0
  <2>2. data
    BY <1>3, <1>e, <1>f, <1>a, <2>0 DEF data, handleUserRegister, Rows
  <2>3. rest
    BY <1>3, <1>c, <1>f, <2>1 DEF rest, handleUserRegister
  <2> QED BY <1>3, <1>b, <1>c, <2>1, <2>2, <2>3 DEF handleUserRegister
<1>4. ASSUME NEW h \in Handlers, ProvisionUser(h) PROVE CustodyTypeOK'
  <2>1. vault' \in [login : Passwords, policy : BOOLEAN, transit : BOOLEAN, mayDelete : BOOLEAN]
    BY <1>4, <1>f, <1>l DEF ProvisionUser, CreateUserpassAccount, CreatePolicy, CreateTransitKey
  <2>2. data
    BY <1>4, <1>f, <2>1 DEF data, ProvisionUser
  <2>3. rest
    BY <1>4, <1>f, <1>g, <1>i DEF rest, ProvisionUser
  <2> QED BY <1>4, <1>b, <1>i, <2>2, <2>3 DEF ProvisionUser
<1>5. ASSUME NEW h \in Handlers, NEW k \in Keys, createInitialSigningKey(h, k) PROVE CustodyTypeOK'
  <2>1. req' \in [Handlers -> Handling] /\ begun' \in 0..MaxHandled
    <3>1. [req[h] EXCEPT !.at = "primary", !.todo = {k}] \in Handling
      BY <1>a, HandlingField
    <3> QED BY <1>5, <1>d, <1>j, <3>1 DEF createInitialSigningKey
  <2>2. wrap' \in [Keys -> Wraps]
    BY <1>5, <1>a, <1>f, <1>l DEF createInitialSigningKey
  <2>3. data /\ rest
    BY <1>5, <1>f, <1>g, <2>1, <2>2 DEF data, rest, createInitialSigningKey
  <2> QED BY <1>b, <2>1, <2>3
<1>6. ASSUME NEW h \in Handlers, SetInitialPrimary(h) PROVE CustodyTypeOK'
  <2>1. data /\ rest
    BY <1>6, <1>f, <1>g, <1>j, <1>l DEF data, rest, SetInitialPrimary
  <2> QED BY <1>6, <1>b, <1>j, <2>1 DEF SetInitialPrimary
<1>7. ASSUME NEW h \in Handlers, handleUserLogin(h) PROVE CustodyTypeOK'
  <2>1. [Starts("login", "list", row.pw) EXCEPT !.touch = TRUE] \in Handling
    BY <1>f, <1>m, HandlingField DEF Rows
  <2>2. data /\ rest
    BY <1>7, <1>c, <1>f, <2>1 DEF data, rest, handleUserLogin
  <2> QED BY <1>7, <1>b, <1>c, <2>1, <2>2 DEF handleUserLogin
<1>8. ASSUME NEW h \in Handlers, lastLogin(h) PROVE CustodyTypeOK'
  <2>1. [req[h] EXCEPT !.touch = FALSE] \in Handling
    BY <1>a, HandlingField
  <2>2. data /\ rest
    BY <1>8, <1>d, <1>f, <1>g, <1>l, <2>1 DEF data, rest, lastLogin, UpdateUser
  <2> QED BY <1>8, <1>b, <1>d, <2>1, <2>2 DEF lastLogin
<1>9. ASSUME NEW h \in Handlers, ListLegacy(h) PROVE CustodyTypeOK'
  <2>1. [req[h] EXCEPT !.at = "write", !.todo = {k \in Keys : wrap[k].by = "server"}] \in Handling
    BY <1>a, <1>k, HandlingField
  <2>2. data /\ rest
    BY <1>9, <1>d, <1>f, <2>1 DEF data, rest, ListLegacy
  <2> QED BY <1>9, <1>b, <1>d, <2>1, <2>2 DEF ListLegacy
<1>10. ASSUME NEW h \in Handlers, NEW k \in Keys, rewrapLegacyLocalKeys(h, k) PROVE CustodyTypeOK'
  <2>1. [req[h] EXCEPT !.todo = @ \ {k}] \in Handling
    BY <1>a, HandlingField
  <2>2. data /\ rest
    BY <1>10, <1>a, <1>d, <1>f, <1>h, <1>l, <2>1 DEF data, rest, rewrapLegacyLocalKeys
  <2> QED BY <1>10, <1>b, <1>d, <2>1, <2>2 DEF rewrapLegacyLocalKeys
<1>11. ASSUME NEW h \in Handlers, LoginEnds(h) \/ ListFails(h) \/ ChangeFailed(h) PROVE CustodyTypeOK'
  <2>1. data /\ rest
    BY <1>11, <1>f, <1>g, <1>j DEF data, rest, LoginEnds, ListFails, ChangeFailed
  <2> QED BY <1>11, <1>b, <1>j, <2>1 DEF LoginEnds, ListFails, ChangeFailed
<1>12. ASSUME NEW h \in Handlers, handleUserChangePassword(h) PROVE CustodyTypeOK'
  <2>1. Starts("change", "list", passwords + 1) \in Handling
    BY <1>12, <1>e, <1>m DEF handleUserChangePassword
  <2>2. data /\ rest
    BY <1>12, <1>c, <1>e, <1>f, <2>1 DEF data, rest, handleUserChangePassword
  <2> QED BY <1>12, <1>b, <1>c, <2>1, <2>2 DEF handleUserChangePassword
<1>13. ASSUME NEW h \in Handlers, ReWrap(h) PROVE CustodyTypeOK'
  <2>1. [req[h] EXCEPT !.at = "write", !.todo = PassphraseEncrypted] \in Handling
    BY <1>a, <1>k, HandlingField
  <2>2. req' \in [Handlers -> Handling] /\ begun' \in 0..MaxHandled /\ Succeeds(h)
    BY <1>13, <1>d, <1>j, <2>1 DEF ReWrap
  <2>3. data /\ rest
    BY <1>13, <1>f, <1>g, <2>2 DEF data, rest, ReWrap
  <2> QED BY <1>b, <2>2, <2>3
<1>14. ASSUME NEW h \in Handlers, NEW k \in Keys, rewrapPassphraseKeys(h, k) PROVE CustodyTypeOK'
  <2>1. [req[h] EXCEPT !.todo = @ \ {k}, !.written = @ \cup {k}] \in Handling
    BY <1>a, HandlingField
  <2>2. req' \in [Handlers -> Handling] /\ begun' \in 0..MaxHandled
    BY <1>14, <1>d, <1>i, <2>1 DEF rewrapPassphraseKeys
  <2>3. data /\ rest
    BY <1>14, <1>a, <1>f, <1>h, <1>l, <2>2 DEF data, rest, rewrapPassphraseKeys
  <2> QED BY <1>b, <2>2, <2>3
<1>15. ASSUME NEW h \in Handlers, commitPassword(h) PROVE CustodyTypeOK'
  <2>1. [req[h].snap EXCEPT !.pw = req[h].new] \in Rows
    BY <1>l DEF Rows
  <2>2. req' \in [Handlers -> Handling] /\ begun' \in 0..MaxHandled
    BY <1>15, <1>i DEF commitPassword
  <2>3. data /\ rest
    BY <1>15, <1>f, <1>g, <1>l, <2>1, <2>2 DEF data, rest, commitPassword, UpdateUser
  <2> QED BY <1>b, <2>2, <2>3
<1>16. ASSUME NEW h \in Handlers, NEW k \in Keys, restore(h, k) PROVE CustodyTypeOK'
  <2>1. [req[h] EXCEPT !.written = @ \ {k}] \in Handling
    BY <1>a, HandlingField
  <2>2. req[h].snap.pw \in Passwords
    BY <1>l DEF Rows
  <2>3. req' \in [Handlers -> Handling] /\ begun' \in 0..MaxHandled
    BY <1>16, <1>d, <2>1 DEF restore
  <2>4. data
    BY <1>16, <1>a, <1>f, <1>h, <2>2 DEF data, restore
  <2>5. rest
    BY <1>16, <1>a, <1>f, <1>h, <2>2, <2>3 DEF rest, restore
  <2> QED BY <1>b, <2>3, <2>4, <2>5
<1>17. ASSUME NEW h \in Handlers, resetVaultCredential(h) PROVE CustodyTypeOK'
  <2>1. vault' \in [login : Passwords, policy : BOOLEAN, transit : BOOLEAN, mayDelete : BOOLEAN]
    BY <1>17, <1>f, <1>l DEF resetVaultCredential, UpdateUserpassPassword
  <2>2. data /\ rest
    BY <1>17, <1>f, <1>g, <1>j, <2>1 DEF data, rest, resetVaultCredential
  <2> QED BY <1>17, <1>b, <1>j, <2>2 DEF resetVaultCredential
<1>18. ASSUME NEW h \in Handlers, NEW k \in Keys, handleRecoveryComplete(h, k) PROVE CustodyTypeOK'
  <2>1. Starts("recover", "read", passwords + 1) \in Handling
    BY <1>18, <1>e, <1>m DEF handleRecoveryComplete
  <2>2. [Starts("recover", "read", passwords + 1) EXCEPT !.key = k, !.todo = PassphraseEncrypted] \in Handling
    BY <1>k, <2>1, HandlingField
  <2>3. data /\ rest
    BY <1>18, <1>c, <1>e, <1>f, <2>2 DEF data, rest, handleRecoveryComplete
  <2> QED BY <1>18, <1>b, <1>c, <2>2, <2>3 DEF handleRecoveryComplete
<1>19. ASSUME NEW h \in Handlers, GetUser(h) PROVE CustodyTypeOK'
  <2>1. [req[h] EXCEPT !.at = "write", !.snap = row] \in Handling
    BY <1>a, <1>f, HandlingField
  <2>2. req' \in [Handlers -> Handling] /\ begun' \in 0..MaxHandled
    BY <1>19, <1>d, <1>j, <2>1 DEF GetUser
  <2>3. data /\ rest
    BY <1>19, <1>f, <2>2 DEF data, rest, GetUser
  <2> QED BY <1>b, <2>2, <2>3
<1>20. ASSUME NEW h \in Handlers, rewrapKeyUnderPassphrase(h) PROVE CustodyTypeOK'
  <2>1. req[h].key \in Keys
    BY <1>20 DEF rewrapKeyUnderPassphrase, At, CustodyInv, StartInv
  <2>2. [req[h] EXCEPT !.written = {req[h].key}] \in Handling
    BY <1>a, <2>1, HandlingField
  <2>3. req' \in [Handlers -> Handling] /\ begun' \in 0..MaxHandled
    BY <1>20, <1>d, <1>j, <2>2 DEF rewrapKeyUnderPassphrase
  <2>4. wrap' \in [Keys -> Wraps] /\ custodyFaults' \in 0..MaxCustodyFaults
    BY <1>20, <1>a, <1>h, <1>l, <2>1 DEF rewrapKeyUnderPassphrase
  <2>5. data /\ rest
    BY <1>20, <1>f, <2>3, <2>4 DEF data, rest, rewrapKeyUnderPassphrase
  <2> QED BY <1>b, <2>3, <2>5
<1>21. ASSUME NEW h \in Handlers, commitRecovery(h) PROVE CustodyTypeOK'
  <2>1. [req[h].snap EXCEPT !.pw = req[h].new] \in Rows
    BY <1>l DEF Rows
  <2>2. req' \in [Handlers -> Handling] /\ begun' \in 0..MaxHandled
    BY <1>21, <1>i, <1>j DEF commitRecovery
  <2>3. data
    BY <1>21, <1>f, <1>l, <2>1 DEF data, commitRecovery, UpdateUser
  <2>4. rest
    BY <1>21, <1>f, <1>g, <2>2 DEF rest, commitRecovery
  <2> QED BY <1>b, <2>2, <2>3, <2>4
<1>22. ASSUME NEW h \in Handlers, NEW from, NEW to \in {"setup", "on", "off"}, MFA(h, from, to) PROVE CustodyTypeOK'
  <2>1. Starts("mfa", to, 0) \in Handling
    BY <1>0, <1>m, HandlingEdits
  <2>2. data /\ rest
    BY <1>22, <1>c, <1>f, <2>1 DEF data, rest, MFA
  <2> QED BY <1>22, <1>b, <1>c, <2>1, <2>2 DEF MFA
<1>23. ASSUME NEW h \in Handlers, saveMFA(h) PROVE CustodyTypeOK'
  <2>1. [req[h].snap EXCEPT !.mfa = req[h].at] \in Rows
    BY <1>23, <1>l DEF saveMFA, CustodyInv, StartInv, Rows
  <2>2. req' \in [Handlers -> Handling] /\ begun' \in 0..MaxHandled
    BY <1>23, <1>j DEF saveMFA
  <2>3. data /\ rest
    BY <1>23, <1>f, <1>g, <2>1, <2>2 DEF data, rest, saveMFA, UpdateUser
  <2> QED BY <1>b, <2>2, <2>3
<1>24. ASSUME NEW h \in Handlers, handleSelfDelete(h) PROVE CustodyTypeOK'
  <2>1. Starts("delete", "list", 0) \in Handling
    BY <1>0, <1>m, HandlingEdits
  <2>2. data /\ rest
    BY <1>24, <1>c, <1>f, <2>1 DEF data, rest, handleSelfDelete
  <2> QED BY <1>24, <1>b, <1>c, <2>1, <2>2 DEF handleSelfDelete
<1>25. ASSUME NEW h \in Handlers, revokeAll(h) PROVE CustodyTypeOK'
  <2>1. [req[h] EXCEPT !.at = "login", !.todo = Owned] \in Handling
    BY <1>a, <1>k, HandlingField
  <2>2. req' \in [Handlers -> Handling] /\ begun' \in 0..MaxHandled
    BY <1>25, <1>d, <1>j, <2>1 DEF revokeAll
  <2>3. data /\ rest
    BY <1>25, <1>f, <1>g, <2>2 DEF data, rest, revokeAll
  <2> QED BY <1>b, <2>2, <2>3
<1>26. ASSUME NEW h \in Handlers, DeleteUserpassAccount(h) \/ DeletePolicy(h) PROVE CustodyTypeOK'
  <2>1. req' \in [Handlers -> Handling] /\ begun' \in 0..MaxHandled /\ custodyFaults' \in 0..MaxCustodyFaults
    BY <1>26, <1>g, <1>i, <1>j DEF DeleteUserpassAccount, DeletePolicy, deleteStep
  <2>2. vault' \in [login : Passwords, policy : BOOLEAN, transit : BOOLEAN, mayDelete : BOOLEAN]
    BY <1>0, <1>26, <1>f, HandlingEdits DEF DeleteUserpassAccount, DeletePolicy, Deleted
  <2>3. data /\ rest
    BY <1>26, <1>f, <2>1, <2>2 DEF data, rest, DeleteUserpassAccount, DeletePolicy
  <2> QED BY <1>b, <2>1, <2>3
<1>27. ASSUME NEW h \in Handlers, NEW k \in Keys, DeleteKey(h, k) PROVE CustodyTypeOK'
  <2>1. [req[h] EXCEPT !.todo = @ \ {k}] \in Handling
    BY <1>a, HandlingField
  <2>2. req' \in [Handlers -> Handling] /\ begun' \in 0..MaxHandled
    BY <1>27, <1>d, <1>j, <2>1 DEF DeleteKey
  <2>3. data
    BY <1>27, <1>a, <1>f DEF data, DeleteKey
  <2>4. rest
    BY <1>27, <1>f, <1>g, <2>2 DEF rest, DeleteKey
  <2> QED BY <1>b, <2>2, <2>3, <2>4
<1>28. ASSUME NEW h \in Handlers, DeleteUser(h) PROVE CustodyTypeOK'
  <2>2. req' \in [Handlers -> Handling] /\ begun' \in 0..MaxHandled
    BY <1>28, <1>i, <1>j DEF DeleteUser
  <2>3. data
    BY <1>28, <1>a, <1>f DEF data, DeleteUser
  <2>4. rest
    BY <1>28, <1>f, <1>g, <2>2 DEF rest, DeleteUser
  <2> QED BY <1>b, <2>2, <2>3, <2>4
<1>29. ASSUME NEW h \in Handlers, DeleteTransitKey(h) \/ RecordRetainedDeletion(h) PROVE CustodyTypeOK'
  <2>2. req' \in [Handlers -> Handling] /\ begun' \in 0..MaxHandled
    BY <1>29, <1>i, <1>j DEF DeleteTransitKey, RecordRetainedDeletion
  <2>3. data
    BY <1>29, <1>f DEF data, DeleteTransitKey, RecordRetainedDeletion
  <2>4. rest
    BY <1>29, <1>f, <1>g, <2>2 DEF rest, DeleteTransitKey, RecordRetainedDeletion
  <2> QED BY <1>b, <2>2, <2>3, <2>4
<1>30. ASSUME NEW k \in Keys, handleCreateKey(k) \/ handleDeleteKey(k) \/ handleSetPrimaryKey(k) PROVE CustodyTypeOK'
  <2>1. wrap' \in [Keys -> Wraps]
    BY <1>30, <1>a, <1>f DEF handleCreateKey, handleDeleteKey, handleSetPrimaryKey, getUserVaultEncryptor
  <2>2. data
    BY <1>30, <1>f, <2>1 DEF data, handleCreateKey, handleDeleteKey, handleSetPrimaryKey
  <2>3. rest
    BY <1>30, <1>f DEF rest, handleCreateKey, handleDeleteKey, handleSetPrimaryKey, Handled
  <2>4. UNCHANGED req
    BY <1>30 DEF handleCreateKey, handleDeleteKey, handleSetPrimaryKey
  <2> QED BY <1>0, <1>b, <2>2, <2>3, <2>4 DEF CustodyTypeOK
<1>31. CASE sweepRetainedDeletions
  <2>1. custodyFaults' \in 0..MaxCustodyFaults
    <3>1. \/ custodyFaults' = custodyFaults
          \/ custodyFaults < MaxCustodyFaults /\ custodyFaults' = custodyFaults + 1
      BY <1>31 DEF sweepRetainedDeletions
    <3> QED BY <3>1, <1>f
  <2>2. data
    BY <1>31, <1>f DEF data, sweepRetainedDeletions
  <2>3. UNCHANGED <<req, begun, passwords, histVars>> /\ retained' \in BOOLEAN
    BY <1>31, <1>f DEF sweepRetainedDeletions
  <2>4. rest
    BY <1>f, <2>1, <2>3 DEF rest
  <2> QED BY <1>0, <1>b, <2>2, <2>3, <2>4 DEF CustodyTypeOK
<1>32. ASSUME NEW h \in Handlers, handleMFASetup(h) \/ handleMFAVerify(h) \/ handleMFADisable(h) PROVE CustodyTypeOK'
  BY <1>22, <1>32 DEF handleMFASetup, handleMFAVerify, handleMFADisable
<1>33. CASE changeSignerPolicy
  <2>1. data
    BY <1>33, <1>f DEF data, changeSignerPolicy
  <2>2. rest
    BY <1>33, <1>f DEF rest, changeSignerPolicy
  <2>3. UNCHANGED req
    BY <1>33 DEF changeSignerPolicy
  <2> QED BY <1>0, <1>b, <2>1, <2>2, <2>3 DEF CustodyTypeOK
<1> QED BY <1>1, <1>2, <1>3, <1>4, <1>5, <1>6, <1>7, <1>8, <1>9, <1>10, <1>11, <1>12, <1>13, <1>14, <1>15, <1>16,
           <1>17, <1>18, <1>19, <1>20, <1>21, <1>23, <1>24, <1>25, <1>26, <1>27, <1>28, <1>29, <1>30, <1>31, <1>32, <1>33
        DEF CustodyNext

\* What a request keeps from one step to the next.
Onward(q, r) ==
  \/ r = Idle
  \/ /\ r.op = q.op /\ r.new = q.new /\ r.key = q.key
     /\ r.touch => q.touch
     /\ r.at = "vault" => q.at = "vault" \/ SetsPassword(q.op)
     /\ r.at \in {"transit", "record"} => r.at = q.at \/ q.op = "delete"
     /\ q.op = "mfa" => r.at = q.at
     /\ r.snap = q.snap \/ (r.snap = row /\ row.pw # 0)

\* Request h goes on, or ends; the others stay where they are.
Moves(h) ==
  /\ req[h].op # "idle" /\ Onward(req[h], req'[h])
  /\ \A g \in Handlers \ {h} : req'[g] = req[g]
  /\ UNCHANGED <<passwords, overlapped>>

\* What a request is when it starts.
Fresh(q) ==
  /\ q.op # "idle" /\ q.at \notin {"vault", "transit", "record"} /\ q.written = {} /\ q.snap = row
  /\ q.touch => q.op = "login"
  /\ q.op = "login" => q.at = "list" /\ q.new = row.pw
  /\ q.op = "mfa" => q.at \in {"setup", "on", "off"}
  /\ q.op \in {"change", "delete"} => q.at = "list"
  /\ q.op = "recover" => q.at = "read" /\ q.key \in Keys /\ q.todo = PassphraseEncrypted
  /\ SetsPassword(q.op) => q.new = passwords'

\* Request h starts: a registration, or one of an account that is there.
Begins(h) ==
  /\ req[h] = Idle /\ Fresh(req'[h])
  /\ \A g \in Handlers \ {h} : req'[g] = req[g]
  /\ overlapped => overlapped'
  /\ ~overlapped' => \A g \in Handlers : req[g] # Idle => ~SetsPassword(req'[h].op) /\ ~SetsPassword(req[g].op)
  /\ passwords' \in {passwords, passwords + 1}
  /\ SetsPassword(req'[h].op) => passwords' = passwords + 1
  /\ IF req'[h].op = "register" THEN passwords = 0 /\ passwords' = 1 /\ row'.pw = 1 /\ req'[h].new = 1
                                ELSE Registered /\ UNCHANGED row
  /\ UNCHANGED <<vault, wrap, stranded, broken, behind>>

\* The handlers that start a request.
Starting(h) ==
  \/ handleUserRegister(h) \/ handleUserLogin(h) \/ handleUserChangePassword(h) \/ handleSelfDelete(h)
  \/ handleMFASetup(h) \/ handleMFAVerify(h) \/ handleMFADisable(h)
  \/ \E k \in Keys : handleRecoveryComplete(h, k)

\* What a new request is, field by field.
LEMMA StartsFields ==
  \A op, at, new :
    LET q == Starts(op, at, new)
    IN  /\ q.op = op /\ q.at = at /\ q.new = new /\ q.snap = row /\ q.written = {} /\ ~q.touch
        /\ LET t == [q EXCEPT !.touch = TRUE]
           IN  t.op = op /\ t.at = at /\ t.new = new /\ t.snap = row /\ t.written = {}
        /\ \A k, K : LET t == [q EXCEPT !.key = k, !.todo = K]
                     IN  /\ t.op = op /\ t.at = at /\ t.new = new /\ t.snap = row /\ t.written = {} /\ ~t.touch
                         /\ t.key = k /\ t.todo = K
BY DEF Starts, Idle

\* The handlers that start a request start it alike.
LEMMA BeginsStep ==
  ASSUME CustodyTypeOK, NEW h \in Handlers, Starting(h)
  PROVE  Begins(h)
<1> USE StartsFields
<1>1. ASSUME NEW c, Begin(h, c)
      PROVE  /\ req[h] = Idle /\ req'[h] = c /\ \A g \in Handlers \ {h} : req'[g] = req[g]
             /\ overlapped => overlapped'
             /\ ~overlapped' => \A g \in Handlers : req[g] # Idle => ~SetsPassword(c.op) /\ ~SetsPassword(req[g].op)
  BY <1>1 DEF Begin, CustodyTypeOK
<1>2. passwords \in Nat
  BY CustodyAssumption DEF CustodyTypeOK, Passwords
<1>3. CASE handleUserRegister(h)
  <2>1. passwords = 0 /\ passwords' = 1 /\ row'.pw = 1
    BY <1>3 DEF handleUserRegister, NewPassword, NoAccount
  <2> DEFINE c == Starts("register", "provision", 1)
  <2>2. Begin(h, c) /\ UNCHANGED <<vault, wrap, stranded, broken, behind>>
    BY <1>3 DEF handleUserRegister
  <2>3. c.op = "register" /\ c.at = "provision" /\ c.new = 1 /\ c.snap = row /\ c.written = {} /\ ~c.touch
    OBVIOUS
  <2> HIDE DEF c
  <2> QED BY <1>1, <2>1, <2>2, <2>3 DEF Begins, Fresh, SetsPassword
<1>4. CASE handleUserLogin(h)
  <2> DEFINE c == [Starts("login", "list", row.pw) EXCEPT !.touch = TRUE]
  <2>1. Begin(h, c) /\ Registered /\ UNCHANGED <<row, passwords, vault, wrap, stranded, broken, behind>>
    BY <1>4 DEF handleUserLogin, rowVars
  <2>2. c.op = "login" /\ c.at = "list" /\ c.new = row.pw /\ c.snap = row /\ c.written = {}
    OBVIOUS
  <2> HIDE DEF c
  <2> QED BY <1>1, <2>1, <2>2 DEF Begins, Fresh, SetsPassword
<1>5. CASE handleUserChangePassword(h)
  BY <1>1, <1>2, <1>5 DEF handleUserChangePassword, NewPassword, Begins, Fresh, SetsPassword, rowVars
<1>6. CASE handleSelfDelete(h)
  BY <1>1, <1>6 DEF handleSelfDelete, Begins, Fresh, SetsPassword, rowVars
<1>7. CASE handleMFASetup(h) \/ handleMFAVerify(h) \/ handleMFADisable(h)
  <2>1. \E to \in {"setup", "on", "off"}, from \in SUBSET {"setup", "on", "off"} : MFA(h, from, to)
    BY <1>7 DEF handleMFASetup, handleMFAVerify, handleMFADisable
  <2>2. PICK to \in {"setup", "on", "off"}, from \in SUBSET {"setup", "on", "off"} : MFA(h, from, to)
    BY <2>1
  <2> QED BY <1>1, <2>2 DEF MFA, Begins, Fresh, SetsPassword, rowVars
<1>8. CASE \E k \in Keys : handleRecoveryComplete(h, k)
  <2>1. PICK k \in Keys : handleRecoveryComplete(h, k)
    BY <1>8
  <2> DEFINE c == [Starts("recover", "read", passwords + 1) EXCEPT !.key = k, !.todo = PassphraseEncrypted]
  <2>2. Begin(h, c) /\ Registered /\ passwords' = passwords + 1 /\ UNCHANGED <<row, vault, wrap, stranded, broken, behind>>
    BY <2>1 DEF handleRecoveryComplete, NewPassword
  <2>3. /\ c.op = "recover" /\ c.at = "read" /\ c.new = passwords + 1 /\ c.snap = row /\ c.written = {} /\ ~c.touch
        /\ c.key = k /\ c.todo = PassphraseEncrypted
    OBVIOUS
  <2> HIDE DEF c
  <2> QED BY <1>1, <2>2, <2>3 DEF Begins, Fresh, SetsPassword
<1> QED BY <1>3, <1>4, <1>5, <1>6, <1>7, <1>8 DEF Starting

\* The steps of a request in progress.
Working(h) ==
  \/ Disconnect(h) \/ Crash(h) \/ ProvisionUser(h) \/ SetInitialPrimary(h)
  \/ lastLogin(h) \/ ListLegacy(h) \/ LoginEnds(h)
  \/ ReWrap(h) \/ ListFails(h) \/ commitPassword(h) \/ ChangeFailed(h) \/ resetVaultCredential(h)
  \/ GetUser(h) \/ rewrapKeyUnderPassphrase(h) \/ commitRecovery(h) \/ saveMFA(h)
  \/ revokeAll(h) \/ DeleteUserpassAccount(h) \/ DeletePolicy(h)
  \/ DeleteUser(h) \/ DeleteTransitKey(h) \/ RecordRetainedDeletion(h)
  \/ \E k \in Keys : \/ createInitialSigningKey(h, k) \/ rewrapLegacyLocalKeys(h, k)
                     \/ rewrapPassphraseKeys(h, k) \/ restore(h, k) \/ DeleteKey(h, k)

\* The records that the actions make from a request carry it on.
LEMMA OnwardEdits ==
  ASSUME NEW q \in Handling
  PROVE  /\ Onward(q, Idle)
         /\ \A at : (at = "vault" => SetsPassword(q.op)) /\ (at \in {"transit", "record"} => q.op = "delete") /\ q.op # "mfa"
                 => Onward(q, [q EXCEPT !.at = at])
         /\ Onward(q, [q EXCEPT !.gone = TRUE]) /\ Onward(q, [q EXCEPT !.touch = FALSE])
         /\ q.op # "mfa" => \A K, at : at \in {"primary", "write", "login"} => Onward(q, [q EXCEPT !.at = at, !.todo = K])
         /\ q.op # "mfa" /\ row.pw # 0 => Onward(q, [q EXCEPT !.at = "write", !.snap = row])
         /\ \A k : /\ Onward(q, [q EXCEPT !.todo = @ \ {k}])
                     /\ Onward(q, [q EXCEPT !.todo = @ \ {k}, !.written = @ \cup {k}])
                     /\ Onward(q, [q EXCEPT !.written = @ \ {k}])
                     /\ Onward(q, [q EXCEPT !.written = {k}])
<1> USE DEF Onward, Handling
<1>1. /\ Onward(q, Idle)
      /\ Onward(q, [q EXCEPT !.gone = TRUE]) /\ Onward(q, [q EXCEPT !.touch = FALSE])
  OBVIOUS
<1>2. \A at : (at = "vault" => SetsPassword(q.op)) /\ (at \in {"transit", "record"} => q.op = "delete") /\ q.op # "mfa"
                 => Onward(q, [q EXCEPT !.at = at])
  OBVIOUS
<1>3. q.op # "mfa" => \A K, at : at \in {"primary", "write", "login"} => Onward(q, [q EXCEPT !.at = at, !.todo = K])
  OBVIOUS
<1>4. q.op # "mfa" /\ row.pw # 0 => Onward(q, [q EXCEPT !.at = "write", !.snap = row])
  OBVIOUS
<1>5. ASSUME NEW k
      PROVE  /\ Onward(q, [q EXCEPT !.todo = @ \ {k}])
             /\ Onward(q, [q EXCEPT !.todo = @ \ {k}, !.written = @ \cup {k}])
             /\ Onward(q, [q EXCEPT !.written = @ \ {k}])
             /\ Onward(q, [q EXCEPT !.written = {k}])
  OBVIOUS
<1> HIDE DEF Onward, Handling
<1> QED BY <1>1, <1>2, <1>3, <1>4, <1>5

\* Every other step of a request carries it on or ends it, and leaves the others alone.
LEMMA MovesStep ==
  ASSUME CustodyTypeOK, StartInv, NEW h \in Handlers, Working(h)
  PROVE  Moves(h)
<1>0. req[h] \in Handling
  BY DEF CustodyTypeOK
<1>1. ASSUME NEW c, Become(h, c), Onward(req[h], c), req[h].op # "idle", UNCHANGED <<passwords, overlapped>>
      PROVE  Moves(h)
  BY <1>1 DEF Become, CustodyTypeOK, Moves
<1>2. ASSUME Return(h), req[h].op # "idle", UNCHANGED <<passwords, overlapped>> PROVE Moves(h)
  BY <1>0, <1>1, <1>2, OnwardEdits DEF Return
<1>3. ASSUME NEW at, Goto(h, at), at = "vault" => SetsPassword(req[h].op), req[h].op \notin {"idle", "mfa"},
             at \in {"transit", "record"} => req[h].op = "delete",
             UNCHANGED <<passwords, overlapped>>
      PROVE  Moves(h)
  BY <1>0, <1>1, <1>3, OnwardEdits DEF Goto
<1>4. req[h] # Idle => req[h].op # "idle"
  BY DEF StartInv
<1>5. UNCHANGED <<passwords, overlapped>>
  BY DEF Working, Disconnect, Crash, ProvisionUser, SetInitialPrimary, lastLogin, ListLegacy, LoginEnds, ReWrap,
         ListFails, commitPassword, ChangeFailed, resetVaultCredential, GetUser, rewrapKeyUnderPassphrase,
         commitRecovery, saveMFA, revokeAll, DeleteUserpassAccount, DeletePolicy, DeleteUser, DeleteTransitKey,
         RecordRetainedDeletion, createInitialSigningKey, rewrapLegacyLocalKeys, rewrapPassphraseKeys, restore,
         DeleteKey, histVars
<1>6. CASE Disconnect(h)
  BY <1>0, <1>1, <1>4, <1>5, <1>6, OnwardEdits DEF Disconnect
<1>7. CASE \/ Crash(h) \/ SetInitialPrimary(h) \/ LoginEnds(h) \/ ListFails(h) \/ ChangeFailed(h)
           \/ resetVaultCredential(h) \/ saveMFA(h) \/ RecordRetainedDeletion(h)
  <2>1. req[h].op # "idle"
    BY <1>4, <1>7 DEF Crash, SetInitialPrimary, LoginEnds, ListFails, ChangeFailed, resetVaultCredential, saveMFA,
                      RecordRetainedDeletion, At, StartInv, SetsPassword
  <2>2. Return(h)
    BY <1>7 DEF Crash, SetInitialPrimary, LoginEnds, ListFails, ChangeFailed, resetVaultCredential, saveMFA,
                RecordRetainedDeletion
  <2> QED BY <1>2, <1>5, <2>1, <2>2
<1>8. CASE ProvisionUser(h) \/ DeleteUserpassAccount(h) \/ DeletePolicy(h) \/ DeleteUser(h) \/ DeleteTransitKey(h)
  <2>1. req[h].op \in {"register", "delete"}
    BY <1>8 DEF ProvisionUser, DeleteUserpassAccount, DeletePolicy, DeleteUser, DeleteTransitKey, deleteStep, At
  <2>2. \/ Return(h) \/ Goto(h, "key")
        \/ req[h].op = "delete" /\ \E at \in {"policy", "keys", "transit", "record"} : Goto(h, at)
    BY <1>8 DEF ProvisionUser, DeleteUserpassAccount, DeletePolicy, DeleteUser, DeleteTransitKey, deleteStep, At
  <2> QED BY <1>2, <1>3, <1>5, <2>1, <2>2
<1>9. CASE lastLogin(h)
  <2>1. req[h].op # "idle" /\ Become(h, [req[h] EXCEPT !.touch = FALSE])
    BY <1>9 DEF lastLogin, StartInv
  <2> QED BY <1>0, <1>1, <1>5, <2>1, OnwardEdits
<1>10. CASE ListLegacy(h) \/ ReWrap(h) \/ revokeAll(h)
  <2>1. req[h].op \in {"login", "change", "delete"}
    BY <1>10 DEF ListLegacy, ReWrap, revokeAll, At
  <2>2. Return(h) \/ \E at \in {"write", "login"}, K \in SUBSET Keys : Become(h, [req[h] EXCEPT !.at = at, !.todo = K])
    <3>1. {k \in Keys : wrap[k].by = "server"} \in SUBSET Keys /\ PassphraseEncrypted \in SUBSET Keys /\ Owned \in SUBSET Keys
      BY DEF PassphraseEncrypted, Owned
    <3> QED BY <1>10, <3>1 DEF ListLegacy, ReWrap, revokeAll
  <2> QED BY <1>0, <1>1, <1>2, <1>5, <2>1, <2>2, OnwardEdits
<1>11. CASE commitPassword(h) \/ commitRecovery(h)
  <2>1. req[h].op \in {"change", "recover"}
    BY <1>11 DEF commitPassword, commitRecovery, At
  <2>2. Return(h) \/ \E at \in {"vault", "restore"} : Goto(h, at)
    BY <1>11 DEF commitPassword, commitRecovery
  <2> QED BY <1>2, <1>3, <1>5, <2>1, <2>2 DEF SetsPassword
<1>12. CASE GetUser(h)
  <2>1. req[h].op = "recover"
    BY <1>12 DEF GetUser, At
  <2>2. Return(h) \/ (row.pw # 0 /\ Become(h, [req[h] EXCEPT !.at = "write", !.snap = row]))
    BY <1>12 DEF GetUser
  <2> QED BY <1>0, <1>1, <1>2, <1>5, <2>1, <2>2, OnwardEdits
<1>13. CASE rewrapKeyUnderPassphrase(h)
  <2>1. req[h].op = "recover"
    BY <1>13 DEF rewrapKeyUnderPassphrase, At
  <2>2. Return(h) \/ Become(h, [req[h] EXCEPT !.written = {req[h].key}])
    BY <1>13 DEF rewrapKeyUnderPassphrase
  <2> QED BY <1>0, <1>1, <1>2, <1>5, <2>1, <2>2, OnwardEdits
<1>14. ASSUME NEW k \in Keys, createInitialSigningKey(h, k)
       PROVE  Moves(h)
  <2>1. req[h].op = "register"
    BY <1>14 DEF createInitialSigningKey, At
  <2>2. Return(h) \/ Become(h, [req[h] EXCEPT !.at = "primary", !.todo = {k}])
    BY <1>14 DEF createInitialSigningKey
  <2> QED BY <1>0, <1>1, <1>2, <1>5, <2>1, <2>2, OnwardEdits
<1>15. ASSUME NEW k \in Keys, rewrapLegacyLocalKeys(h, k) \/ rewrapPassphraseKeys(h, k) \/ restore(h, k) \/ DeleteKey(h, k)
       PROVE  Moves(h)
  <2>1. req[h].op \in {"login", "change", "delete"}
    BY <1>15 DEF rewrapLegacyLocalKeys, rewrapPassphraseKeys, restore, DeleteKey, At
  <2>2. \/ Return(h) \/ Goto(h, "restore")
        \/ Become(h, [req[h] EXCEPT !.todo = @ \ {k}])
        \/ Become(h, [req[h] EXCEPT !.todo = @ \ {k}, !.written = @ \cup {k}])
        \/ Become(h, [req[h] EXCEPT !.written = @ \ {k}])
    BY <1>15 DEF rewrapLegacyLocalKeys, rewrapPassphraseKeys, restore, DeleteKey
  <2> QED BY <1>0, <1>1, <1>2, <1>3, <1>5, <2>1, <2>2, OnwardEdits
<1> QED BY <1>6, <1>7, <1>8, <1>9, <1>10, <1>11, <1>12, <1>13, <1>14, <1>15 DEF Working

\* A step starts a request, carries one on, or is one of the key handlers or the sweep.
LEMMA CustodyShape ==
  ASSUME CustodyNext
  PROVE  \/ UNCHANGED <<req, passwords, overlapped>> /\ (sweepRetainedDeletions \/ changeSignerPolicy
            \/ \E k \in Keys : handleCreateKey(k) \/ handleDeleteKey(k) \/ handleSetPrimaryKey(k))
         \/ \E h \in Handlers : Starting(h) \/ Working(h)
BY DEF CustodyNext, Starting, Working, handleCreateKey, handleDeleteKey, handleSetPrimaryKey, sweepRetainedDeletions,
       changeSignerPolicy, histVars

\* The steps that are one statement each.
KeyHandlers ==
  \/ sweepRetainedDeletions \/ changeSignerPolicy
  \/ \E k \in Keys : handleCreateKey(k) \/ handleDeleteKey(k) \/ handleSetPrimaryKey(k)

\* Who writes the account's row, and what.
RowWriter(h) ==
  \/ row.pw # 0 /\ req[h].op \in {"login", "mfa"} /\ row'.pw = req[h].snap.pw
  \/ /\ row.pw # 0 /\ SetsPassword(req[h].op) /\ req[h].at = "write"
     /\ row'.pw = req[h].new /\ req'[h].at = "vault"
  \/ req[h].op = "delete" /\ req[h].at = "keys" /\ row'.pw = 0

\* Nothing else writes the row.
LEMMA RowEffect ==
  ASSUME CustodyTypeOK, StartInv, NEW h \in Handlers, Working(h)
  PROVE  row' = row \/ RowWriter(h)
<1>0. Moves(h) /\ req[h] \in Handling /\ row \in Rows
  BY MovesStep DEF CustodyTypeOK
<1>1. CASE lastLogin(h) \/ saveMFA(h)
  <2>1. req[h].op \in {"login", "mfa"}
    BY <1>1 DEF lastLogin, saveMFA, StartInv
  <2>2. row' = row \/ (row.pw # 0 /\ row' \in {req[h].snap, [req[h].snap EXCEPT !.mfa = req[h].at]})
    BY <1>1 DEF lastLogin, saveMFA, UpdateUser
  <2>3. [req[h].snap EXCEPT !.mfa = req[h].at].pw = req[h].snap.pw
    BY <1>0 DEF Handling, Rows
  <2> QED BY <2>1, <2>2, <2>3 DEF RowWriter
<1>2. CASE commitPassword(h) \/ commitRecovery(h)
  <2>1. SetsPassword(req[h].op) /\ req[h].at = "write"
    BY <1>2 DEF commitPassword, commitRecovery, At, SetsPassword
  <2>2. row' = row \/ (row.pw # 0 /\ row' = [req[h].snap EXCEPT !.pw = req[h].new] /\ Goto(h, "vault"))
    BY <1>2 DEF commitPassword, commitRecovery, UpdateUser
  <2>3. [req[h].snap EXCEPT !.pw = req[h].new].pw = req[h].new
    BY <1>0 DEF Handling, Rows
  <2>4. Goto(h, "vault") => req'[h].at = "vault"
    BY <1>0 DEF Goto, Become, CustodyTypeOK, Handling
  <2> QED BY <2>1, <2>2, <2>3, <2>4 DEF RowWriter
<1>3. CASE DeleteUser(h)
  BY <1>3 DEF DeleteUser, At, RowWriter, NoAccount
<1>4. CASE ~(lastLogin(h) \/ saveMFA(h) \/ commitPassword(h) \/ commitRecovery(h) \/ DeleteUser(h))
  BY <1>4 DEF Working, Disconnect, Crash, ProvisionUser, SetInitialPrimary, ListLegacy, LoginEnds, ReWrap,
         ListFails, ChangeFailed, resetVaultCredential, GetUser, rewrapKeyUnderPassphrase,
         revokeAll, DeleteUserpassAccount, DeletePolicy, DeleteTransitKey,
         RecordRetainedDeletion, createInitialSigningKey, rewrapLegacyLocalKeys, rewrapPassphraseKeys, restore,
         DeleteKey, rowVars
<1> QED BY <1>1, <1>2, <1>3, <1>4

\* The key handlers need an account; they and the sweep leave row and requests alone.
LEMMA KeyHandlersEffect ==
  ASSUME CustodyTypeOK, KeyHandlers
  PROVE  /\ UNCHANGED <<row, req, passwords, overlapped, broken, behind>>
         /\ vault'.login = vault.login /\ vault'.policy = vault.policy
         /\ Registered \/ UNCHANGED wrap
         /\ vault'.transit => vault.transit
         /\ vault'.transit /\ retained => retained'
         /\ lost' = lost
<1>1. CASE sweepRetainedDeletions \/ changeSignerPolicy
  <2>1. UNCHANGED <<row, req, passwords, overlapped, broken, behind, wrap, lost>>
    BY <1>1 DEF sweepRetainedDeletions, changeSignerPolicy, histVars
  <2>2. /\ vault' \in {vault, [vault EXCEPT !.transit = FALSE], [vault EXCEPT !.mayDelete = ~@]}
        /\ retained' = retained \/ vault' = [vault EXCEPT !.transit = FALSE]
    BY <1>1 DEF sweepRetainedDeletions, changeSignerPolicy
  <2>3. vault \in [login : Passwords, policy : BOOLEAN, transit : BOOLEAN, mayDelete : BOOLEAN]
    BY DEF CustodyTypeOK
  <2> QED BY <2>1, <2>2, <2>3
<1>2. ASSUME NEW k \in Keys, handleCreateKey(k) \/ handleDeleteKey(k) \/ handleSetPrimaryKey(k)
      PROVE  UNCHANGED <<row, req, passwords, overlapped, broken, behind, vault, retained, lost>> /\ Registered
  BY <1>2 DEF handleCreateKey, handleDeleteKey, handleSetPrimaryKey, histVars
<1> QED BY <1>1, <1>2 DEF KeyHandlers

\* What StartInv says of one request, unless it registers.
Started(q) ==
  /\ q.op = "idle" => q = Idle
  /\ q.op \in {"login", "mfa", "change", "recover"} => q.snap.pw # 0
  /\ SetsPassword(q.op) => q.new # 0
  /\ q.at = "vault" => SetsPassword(q.op)
  /\ q.touch => q.op = "login"
  /\ q.op = "mfa" => q.at \in {"setup", "on", "off"}
  /\ q.op = "recover" => q.key \in Keys

\* It holds of no request.
LEMMA StartedIdle == Started(Idle)
BY DEF Started, Idle, SetsPassword

\* Every step keeps StartInv.
LEMMA StartStep ==
  ASSUME CustodyTypeOK, StartInv, CustodyNext
  PROVE  StartInv'
<1>0. passwords \in Nat /\ \A h \in Handlers : req[h] \in Handling
  BY CustodyAssumption DEF CustodyTypeOK, Passwords
<1>1. CASE KeyHandlers
  <2>1. Registered => passwords # 0
    BY DEF StartInv, Registered
  <2> QED BY <1>1, <2>1, KeyHandlersEffect DEF StartInv, AllIdle, Owned, SetsPassword
<1>2. ASSUME NEW h \in Handlers, Starting(h)
      PROVE  StartInv'
  <2>1. Begins(h)
    BY <1>2, BeginsStep
  <2>2. passwords' # 0
    BY <1>0, <2>1 DEF Begins, StartInv, Registered
  <2>3. CASE req'[h].op = "register"
    <3>1. /\ \A g \in Handlers \ {h} : req'[g] = Idle
          /\ row'.pw = 1 /\ req'[h].new = 1 /\ req'[h].at # "vault" /\ ~req'[h].touch
      BY <2>1, <2>3 DEF Begins, Fresh, StartInv, AllIdle
    <3>2. \A g \in Handlers : g = h \/ req'[g] = Idle
      BY <3>1
    <3>3. Started(req'[h]) /\ row'.pw = req'[h].new /\ row'.pw # 0 /\ \A g \in Handlers \ {h} : req'[g] = Idle
      BY <2>3, <3>1 DEF Started, SetsPassword
    <3>4. \A g \in Handlers : Started(req'[g]) /\ (req'[g].op = "register" => g = h)
      BY <3>2, <3>3, StartedIdle DEF Idle
    <3> QED BY <2>2, <3>3, <3>4 DEF StartInv, Started
  <2>4. CASE req'[h].op # "register"
    <3>1. Started(req'[h])
      BY <1>0, <2>1, <2>4 DEF Begins, Fresh, StartInv, Registered, SetsPassword, Started
    <3>2. \A g \in Handlers : Started(req'[g]) /\ (req[g].op # "register" \/ g = h)
      BY <2>1, <3>1, <2>4 DEF Begins, Registered, StartInv, Started, Idle
    <3>3. \A g \in Handlers : req'[g].op # "register"
      BY <2>1, <2>4, <3>2 DEF Begins, Registered, Idle
    <3> QED BY <2>2, <3>2, <3>3 DEF StartInv, Started
  <2> QED BY <2>3, <2>4
<1>3. ASSUME NEW h \in Handlers, Working(h)
      PROVE  StartInv'
  <2>1. Moves(h) /\ (row' = row \/ RowWriter(h)) /\ req[h].op # "idle"
    BY <1>3, MovesStep, RowEffect DEF Moves
  <2>2. passwords' # 0
    BY <2>1 DEF Moves, StartInv, AllIdle, Idle
  <2>3. req[h].op = "register" \/ (\E g \in Handlers : req'[g].op = "register") => row' = row
    BY <2>1 DEF Moves, StartInv, RowWriter, Onward, Idle, SetsPassword
  <2>4. \A g \in Handlers \ {h} : req'[g] = req[g]
    BY <2>1 DEF Moves
  <2>5. req'[h] = Idle \/ /\ req'[h].op = req[h].op /\ req'[h].new = req[h].new /\ req'[h].key = req[h].key
                          /\ req'[h].touch => req[h].touch
                          /\ req'[h].at = "vault" => req[h].at = "vault" \/ SetsPassword(req[h].op)
                          /\ req[h].op = "mfa" => req'[h].at = req[h].at
                          /\ req'[h].snap = req[h].snap \/ (req'[h].snap = row /\ row.pw # 0)
    BY <2>1 DEF Moves, Onward
  <2>6. ASSUME NEW g \in Handlers, req'[g].op = "register"
        PROVE  row'.pw = req'[g].new /\ row'.pw # 0 /\ \A f \in Handlers \ {g} : req'[f] = Idle
    <3>1. row' = row
      BY <2>3, <2>6
    <3>2. CASE g = h
      <4>1. req[h].op = "register" /\ req'[h].new = req[h].new
        BY <2>5, <2>6, <3>2 DEF Idle
      <4>2. row.pw = req[h].new /\ row.pw # 0 /\ \A f \in Handlers \ {h} : req[f] = Idle
        BY <4>1 DEF StartInv
      <4> QED BY <2>4, <3>1, <3>2, <4>1, <4>2
    <3>3. CASE g # h
      BY <2>1, <2>4, <2>6, <3>3 DEF StartInv, Idle
    <3> QED BY <3>2, <3>3
  <2>7. ASSUME NEW g \in Handlers
        PROVE  Started(req'[g])
    <3>1. CASE req'[g] = Idle
      BY <3>1, StartedIdle
    <3>2. CASE g # h
      BY <2>4, <3>2 DEF StartInv, Started
    <3>3. CASE g = h /\ req'[h] # Idle
      BY <2>1, <2>5, <3>3 DEF StartInv, Started
    <3> QED BY <3>1, <3>2, <3>3
  <2> QED BY <2>2, <2>6, <2>7 DEF StartInv, Started
<1> QED BY <1>1, <1>2, <1>3, CustodyShape DEF KeyHandlers

\* Only a registration makes a key, a Vault login or a policy that was not there.
LEMMA OnlyRegistrationAdds ==
  ASSUME CustodyTypeOK, StartInv, NEW h \in Handlers, Working(h)
  PROVE  \/ req[h].op = "register"
         \/ /\ Owned' \subseteq Owned
            /\ vault.login = 0 => vault'.login = 0
            /\ ~vault.policy => ~vault'.policy
<1> USE DEF rowVars
<1>0. vault \in [login : Passwords, policy : BOOLEAN, transit : BOOLEAN, mayDelete : BOOLEAN] /\ wrap \in [Keys -> Wraps]
      /\ req[h] \in Handling
  BY DEF CustodyTypeOK
<1>1. CASE UNCHANGED <<vault, wrap>>
  BY <1>1 DEF Owned
<1>2. CASE ProvisionUser(h) \/ \E k \in Keys : createInitialSigningKey(h, k)
  BY <1>2 DEF ProvisionUser, createInitialSigningKey, At
<1>3. CASE \/ resetVaultCredential(h) \/ DeleteUserpassAccount(h) \/ DeletePolicy(h) \/ DeleteTransitKey(h)
  <2>1. UNCHANGED wrap
    BY <1>3 DEF resetVaultCredential, DeleteUserpassAccount, DeletePolicy, DeleteTransitKey
  <2>2. /\ vault.login = 0 => vault'.login = 0
        /\ ~vault.policy => ~vault'.policy
    BY <1>0, <1>3 DEF resetVaultCredential, UpdateUserpassPassword, DeleteUserpassAccount, DeletePolicy, DeleteTransitKey, Deleted
  <2> QED BY <2>1, <2>2 DEF Owned
<1>4. CASE DeleteUser(h) \/ \E k \in Keys : DeleteKey(h, k)
  BY <1>0, <1>4 DEF DeleteUser, DeleteKey, Owned
<1>5. ASSUME NEW k \in Keys, NEW w, UpdateKeyEncryption(h, k, w) \/ UpdateFails(h, k)
      PROVE  Owned' \subseteq Owned
  BY <1>0, <1>5 DEF UpdateKeyEncryption, UpdateFails, Owned
<1>6. CASE rewrapKeyUnderPassphrase(h)
  <2>1. req[h].key \in Keys /\ UNCHANGED vault
    BY <1>6 DEF rewrapKeyUnderPassphrase, At, StartInv
  <2> QED BY <1>5, <1>6, <2>1 DEF rewrapKeyUnderPassphrase
<1>7. CASE \E k \in Keys : rewrapLegacyLocalKeys(h, k) \/ rewrapPassphraseKeys(h, k) \/ restore(h, k)
  <2>1. PICK k \in Keys : rewrapLegacyLocalKeys(h, k) \/ rewrapPassphraseKeys(h, k) \/ restore(h, k)
    BY <1>7
  <2>2. UNCHANGED vault /\ \E w : UpdateKeyEncryption(h, k, w) \/ UpdateFails(h, k)
    BY <2>1 DEF rewrapLegacyLocalKeys, rewrapPassphraseKeys, restore
  <2> QED BY <1>5, <2>2
<1>8. \/ UNCHANGED <<vault, wrap>>
      \/ ProvisionUser(h) \/ \E k \in Keys : createInitialSigningKey(h, k)
      \/ resetVaultCredential(h) \/ DeleteUserpassAccount(h) \/ DeletePolicy(h) \/ DeleteTransitKey(h)
      \/ DeleteUser(h) \/ \E k \in Keys : DeleteKey(h, k)
      \/ rewrapKeyUnderPassphrase(h)
      \/ \E k \in Keys : rewrapLegacyLocalKeys(h, k) \/ rewrapPassphraseKeys(h, k) \/ restore(h, k)
  BY DEF Working, Disconnect, Crash, SetInitialPrimary, lastLogin, ListLegacy, LoginEnds, ReWrap, ListFails,
         commitPassword, ChangeFailed, GetUser, commitRecovery, saveMFA, revokeAll, RecordRetainedDeletion
<1> QED BY <1>1, <1>2, <1>3, <1>4, <1>6, <1>7, <1>8

\* What a deletion has done when it goes on.
LEMMA DeletionGoesOn ==
  ASSUME CustodyTypeOK, StartInv, NEW h \in Handlers, Working(h), req[h].op = "delete", req'[h].op = "delete"
  PROVE  \/ req'[h].at = req[h].at
         \/ req'[h].at = "login"
         \/ req[h].at = "login" /\ req'[h].at = "policy" /\ vault'.login = 0
         \/ req[h].at = "policy" /\ req'[h].at = "keys" /\ ~vault'.policy
         \/ req[h].at = "keys" /\ req'[h].at = "transit"
         \/ req[h].at = "transit" /\ req'[h].at = "record"
<1>0. /\ req[h] \in Handling /\ h \in DOMAIN req
      /\ vault \in [login : Passwords, policy : BOOLEAN, transit : BOOLEAN, mayDelete : BOOLEAN]
  BY DEF CustodyTypeOK
<1>1. ASSUME NEW c, Become(h, c) PROVE req'[h] = c
  BY <1>0, <1>1 DEF Become
<1>2. ~Return(h)
  BY <1>1 DEF Return, Idle
<1>3. ASSUME NEW at, Goto(h, at) PROVE req'[h].at = at /\ req'[h] # Idle
  BY <1>0, <1>1, <1>3 DEF Goto, Handling, Idle
<1>4. CASE Disconnect(h) \/ \E k \in Keys : DeleteKey(h, k)
  <2>1. Become(h, [req[h] EXCEPT !.gone = TRUE]) \/ \E k \in Keys : Become(h, [req[h] EXCEPT !.todo = @ \ {k}])
    BY <1>2, <1>4 DEF Disconnect, DeleteKey
  <2> QED BY <1>0, <1>1, <2>1 DEF Handling
<1>5. CASE revokeAll(h)
  <2>1. Become(h, [req[h] EXCEPT !.at = "login", !.todo = Owned])
    BY <1>2, <1>5 DEF revokeAll
  <2> QED BY <1>0, <1>1, <2>1 DEF Handling
<1>6. CASE DeleteUserpassAccount(h)
  <2>1. Goto(h, "policy") /\ At(h, "delete", "login")
    BY <1>2, <1>6 DEF DeleteUserpassAccount, deleteStep
  <2>2. vault' = [vault EXCEPT !.login = 0]
    BY <1>3, <1>6, <2>1 DEF DeleteUserpassAccount, Deleted
  <2> QED BY <1>0, <1>3, <2>1, <2>2 DEF At
<1>7. CASE DeletePolicy(h)
  <2>1. Goto(h, "keys") /\ At(h, "delete", "policy")
    BY <1>2, <1>7 DEF DeletePolicy, deleteStep
  <2>2. vault' = [vault EXCEPT !.policy = FALSE]
    BY <1>3, <1>7, <2>1 DEF DeletePolicy, Deleted
  <2> QED BY <1>0, <1>3, <2>1, <2>2 DEF At
<1>8. CASE DeleteUser(h)
  BY <1>2, <1>3, <1>8 DEF DeleteUser, At
<1>9. CASE DeleteTransitKey(h) \/ RecordRetainedDeletion(h)
  BY <1>2, <1>3, <1>9 DEF DeleteTransitKey, RecordRetainedDeletion, At
<1>10. CASE lastLogin(h) \/ resetVaultCredential(h)
  BY <1>10 DEF lastLogin, resetVaultCredential, StartInv, SetsPassword
<1> QED BY <1>2, <1>4, <1>5, <1>6, <1>7, <1>8, <1>9, <1>10
        DEF Working, Crash, ProvisionUser, SetInitialPrimary, ListLegacy, LoginEnds, ReWrap, ListFails, commitPassword,
            ChangeFailed, GetUser, rewrapKeyUnderPassphrase, commitRecovery, saveMFA,
            createInitialSigningKey, rewrapLegacyLocalKeys, rewrapPassphraseKeys, restore, At

\* Of the steps of a deletion one changes the row.
LEMMA OnlyDeleteUser ==
  ASSUME CustodyTypeOK, StartInv, NEW h \in Handlers, Working(h), req[h].op = "delete", row' # row
  PROVE  DeleteUser(h)
BY DEF Working, Disconnect, Crash, ProvisionUser, SetInitialPrimary, lastLogin, ListLegacy, LoginEnds, ReWrap, ListFails,
         commitPassword, ChangeFailed, resetVaultCredential, GetUser, rewrapKeyUnderPassphrase, commitRecovery, saveMFA,
         revokeAll, DeleteUserpassAccount, DeletePolicy, DeleteTransitKey, RecordRetainedDeletion,
         createInitialSigningKey, rewrapLegacyLocalKeys, rewrapPassphraseKeys, restore, DeleteKey, At, StartInv, rowVars

\* A deletion takes the row with its keys, after the Vault login and the policy.
LEMMA DeletionOfTheRow ==
  ASSUME CustodyTypeOK, StartInv, NEW h \in Handlers, Working(h), req[h].op = "delete", row' # row
  PROVE  req[h].at = "keys" /\ Owned' = {} /\ UNCHANGED vault
BY OnlyDeleteUser DEF DeleteUser, At, Owned

\* Every step keeps GoneInv.
LEMMA GoneStep ==
  ASSUME CustodyTypeOK, StartInv, GoneInv, CustodyNext
  PROVE  GoneInv'
<1>0. passwords \in Nat
  BY CustodyAssumption DEF CustodyTypeOK, Passwords
<1>1. CASE KeyHandlers
  BY <1>1, KeyHandlersEffect DEF GoneInv, NothingOutlivesAccount, Registered, Owned
<1>2. ASSUME NEW h \in Handlers, Starting(h)
      PROVE  GoneInv'
  <2>1. Begins(h)
    BY <1>2, BeginsStep
  <2>2. row'.pw # 0
    BY <2>1 DEF Begins, Registered
  <2>3. \A g \in Handlers : req'[g].op = "delete" => req'[g].at = "list" \/ req'[g] = req[g]
    BY <2>1 DEF Begins, Fresh
  <2>4. UNCHANGED vault
    BY <2>1 DEF Begins
  <2> QED BY <2>2, <2>3, <2>4 DEF GoneInv, NothingOutlivesAccount
<1>3. ASSUME NEW h \in Handlers, Working(h)
      PROVE  GoneInv'
  <2>1. Moves(h) /\ (row' = row \/ RowWriter(h))
    BY <1>3, MovesStep, RowEffect
  <2>2. CASE req[h].op = "register"
    <3>1. row' = row /\ row.pw # 0 /\ \A g \in Handlers : req'[g].op # "delete"
      BY <2>1, <2>2 DEF StartInv, RowWriter, SetsPassword, Moves, Onward, Idle
    <3> QED BY <3>1 DEF GoneInv, NothingOutlivesAccount
  <2>3. CASE req[h].op # "register"
    <3>1. /\ Owned' \subseteq Owned
          /\ vault.login = 0 => vault'.login = 0
          /\ ~vault.policy => ~vault'.policy
      BY <1>3, <2>3, OnlyRegistrationAdds
    <3>2. NothingOutlivesAccount'
      <4>1. SUFFICES ASSUME row'.pw = 0, passwords' > 0 PROVE Owned' = {} /\ vault'.login = 0 /\ ~vault'.policy
        BY DEF NothingOutlivesAccount
      <4>2. passwords > 0
        BY <2>1, <4>1 DEF Moves
      <4>3. CASE row.pw = 0
        BY <3>1, <4>2, <4>3 DEF GoneInv, NothingOutlivesAccount
      <4>4. CASE row.pw # 0
        <5>1. req[h].op = "delete" /\ row' # row
          BY <2>1, <4>1, <4>4 DEF RowWriter, StartInv, SetsPassword
        <5> QED BY <1>3, <5>1, DeletionOfTheRow DEF GoneInv
      <4> QED BY <4>3, <4>4
    <3>3. ASSUME NEW g \in Handlers, req'[g].op = "delete"
          PROVE  /\ req'[g].at \in {"policy", "keys", "transit", "record"} => vault'.login = 0
                 /\ req'[g].at \in {"keys", "transit", "record"} => ~vault'.policy
      <4>1. CASE g # h
        BY <2>1, <3>1, <3>3, <4>1 DEF Moves, GoneInv
      <4>2. CASE g = h
        <5>1. req[h].op = "delete"
          BY <2>1, <3>3, <4>2 DEF Moves, Onward, Idle
        <5> QED BY <1>3, <3>1, <3>3, <4>2, <5>1, DeletionGoesOn DEF GoneInv
      <4> QED BY <4>1, <4>2
    <3> QED BY <3>2, <3>3 DEF GoneInv
  <2> QED BY <2>2, <2>3
<1> QED BY <1>1, <1>2, <1>3, CustodyShape DEF KeyHandlers

\* What a request does to the transit key, and to what is known of it.
LEMMA TransitEffect ==
  ASSUME CustodyTypeOK, StartInv, NEW h \in Handlers, Working(h)
  PROVE  /\ vault'.transit => vault.transit \/ req[h].op = "register"
         /\ vault'.transit /\ retained => retained'
         /\ lost => lost'
         /\ vault'.transit /\ req[h].op = "delete" /\ req[h].at \in {"transit", "record"} =>
              retained' \/ lost' \/ req'[h].at \in {"transit", "record"}
<1> USE DEF rowVars, histVars
<1>0. /\ vault \in [login : Passwords, policy : BOOLEAN, transit : BOOLEAN, mayDelete : BOOLEAN]
      /\ req[h] \in Handling /\ h \in DOMAIN req
  BY DEF CustodyTypeOK
<1>1. CASE ProvisionUser(h)
  BY <1>1 DEF ProvisionUser, At
<1>2. CASE resetVaultCredential(h)
  BY <1>0, <1>2 DEF resetVaultCredential, UpdateUserpassPassword, StartInv, SetsPassword
<1>3. CASE DeleteUserpassAccount(h) \/ DeletePolicy(h)
  BY <1>0, <1>3 DEF DeleteUserpassAccount, DeletePolicy, deleteStep, Deleted, At
<1>4. CASE DeleteTransitKey(h)
  <2>1. CASE vault' = [vault EXCEPT !.transit = FALSE] /\ UNCHANGED lost
    BY <1>0, <2>1
  <2>2. CASE Goto(h, "record") /\ UNCHANGED <<vault, retained, lost>>
    BY <1>0, <2>2 DEF Goto, Become, Handling
  <2> QED BY <1>4, <2>1, <2>2 DEF DeleteTransitKey
<1>5. CASE RecordRetainedDeletion(h)
  BY <1>5 DEF RecordRetainedDeletion
<1>6. CASE Crash(h)
  BY <1>6 DEF Crash
<1>7. CASE Disconnect(h)
  BY <1>0, <1>7 DEF Disconnect, Become, Handling
<1>8. CASE ~(ProvisionUser(h) \/ resetVaultCredential(h) \/ DeleteUserpassAccount(h) \/ DeletePolicy(h)
             \/ DeleteTransitKey(h) \/ RecordRetainedDeletion(h) \/ Crash(h) \/ Disconnect(h))
  <2>1. UNCHANGED <<vault, retained, lost>>
    BY <1>8 DEF Working, SetInitialPrimary, lastLogin, ListLegacy, LoginEnds, ReWrap, ListFails, commitPassword,
         ChangeFailed, GetUser, rewrapKeyUnderPassphrase, commitRecovery, saveMFA, revokeAll, DeleteUser,
         createInitialSigningKey, rewrapLegacyLocalKeys, rewrapPassphraseKeys, restore, DeleteKey
  <2>2. ~(req[h].op = "delete" /\ req[h].at \in {"transit", "record"})
    BY <1>8 DEF Working, SetInitialPrimary, lastLogin, ListLegacy, LoginEnds, ReWrap, ListFails, commitPassword,
         ChangeFailed, GetUser, rewrapKeyUnderPassphrase, commitRecovery, saveMFA, revokeAll, DeleteUser,
         createInitialSigningKey, rewrapLegacyLocalKeys, rewrapPassphraseKeys, restore, DeleteKey, At, StartInv
  <2> QED BY <2>1, <2>2
<1> QED BY <1>1, <1>2, <1>3, <1>4, <1>5, <1>6, <1>7, <1>8

\* Every step keeps RecordInv.
LEMMA RecordStep ==
  ASSUME CustodyTypeOK, StartInv, RecordInv, CustodyNext
  PROVE  RecordInv'
<1> DEFINE Deleting(q) == q.at \in {"transit", "record"}
<1>1. CASE KeyHandlers
  BY <1>1, KeyHandlersEffect DEF RecordInv, TransitKeyOnRecord
<1>2. ASSUME NEW h \in Handlers, Starting(h)
      PROVE  RecordInv'
  <2>1. Begins(h)
    BY <1>2, BeginsStep
  <2>2. row'.pw # 0 /\ \A g \in Handlers : Deleting(req'[g]) => req'[g] = req[g]
    BY <2>1 DEF Begins, Fresh, Registered
  <2> QED BY <2>2 DEF RecordInv, TransitKeyOnRecord
<1>3. ASSUME NEW h \in Handlers, Working(h)
      PROVE  RecordInv'
  <2>1. Moves(h)
    BY <1>3, MovesStep
  <2>2. \A g \in Handlers : Deleting(req'[g]) => req'[g].op = "delete"
    BY <2>1 DEF Moves, Onward, Idle, RecordInv
  <2>3. TransitKeyOnRecord'
    <3>1. SUFFICES ASSUME row'.pw = 0, passwords' > 0, vault'.transit
                   PROVE  retained' \/ lost' \/ \E g \in Handlers : Deleting(req'[g])
      BY DEF TransitKeyOnRecord
    <3>2. CASE row' # row
      <4>1. req[h].op = "delete"
        BY <1>3, <3>1, <3>2, RowEffect DEF RowWriter, StartInv, SetsPassword
      <4>2. DeleteUser(h)
        BY <1>3, <3>2, <4>1, OnlyDeleteUser
      <4>3. Goto(h, "transit")
        BY <3>2, <4>2 DEF DeleteUser
      <4> QED BY <4>3 DEF Goto, Become, CustodyTypeOK, Handling
    <3>3. CASE row' = row
      <4>1. vault.transit /\ passwords > 0 /\ row.pw = 0
        BY <1>3, <2>1, <3>1, <3>3, TransitEffect DEF Moves, StartInv
      <4>2. CASE retained \/ lost
        BY <1>3, <3>1, <4>2, TransitEffect
      <4>3. ASSUME NEW g \in Handlers, Deleting(req[g])
            PROVE  retained' \/ lost' \/ \E f \in Handlers : Deleting(req'[f])
        <5>1. CASE g = h
          BY <1>3, <3>1, <4>3, <5>1, TransitEffect DEF RecordInv
        <5>2. CASE g # h
          BY <2>1, <4>3, <5>2 DEF Moves
        <5> QED BY <5>1, <5>2
      <4> QED BY <4>1, <4>2, <4>3 DEF RecordInv, TransitKeyOnRecord
    <3> QED BY <3>2, <3>3
  <2> QED BY <2>2, <2>3 DEF RecordInv
<1> QED BY <1>1, <1>2, <1>3, CustodyShape DEF KeyHandlers

\* The Vault step of a request follows its commit, and ends it.
LEMMA VaultStep ==
  ASSUME CustodyTypeOK, StartInv, NEW h \in Handlers, Working(h)
  PROVE  /\ req[h].at = "vault" => req'[h] = Idle \/ req'[h].at = "vault"
         /\ req'[h].at = "vault" => req[h].at = "vault" \/ row'.pw = req[h].new
<1>0. req[h] \in Handling /\ h \in DOMAIN req /\ Idle.at # "vault"
  BY DEF CustodyTypeOK, Idle
<1>1. ASSUME NEW c, Become(h, c) PROVE req'[h] = c
  BY <1>0, <1>1 DEF Become
<1>2. CASE Return(h)
  BY <1>0, <1>1, <1>2 DEF Return
<1>3. ASSUME NEW at, Goto(h, at) PROVE req'[h].at = at
  BY <1>0, <1>1, <1>3 DEF Goto, Handling
<1>4. CASE req'[h].at = req[h].at
  BY <1>4
<1>5. CASE commitPassword(h) \/ commitRecovery(h)
  <2>1. [req[h].snap EXCEPT !.pw = req[h].new].pw = req[h].new
    BY <1>0 DEF Handling, Rows
  <2>2. req[h].at = "write"
    BY <1>5 DEF commitPassword, commitRecovery, At
  <2>3. Return(h) \/ Goto(h, "restore") \/ (Goto(h, "vault") /\ row' = [req[h].snap EXCEPT !.pw = req[h].new])
    BY <1>5 DEF commitPassword, commitRecovery, UpdateUser
  <2> QED BY <1>2, <1>3, <2>1, <2>2, <2>3
<1>6. CASE /\ req[h].at # "vault"
           /\ \/ \E at \in {"key", "restore", "policy", "keys", "transit", "record"} : Goto(h, at)
              \/ \E K, at : at \in {"primary", "write", "login"} /\ Become(h, [req[h] EXCEPT !.at = at, !.todo = K])
              \/ Become(h, [req[h] EXCEPT !.at = "write", !.snap = row])
  <2>1. req'[h].at # "vault"
    BY <1>0, <1>1, <1>3, <1>6 DEF Handling
  <2> QED BY <1>6, <2>1
<1>7. CASE \/ Become(h, [req[h] EXCEPT !.gone = TRUE]) \/ Become(h, [req[h] EXCEPT !.touch = FALSE])
           \/ \E k : \/ Become(h, [req[h] EXCEPT !.todo = @ \ {k}])
                     \/ Become(h, [req[h] EXCEPT !.todo = @ \ {k}, !.written = @ \cup {k}])
                     \/ Become(h, [req[h] EXCEPT !.written = @ \ {k}])
                     \/ Become(h, [req[h] EXCEPT !.written = {k}])
  <2>1. req'[h].at = req[h].at
    BY <1>0, <1>1, <1>7 DEF Handling
  <2> QED BY <2>1
<1>8. CASE \/ Disconnect(h) \/ lastLogin(h) \/ rewrapKeyUnderPassphrase(h)
           \/ \E k \in Keys : rewrapLegacyLocalKeys(h, k) \/ restore(h, k) \/ DeleteKey(h, k)
  BY <1>2, <1>7, <1>8 DEF Disconnect, lastLogin, rewrapKeyUnderPassphrase, rewrapLegacyLocalKeys, restore, DeleteKey
<1>9. CASE \E k \in Keys : rewrapPassphraseKeys(h, k)
  BY <1>6, <1>7, <1>9 DEF rewrapPassphraseKeys, At
<1>10. CASE \/ ProvisionUser(h) \/ ListLegacy(h) \/ ReWrap(h) \/ GetUser(h) \/ revokeAll(h) \/ DeleteUserpassAccount(h)
            \/ DeletePolicy(h) \/ DeleteUser(h) \/ DeleteTransitKey(h) \/ \E k \in Keys : createInitialSigningKey(h, k)
  BY <1>2, <1>6, <1>10 DEF ProvisionUser, ListLegacy, ReWrap, GetUser, revokeAll, DeleteUserpassAccount,
         DeletePolicy, DeleteUser, DeleteTransitKey, createInitialSigningKey, deleteStep, At
<1>11. CASE \/ Crash(h) \/ SetInitialPrimary(h) \/ LoginEnds(h) \/ ListFails(h) \/ ChangeFailed(h)
            \/ resetVaultCredential(h) \/ saveMFA(h) \/ RecordRetainedDeletion(h)
  BY <1>2, <1>11 DEF Crash, SetInitialPrimary, LoginEnds, ListFails, ChangeFailed, resetVaultCredential, saveMFA,
                     RecordRetainedDeletion
<1> QED BY <1>5, <1>8, <1>9, <1>10, <1>11 DEF Working

\* While nothing has overlapped, who works next to a request that sets the
\* password is that request.
LEMMA SetterAlone ==
  ASSUME StartInv, SnapInv, ~overlapped, NEW h \in Handlers, NEW g \in Handlers, req[h].op # "idle", SetsPassword(req[g].op)
  PROVE  g = h
BY DEF SnapInv, Idle

\* Only the commit of such a request gives the row another password.
LEMMA PasswordStays ==
  ASSUME StartInv, SnapInv, ~overlapped, NEW h \in Handlers, row' = row \/ RowWriter(h)
  PROVE  \/ row'.pw = row.pw
         \/ /\ SetsPassword(req[h].op) /\ req[h].at = "write" /\ req'[h].at = "vault" /\ row'.pw = req[h].new
         \/ req[h].op = "delete" /\ req[h].at = "keys" /\ row'.pw = 0
BY DEF RowWriter, StartInv, SnapInv, SetsPassword

\* Every step keeps SnapInv.
LEMMA SnapStep ==
  ASSUME CustodyTypeOK, StartInv, SnapInv, CustodyNext
  PROVE  SnapInv'
<1>1. CASE KeyHandlers
  BY <1>1, KeyHandlersEffect DEF SnapInv, SetsPassword
<1>2. ASSUME NEW h \in Handlers, Starting(h), ~overlapped', NEW g \in Handlers
      PROVE  /\ SetsPassword(req'[g].op) => \A f \in Handlers \ {g} : req'[f] = Idle
             /\ req'[g].op \in {"login", "mfa", "change", "recover"} /\ req'[g].at # "vault" /\ row'.pw # 0
                  => req'[g].snap.pw = row'.pw
             /\ req'[g].op = "login" => req'[g].new = req'[g].snap.pw
             /\ req'[g].at = "vault" => row'.pw = req'[g].new
  <2>1. Begins(h) /\ ~overlapped
    BY <1>2, BeginsStep DEF Begins
  <2>2. CASE req'[h].op = "register"
    <3>1. AllIdle
      BY <2>1, <2>2 DEF Begins, StartInv
    <3>2. g = h \/ req'[g] = Idle
      BY <2>1, <3>1 DEF Begins, AllIdle
    <3>3. req'[h].at # "vault"
      BY <2>1 DEF Begins, Fresh
    <3> QED BY <2>2, <3>2, <3>3 DEF Idle, SetsPassword
  <2>3. CASE req'[h].op # "register" /\ g = h
    <3>1. row' = row /\ Fresh(req'[h])
      BY <2>1, <2>3 DEF Begins
    <3>2. SetsPassword(req'[h].op) => \A f \in Handlers \ {h} : req'[f] = Idle
      BY <1>2, <2>1 DEF Begins
    <3> QED BY <2>3, <3>1, <3>2 DEF Fresh
  <2>4. CASE req'[h].op # "register" /\ g # h
    <3>1. row' = row /\ req'[g] = req[g]
      BY <2>1, <2>4 DEF Begins
    <3>2. CASE req[g] = Idle
      BY <3>1, <3>2 DEF Idle, SetsPassword
    <3>3. CASE req[g] # Idle
      <4>1. ~SetsPassword(req[g].op)
        BY <1>2, <2>1, <3>3 DEF Begins
      <4>2. req[g].at # "vault"
        BY <4>1 DEF StartInv
      <4> QED BY <2>1, <3>1, <4>1, <4>2 DEF SnapInv
    <3> QED BY <3>2, <3>3
  <2> QED BY <2>2, <2>3, <2>4
<1>3. ASSUME NEW h \in Handlers, Working(h), ~overlapped', NEW g \in Handlers
      PROVE  /\ SetsPassword(req'[g].op) => \A f \in Handlers \ {g} : req'[f] = Idle
             /\ req'[g].op \in {"login", "mfa", "change", "recover"} /\ req'[g].at # "vault" /\ row'.pw # 0
                  => req'[g].snap.pw = row'.pw
             /\ req'[g].op = "login" => req'[g].new = req'[g].snap.pw
             /\ req'[g].at = "vault" => row'.pw = req'[g].new
  <2>1. Moves(h) /\ ~overlapped /\ (row' = row \/ RowWriter(h)) /\ req[h].op # "idle"
    BY <1>3, MovesStep, RowEffect DEF Moves
  <2>2. \/ row'.pw = row.pw
        \/ /\ SetsPassword(req[h].op) /\ req[h].at = "write" /\ req'[h].at = "vault" /\ row'.pw = req[h].new
        \/ req[h].op = "delete" /\ req[h].at = "keys" /\ row'.pw = 0
    BY <2>1, PasswordStays
  <2>3. CASE g # h
    <3>1. req'[g] = req[g]
      BY <2>1, <2>3 DEF Moves
    <3>2. ~SetsPassword(req[g].op)
      BY <2>1, <2>3, SetterAlone
    <3>3. req[g].at # "vault"
      BY <3>2 DEF StartInv
    <3>4. SetsPassword(req[h].op) => req[g] = Idle
      BY <2>1, <2>3 DEF SnapInv
    <3> QED BY <2>1, <2>2, <3>1, <3>2, <3>3, <3>4 DEF SnapInv, Idle
  <2>4. CASE g = h
    <3>1. CASE req'[h] = Idle
      BY <2>4, <3>1 DEF Idle, SetsPassword
    <3>2. CASE req'[h] # Idle
      <4>1. /\ req'[h].op = req[h].op /\ req'[h].new = req[h].new
            /\ req'[h].snap = req[h].snap \/ (req'[h].snap = row /\ row.pw # 0)
        BY <2>1, <3>2 DEF Moves, Onward
      <4>2. /\ req[h].at = "vault" => req'[h].at = "vault"
            /\ req'[h].at = "vault" => req[h].at = "vault" \/ row'.pw = req[h].new
        BY <1>3, <3>2, VaultStep
      <4>3. SetsPassword(req'[h].op) => \A f \in Handlers \ {h} : req'[f] = Idle
        BY <2>1, <4>1 DEF Moves, SnapInv
      <4>4. req[h].at = "vault" => SetsPassword(req[h].op)
        BY DEF StartInv
      <4>5. req'[h].at = "vault" => row'.pw = req'[h].new
        BY <2>1, <2>2, <4>1, <4>2, <4>4 DEF SnapInv, SetsPassword
      <4>6. req'[h].op \in {"login", "mfa", "change", "recover"} /\ req'[h].at # "vault" /\ row'.pw # 0
              => req'[h].snap.pw = row'.pw
        BY <2>1, <2>2, <4>1, <4>2 DEF SnapInv
      <4>7. req'[h].op = "login" => req'[h].new = req'[h].snap.pw
        BY <2>1, <4>1, <4>4 DEF SnapInv, SetsPassword
      <4> QED BY <2>4, <4>3, <4>5, <4>6, <4>7
    <3> QED BY <3>1, <3>2
  <2> QED BY <2>3, <2>4
<1> QED BY <1>1, <1>2, <1>3, CustodyShape DEF KeyHandlers, SnapInv

\* What a request does to the Vault login.
LEMMA LoginEffect ==
  ASSUME CustodyTypeOK, StartInv, NEW h \in Handlers, Working(h)
  PROVE  \/ behind' \/ vault'.login = 0
         \/ ~behind /\ vault'.login = vault.login /\ (req[h].at = "vault" => req'[h].at = "vault")
         \/ /\ req[h].op = "register" \/ req[h].at = "vault"
            /\ vault'.login = req[h].new /\ row' = row
<1> USE DEF rowVars, histVars
<1>0. vault \in [login : Passwords, policy : BOOLEAN, transit : BOOLEAN, mayDelete : BOOLEAN] /\ behind \in BOOLEAN
  BY DEF CustodyTypeOK
<1>1. req[h].at = "vault" => req'[h] = Idle \/ req'[h].at = "vault"
  BY VaultStep
<1>2. CASE ProvisionUser(h)
  BY <1>0, <1>1, <1>2 DEF ProvisionUser, CreateUserpassAccount, CreatePolicy, CreateTransitKey, At
<1>3. CASE resetVaultCredential(h)
  BY <1>0, <1>3 DEF resetVaultCredential, UpdateUserpassPassword
<1>4. CASE DeleteUserpassAccount(h) \/ DeletePolicy(h) \/ DeleteTransitKey(h)
  <2>1. req[h].at # "vault" /\ UNCHANGED behind
    BY <1>4 DEF DeleteUserpassAccount, DeletePolicy, DeleteTransitKey, deleteStep, At
  <2>2. vault'.login \in {0, vault.login}
    BY <1>0, <1>4 DEF DeleteUserpassAccount, DeletePolicy, DeleteTransitKey, Deleted
  <2> QED BY <2>1, <2>2
<1>5. CASE Crash(h)
  BY <1>5 DEF Crash
<1>6. CASE Disconnect(h)
  <2>1. req'[h].at = req[h].at
    BY <1>6 DEF Disconnect, Become, CustodyTypeOK, Handling
  <2> QED BY <1>6, <2>1 DEF Disconnect
<1>7. CASE ~(ProvisionUser(h) \/ resetVaultCredential(h) \/ DeleteUserpassAccount(h) \/ DeletePolicy(h) \/ DeleteTransitKey(h)
             \/ Crash(h) \/ Disconnect(h))
  <2>1. req[h].at # "vault"
    BY <1>7 DEF Working, SetInitialPrimary, lastLogin, ListLegacy, LoginEnds, ReWrap, ListFails, commitPassword,
         ChangeFailed, GetUser, rewrapKeyUnderPassphrase, commitRecovery, saveMFA, revokeAll, DeleteUser,
         RecordRetainedDeletion, createInitialSigningKey, rewrapLegacyLocalKeys, rewrapPassphraseKeys, restore,
         DeleteKey, At, StartInv, SetsPassword
  <2>2. UNCHANGED <<vault, behind>>
    BY <1>7 DEF Working, SetInitialPrimary, lastLogin, ListLegacy, LoginEnds, ReWrap, ListFails, commitPassword,
         ChangeFailed, GetUser, rewrapKeyUnderPassphrase, commitRecovery, saveMFA, revokeAll, DeleteUser,
         RecordRetainedDeletion, createInitialSigningKey, rewrapLegacyLocalKeys, rewrapPassphraseKeys, restore,
         DeleteKey
  <2> QED BY <2>1, <2>2
<1> QED BY <1>2, <1>3, <1>4, <1>5, <1>6, <1>7

\* Every step keeps VaultInv.
LEMMA VaultInvStep ==
  ASSUME CustodyTypeOK, StartInv, GoneInv, SnapInv, VaultInv, CustodyNext
  PROVE  VaultInv'
<1>1. CASE KeyHandlers
  BY <1>1, KeyHandlersEffect DEF VaultInv
<1>2. ASSUME NEW h \in Handlers, Starting(h), ~overlapped', ~behind'
      PROVE  vault'.login \in {0, row'.pw} \/ \E g \in Handlers : req'[g].at = "vault"
  <2>1. Begins(h) /\ ~overlapped /\ ~behind
    BY <1>2, BeginsStep DEF Begins
  <2>2. CASE req'[h].op = "register"
    BY <2>1, <2>2 DEF Begins, StartInv
  <2>3. CASE req'[h].op # "register"
    <3>1. UNCHANGED <<row, vault>> /\ \A g \in Handlers : req[g].at = "vault" => req'[g] = req[g]
      BY <2>1, <2>3 DEF Begins, Idle
    <3> QED BY <2>1, <3>1 DEF VaultInv
  <2> QED BY <2>2, <2>3
<1>3. ASSUME NEW h \in Handlers, Working(h), ~overlapped', ~behind'
      PROVE  vault'.login \in {0, row'.pw} \/ \E g \in Handlers : req'[g].at = "vault"
  <2>1. Moves(h) /\ ~overlapped /\ (row' = row \/ RowWriter(h))
    BY <1>3, MovesStep, RowEffect DEF Moves
  <2>2. CASE (req[h].op = "register" \/ req[h].at = "vault") /\ vault'.login = req[h].new /\ row' = row
    BY <2>1, <2>2 DEF StartInv, SnapInv
  <2>3. CASE ~behind /\ vault'.login = vault.login /\ (req[h].at = "vault" => req'[h].at = "vault")
    <3>1. vault.login \in {0, row.pw} \/ \E g \in Handlers : req[g].at = "vault"
      BY <2>1, <2>3 DEF VaultInv
    <3>2. CASE \E g \in Handlers : req[g].at = "vault"
      BY <2>1, <2>3, <3>2 DEF Moves
    <3>3. CASE vault.login \in {0, row.pw}
      BY <2>1, <2>3, <3>3, PasswordStays DEF GoneInv
    <3> QED BY <3>1, <3>2, <3>3
  <2> QED BY <1>3, <2>2, <2>3, LoginEffect
<1> QED BY <1>1, <1>2, <1>3, CustodyShape DEF KeyHandlers, VaultInv

\* What a request that does not set the password does to keys.
LEMMA OtherWraps ==
  ASSUME CustodyTypeOK, StartInv, NEW h \in Handlers, Working(h), ~SetsPassword(req[h].op)
  PROVE  /\ stranded' = stranded
         /\ \A k \in Keys :
              \/ wrap'[k] = wrap[k] \/ wrap'[k] = Missing
              \/ /\ wrap'[k] = Under(req[h].new) /\ row' = row
                 /\ req[h].op = "register" \/ (req[h].op = "login" /\ wrap[k] # Missing)
<1> USE DEF rowVars, histVars
<1>0. wrap \in [Keys -> Wraps]
  BY DEF CustodyTypeOK
<1>1. stranded' = stranded
  BY DEF Working, Disconnect, Crash, ProvisionUser, SetInitialPrimary, lastLogin, ListLegacy, LoginEnds, ReWrap,
         ListFails, commitPassword, ChangeFailed, resetVaultCredential, GetUser, rewrapKeyUnderPassphrase,
         commitRecovery, saveMFA, revokeAll, DeleteUserpassAccount, DeletePolicy, DeleteUser, DeleteTransitKey,
         RecordRetainedDeletion, createInitialSigningKey, rewrapLegacyLocalKeys, rewrapPassphraseKeys, restore,
         DeleteKey, At, SetsPassword
<1>2. CASE \E k \in Keys : createInitialSigningKey(h, k)
  BY <1>0, <1>1, <1>2 DEF createInitialSigningKey, At
<1>3. CASE \E k \in Keys : rewrapLegacyLocalKeys(h, k)
  BY <1>0, <1>1, <1>3 DEF rewrapLegacyLocalKeys, UpdateKeyEncryption, UpdateFails, At
<1>4. CASE DeleteUser(h) \/ \E k \in Keys : DeleteKey(h, k)
  BY <1>0, <1>1, <1>4 DEF DeleteUser, DeleteKey
<1>5. CASE ~(DeleteUser(h) \/ \E k \in Keys : createInitialSigningKey(h, k) \/ rewrapLegacyLocalKeys(h, k) \/ DeleteKey(h, k))
  <2>1. wrap' = wrap
    BY <1>5 DEF Working, Disconnect, Crash, ProvisionUser, SetInitialPrimary, lastLogin, ListLegacy, LoginEnds, ReWrap,
         ListFails, commitPassword, ChangeFailed, resetVaultCredential, GetUser, rewrapKeyUnderPassphrase,
         commitRecovery, saveMFA, revokeAll, DeleteUserpassAccount, DeletePolicy, DeleteTransitKey,
         RecordRetainedDeletion, rewrapPassphraseKeys, restore, At, SetsPassword
  <2> QED BY <1>1, <2>1
<1> QED BY <1>2, <1>3, <1>4, <1>5

\* No handler is done with a roll-back that it did not make.
LEMMA BrokenStays ==
  ASSUME CustodyTypeOK, NEW h \in Handlers, Working(h), broken
  PROVE  broken'
BY DEF Working, Disconnect, Crash, ProvisionUser, SetInitialPrimary, lastLogin, ListLegacy, LoginEnds, ReWrap,
         ListFails, commitPassword, ChangeFailed, resetVaultCredential, GetUser, rewrapKeyUnderPassphrase,
         commitRecovery, saveMFA, revokeAll, DeleteUserpassAccount, DeletePolicy, DeleteUser, DeleteTransitKey,
         RecordRetainedDeletion, createInitialSigningKey, rewrapLegacyLocalKeys, rewrapPassphraseKeys, restore,
         DeleteKey, histVars

\* The part of KeyInv about keys, when h is the one that sets the password.
Covered(h) ==
  \A k \in PassphraseEncrypted :
    \/ wrap[k].pw = row.pw \/ k \in stranded
    \/ req[h].at \in {"write", "restore"} /\ k \in req[h].written

\* A change or a recovery that has not failed half-way keeps its books right.
LEMMA SetterKeys ==
  ASSUME CustodyTypeOK, StartInv, GoneInv, SnapInv, NEW h \in Handlers, Working(h), SetsPassword(req[h].op),
         ~overlapped, ~broken', KeysKnown(h), Covered(h), row.pw # 0
  PROVE  Covered(h)' /\ (SetsPassword(req'[h].op) => KeysKnown(h)')
<1> USE DEF rowVars, histVars, At
<1>0. /\ req[h] \in Handling /\ h \in DOMAIN req /\ wrap \in [Keys -> Wraps]
      /\ Moves(h) /\ passwords # 0
  BY MovesStep DEF CustodyTypeOK, Moves, StartInv, AllIdle, Idle
<1>1. ASSUME NEW c, Become(h, c) PROVE req'[h] = c
  BY <1>0, <1>1 DEF Become
<1>2. req[h].at # "vault" => req[h].snap.pw = row.pw
  BY DEF SnapInv, SetsPassword
<1>3. CASE Return(h) /\ UNCHANGED <<wrap, row, stranded>>
           /\ (req[h].at \in {"write", "restore"} => req[h].written = {})
  <2>1. req'[h] = Idle
    BY <1>1, <1>3 DEF Return
  <2> QED BY <1>3, <2>1 DEF Covered, PassphraseEncrypted, SetsPassword, Idle
<1>4. CASE Disconnect(h)
  <2>1. req'[h] = [req[h] EXCEPT !.gone = TRUE]
    BY <1>1, <1>4 DEF Disconnect
  <2>2. req'[h].at = req[h].at /\ req'[h].written = req[h].written /\ req'[h].todo = req[h].todo
        /\ req'[h].op = req[h].op /\ req'[h].new = req[h].new /\ UNCHANGED <<wrap, row, stranded>>
    BY <1>0, <1>4, <2>1 DEF Disconnect, Handling
  <2> QED BY <2>2 DEF Covered, KeysKnown, PassphraseEncrypted
<1>5. CASE Crash(h)
  BY <1>3, <1>5 DEF Crash, HalfWritten
<1>6. CASE ReWrap(h)
  <2>1. CASE Return(h)
    BY <1>3, <1>6, <2>1 DEF ReWrap
  <2>2. CASE Become(h, [req[h] EXCEPT !.at = "write", !.todo = PassphraseEncrypted])
    <3>1. req'[h].at = "write" /\ req'[h].todo = PassphraseEncrypted /\ req'[h].written = req[h].written
      BY <1>0, <1>1, <2>2 DEF Handling
    <3>2. req[h].at = "list" /\ req[h].written = {} /\ UNCHANGED <<wrap, row, stranded>>
      BY <1>6 DEF ReWrap, KeysKnown
    <3> QED BY <3>1, <3>2 DEF Covered, KeysKnown, PassphraseEncrypted
  <2> QED BY <1>6, <2>1, <2>2 DEF ReWrap
<1>7. CASE ListFails(h) \/ ChangeFailed(h) \/ resetVaultCredential(h)
  BY <1>3, <1>7 DEF ListFails, ChangeFailed, resetVaultCredential
<1>8. ASSUME NEW k \in Keys, rewrapPassphraseKeys(h, k)
      PROVE  Covered(h)' /\ (SetsPassword(req'[h].op) => KeysKnown(h)')
  <2>0. req[h].at = "write" /\ UNCHANGED <<row, stranded>>
    BY <1>8 DEF rewrapPassphraseKeys
  <2>1. CASE UpdateFails(h, k) /\ Goto(h, "restore")
    <3>1. req'[h].at = "restore" /\ req'[h].written = req[h].written /\ UNCHANGED wrap
      BY <1>0, <1>1, <2>1 DEF Goto, Handling, UpdateFails
    <3> QED BY <2>0, <3>1 DEF Covered, KeysKnown, PassphraseEncrypted
  <2>2. CASE /\ UpdateKeyEncryption(h, k, Under(req[h].new))
             /\ Become(h, [req[h] EXCEPT !.todo = @ \ {k}, !.written = @ \cup {k}])
    <3>1. /\ req'[h].at = "write" /\ req'[h].new = req[h].new
          /\ req'[h].todo = req[h].todo \ {k} /\ req'[h].written = req[h].written \cup {k}
      BY <1>0, <1>1, <2>0, <2>2 DEF Handling
    <3>2. wrap'[k].pw = req[h].new /\ \A l \in Keys \ {k} : wrap'[l] = wrap[l]
      BY <1>0, <2>2 DEF UpdateKeyEncryption, Under
    <3> QED BY <2>0, <3>1, <3>2 DEF Covered, KeysKnown, PassphraseEncrypted
  <2> QED BY <1>8, <2>1, <2>2 DEF rewrapPassphraseKeys
<1>9. CASE commitPassword(h)
  <2>0. req[h].at = "write" /\ req[h].todo = {} /\ UNCHANGED <<wrap, stranded>>
    BY <1>9 DEF commitPassword
  <2>1. CASE Goto(h, "restore") /\ UNCHANGED row
    <3>1. req'[h].at = "restore" /\ req'[h].written = req[h].written
      BY <1>0, <1>1, <2>1 DEF Goto, Handling
    <3> QED BY <2>0, <2>1, <3>1 DEF Covered, KeysKnown, PassphraseEncrypted
  <2>2. CASE Goto(h, "vault") /\ row' = [req[h].snap EXCEPT !.pw = req[h].new]
    <3>1. req'[h].at = "vault" /\ row'.pw = req[h].new
      BY <1>0, <1>1, <2>2 DEF Goto, Handling, Rows
    <3> QED BY <2>0, <3>1 DEF Covered, KeysKnown, PassphraseEncrypted
  <2> QED BY <1>9, <2>1, <2>2 DEF commitPassword, UpdateUser
<1>10. ASSUME NEW k \in Keys, restore(h, k)
       PROVE  Covered(h)' /\ (SetsPassword(req'[h].op) => KeysKnown(h)')
  <2>0. req[h].at = "restore" /\ UNCHANGED <<row, stranded>>
    BY <1>10 DEF restore
  <2>1. req'[h].at = "restore" /\ req'[h].written = req[h].written \ {k}
    BY <1>0, <1>1, <1>10, <2>0 DEF restore, Handling
  <2>2. CASE UpdateKeyEncryption(h, k, Under(req[h].snap.pw))
    <3>1. wrap'[k].pw = row.pw /\ \A l \in Keys \ {k} : wrap'[l] = wrap[l]
      BY <1>0, <1>2, <2>0, <2>2 DEF UpdateKeyEncryption, Under
    <3> QED BY <2>0, <2>1, <3>1 DEF Covered, KeysKnown, PassphraseEncrypted
  <2>3. CASE UpdateFails(h, k) /\ broken' = (broken \/ wrap[k] # Missing)
    <3>1. wrap[k] = Missing /\ UNCHANGED wrap
      BY <2>3 DEF UpdateFails
    <3>2. k \notin PassphraseEncrypted
      BY <3>1 DEF PassphraseEncrypted, Missing
    <3> QED BY <2>0, <2>1, <3>1, <3>2 DEF Covered, KeysKnown, PassphraseEncrypted
  <2> QED BY <1>10, <2>2, <2>3 DEF restore
<1>11. CASE GetUser(h)
  <2>0. req[h].op = "recover" /\ req[h].at = "read" /\ req[h].written = {} /\ UNCHANGED <<wrap, row, stranded>>
    BY <1>11 DEF GetUser, KeysKnown
  <2>1. CASE Return(h)
    BY <1>3, <2>0, <2>1
  <2>2. CASE Become(h, [req[h] EXCEPT !.at = "write", !.snap = row])
    <3>1. req'[h].at = "write" /\ req'[h].todo = req[h].todo /\ req'[h].written = {}
      BY <1>0, <1>1, <2>0, <2>2 DEF Handling
    <3> QED BY <2>0, <3>1 DEF Covered, KeysKnown, PassphraseEncrypted
  <2> QED BY <1>11, <2>1, <2>2 DEF GetUser
<1>12. CASE rewrapKeyUnderPassphrase(h)
  <2>0. req[h].at = "write" /\ req[h].op = "recover" /\ req[h].written = {} /\ UNCHANGED row /\ req[h].key \in Keys
    BY <1>12 DEF rewrapKeyUnderPassphrase, StartInv
  <2>1. CASE UpdateFails(h, req[h].key) /\ Return(h) /\ UNCHANGED stranded
    BY <1>3, <2>0, <2>1 DEF UpdateFails
  <2>2. CASE /\ UpdateKeyEncryption(h, req[h].key, Under(req[h].new))
             /\ Become(h, [req[h] EXCEPT !.written = {req[h].key}])
             /\ stranded' = stranded \ {req[h].key}
    <3>1. /\ req'[h].at = "write" /\ req'[h].new = req[h].new /\ req'[h].todo = req[h].todo
          /\ req'[h].written = {req[h].key}
      BY <1>0, <1>1, <2>0, <2>2 DEF Handling
    <3>2. wrap'[req[h].key].pw = req[h].new /\ \A l \in Keys \ {req[h].key} : wrap'[l] = wrap[l]
      BY <1>0, <2>0, <2>2 DEF UpdateKeyEncryption, Under
    <3> QED BY <2>0, <2>2, <3>1, <3>2 DEF Covered, KeysKnown, PassphraseEncrypted
  <2> QED BY <1>12, <2>1, <2>2 DEF rewrapKeyUnderPassphrase
<1>13. CASE commitRecovery(h)
  <2>0. req[h].at = "write" /\ UNCHANGED wrap
    BY <1>13 DEF commitRecovery
  <2>1. CASE UNCHANGED <<row, committed, stranded>> /\ Return(h) /\ broken' = (broken \/ req[h].written # {})
    BY <1>3, <2>0, <2>1
  <2>2. CASE /\ row' = [req[h].snap EXCEPT !.pw = req[h].new] /\ Goto(h, "vault")
             /\ stranded' = stranded \cup (req[h].todo \ req[h].written)
    <3>1. req'[h].at = "vault" /\ row'.pw = req[h].new
      BY <1>0, <1>1, <2>2 DEF Goto, Handling, Rows
    <3> QED BY <2>0, <2>2, <3>1 DEF Covered, KeysKnown, PassphraseEncrypted
  <2> QED BY <1>13, <2>1, <2>2 DEF commitRecovery, UpdateUser
<1>14. ~(ProvisionUser(h) \/ SetInitialPrimary(h) \/ lastLogin(h) \/ ListLegacy(h) \/ LoginEnds(h) \/ saveMFA(h)
         \/ revokeAll(h) \/ DeleteUserpassAccount(h) \/ DeletePolicy(h) \/ DeleteUser(h) \/ DeleteTransitKey(h)
         \/ RecordRetainedDeletion(h)
         \/ \E k \in Keys : createInitialSigningKey(h, k) \/ rewrapLegacyLocalKeys(h, k) \/ DeleteKey(h, k))
  BY DEF ProvisionUser, SetInitialPrimary, lastLogin, ListLegacy, LoginEnds, saveMFA, revokeAll, DeleteUserpassAccount,
         DeletePolicy, DeleteUser, DeleteTransitKey, RecordRetainedDeletion, createInitialSigningKey,
         rewrapLegacyLocalKeys, DeleteKey, deleteStep, StartInv, SetsPassword
<1> QED BY <1>4, <1>5, <1>6, <1>7, <1>8, <1>9, <1>10, <1>11, <1>12, <1>13, <1>14 DEF Working

\* A request that sets the password writes nothing before it has read.
LEMMA NothingWrittenFirst ==
  ASSUME CustodyTypeOK, NEW h \in Handlers, Working(h), SetsPassword(req[h].op), req'[h].at \in {"list", "read"},
         StartInv, req[h].at \in {"list", "read"} => req[h].written = {}
  PROVE  req'[h].written = {}
<1> USE DEF At
<1>0. req[h] \in Handling /\ h \in DOMAIN req
  BY DEF CustodyTypeOK
<1>1. ASSUME NEW c, Become(h, c) PROVE req'[h] = c
  BY <1>0, <1>1 DEF Become
<1>2. CASE Return(h)
  BY <1>1, <1>2 DEF Return, Idle
<1>3. CASE Disconnect(h)
  <2>1. req'[h] = [req[h] EXCEPT !.gone = TRUE]
    BY <1>1, <1>3 DEF Disconnect
  <2> QED BY <1>0, <2>1 DEF Handling
<1>4. CASE \E k \in Keys : rewrapPassphraseKeys(h, k) \/ restore(h, k)
  <2>1. PICK k \in Keys : rewrapPassphraseKeys(h, k) \/ restore(h, k)
    BY <1>4
  <2>2. req[h].at \in {"write", "restore"}
    BY <2>1 DEF rewrapPassphraseKeys, restore
  <2>3. \/ Goto(h, "restore")
        \/ Become(h, [req[h] EXCEPT !.todo = @ \ {k}, !.written = @ \cup {k}])
        \/ Become(h, [req[h] EXCEPT !.written = @ \ {k}])
    BY <2>1 DEF rewrapPassphraseKeys, restore
  <2>4. req'[h].at \in {"write", "restore"}
    BY <1>0, <1>1, <2>2, <2>3 DEF Goto, Handling
  <2> QED BY <2>4
<1>5. CASE ReWrap(h) \/ GetUser(h)
  <2>1. \/ Return(h) \/ Become(h, [req[h] EXCEPT !.at = "write", !.todo = PassphraseEncrypted])
        \/ Become(h, [req[h] EXCEPT !.at = "write", !.snap = row])
    BY <1>5 DEF ReWrap, GetUser
  <2> QED BY <1>0, <1>1, <1>2, <2>1 DEF Handling
<1>6. CASE commitPassword(h) \/ commitRecovery(h)
  <2>1. Return(h) \/ Goto(h, "vault") \/ Goto(h, "restore")
    BY <1>6 DEF commitPassword, commitRecovery
  <2> QED BY <1>0, <1>1, <1>2, <2>1 DEF Goto, Handling
<1>7. CASE rewrapKeyUnderPassphrase(h)
  <2>1. (Become(h, [req[h] EXCEPT !.written = {req[h].key}]) \/ Return(h)) /\ req[h].at = "write"
    BY <1>7 DEF rewrapKeyUnderPassphrase
  <2> QED BY <1>0, <1>1, <1>2, <2>1 DEF Handling
<1>8. CASE Crash(h) \/ ListFails(h) \/ ChangeFailed(h) \/ resetVaultCredential(h)
  BY <1>2, <1>8 DEF Crash, ListFails, ChangeFailed, resetVaultCredential
<1>9. ~(ProvisionUser(h) \/ SetInitialPrimary(h) \/ lastLogin(h) \/ ListLegacy(h) \/ LoginEnds(h) \/ saveMFA(h)
        \/ revokeAll(h) \/ DeleteUserpassAccount(h) \/ DeletePolicy(h) \/ DeleteUser(h) \/ DeleteTransitKey(h)
        \/ RecordRetainedDeletion(h)
        \/ \E k \in Keys : createInitialSigningKey(h, k) \/ rewrapLegacyLocalKeys(h, k) \/ DeleteKey(h, k))
  BY DEF ProvisionUser, SetInitialPrimary, lastLogin, ListLegacy, LoginEnds, saveMFA, revokeAll, DeleteUserpassAccount,
         DeletePolicy, DeleteUser, DeleteTransitKey, RecordRetainedDeletion, createInitialSigningKey,
         rewrapLegacyLocalKeys, DeleteKey, deleteStep, StartInv, SetsPassword
<1> QED BY <1>3, <1>4, <1>5, <1>6, <1>7, <1>8, <1>9 DEF Working

\* Every step keeps KeyInv.
LEMMA KeyInvStep ==
  ASSUME CustodyTypeOK, StartInv, GoneInv, SnapInv, KeyInv, CustodyNext
  PROVE  KeyInv'
<1>0. passwords \in Nat /\ wrap \in [Keys -> Wraps]
  BY CustodyAssumption DEF CustodyTypeOK, Passwords
<1>1. CASE KeyHandlers
  <2>1. UNCHANGED <<row, req, overlapped, broken>>
    BY <1>1, KeyHandlersEffect
  <2>2. \A k \in PassphraseEncrypted' : /\ k \in PassphraseEncrypted /\ wrap'[k] = wrap[k]
                                        /\ k \in stranded => k \in stranded'
    <3>1. CASE sweepRetainedDeletions \/ changeSignerPolicy
      BY <3>1 DEF sweepRetainedDeletions, changeSignerPolicy, PassphraseEncrypted, histVars
    <3>2. ASSUME NEW k \in Keys, handleCreateKey(k)
          PROVE  \A l \in Keys : /\ wrap'[l] = wrap[l] \/ wrap'[l].by # "password"
                                 /\ l # k /\ l \in stranded => l \in stranded'
                                 /\ wrap'[k].by # "password"
      BY <1>0, <3>2 DEF handleCreateKey, getUserVaultEncryptor, Server, Transit
    <3>3. ASSUME NEW k \in Keys, handleDeleteKey(k) \/ handleSetPrimaryKey(k)
          PROVE  stranded' = stranded /\ \A l \in Keys : wrap'[l] = wrap[l] \/ wrap'[l].by # "password"
      BY <1>0, <3>3 DEF handleDeleteKey, handleSetPrimaryKey, Missing, histVars
    <3> QED BY <1>1, <3>1, <3>2, <3>3 DEF KeyHandlers, PassphraseEncrypted
  <2> QED BY <2>1, <2>2 DEF KeyInv, KeysKnown, SetsPassword
<1>2. ASSUME NEW h \in Handlers, Starting(h)
      PROVE  KeyInv'
  <2>1. Begins(h)
    BY <1>2, BeginsStep
  <2>2. SUFFICES ASSUME ~overlapped', ~broken' PROVE KeyInv'
    BY DEF KeyInv
  <2>3. ~overlapped /\ ~broken /\ UNCHANGED <<wrap, stranded>>
    BY <2>1, <2>2 DEF Begins
  <2>4. PassphraseEncrypted' = PassphraseEncrypted
    BY <2>3 DEF PassphraseEncrypted
  <2>5. \A k \in PassphraseEncrypted' : row' = row
    BY <2>1, <2>4 DEF Begins, StartInv, PassphraseEncrypted, Owned, Missing
  <2>6. \A g \in Handlers : SetsPassword(req'[g].op) => KeysKnown(g)'
    <3>1. SUFFICES ASSUME NEW g \in Handlers, SetsPassword(req'[g].op) PROVE KeysKnown(g)'
      OBVIOUS
    <3>2. CASE g = h
      BY <2>1, <2>4, <3>1, <3>2 DEF Begins, Fresh, KeysKnown, SetsPassword
    <3>3. CASE g # h
      <4>1. req'[g] = req[g]
        BY <2>1, <3>3 DEF Begins
      <4> QED BY <2>3, <2>4, <3>1, <4>1 DEF KeyInv, KeysKnown
    <3> QED BY <3>2, <3>3
  <2>7. \A g \in Handlers : SetsPassword(req[g].op) => req'[g] = req[g]
    BY <2>1 DEF Begins, Idle, SetsPassword
  <2>8. \A k \in PassphraseEncrypted' :
          \/ wrap'[k].pw = row'.pw \/ k \in stranded'
          \/ \E g \in Handlers :
               SetsPassword(req'[g].op) /\ req'[g].at \in {"write", "restore"} /\ k \in req'[g].written
    BY <2>3, <2>4, <2>5, <2>7 DEF KeyInv
  <2> QED BY <2>6, <2>8 DEF KeyInv
<1>3. ASSUME NEW h \in Handlers, Working(h)
      PROVE  KeyInv'
  <2>1. Moves(h) /\ (row' = row \/ RowWriter(h)) /\ req[h].op # "idle"
    BY <1>3, MovesStep, RowEffect DEF Moves
  <2>2. SUFFICES ASSUME ~overlapped', ~broken' PROVE KeyInv'
    BY DEF KeyInv
  <2>3. ~overlapped /\ ~broken
    BY <1>3, <2>1, <2>2, BrokenStays DEF Moves
  <2>4. \A g \in Handlers : SetsPassword(req[g].op) => g = h
    BY <2>1, <2>3, SetterAlone
  <2>5. \A g \in Handlers : SetsPassword(req'[g].op) => g = h /\ SetsPassword(req[h].op)
    BY <2>1, <2>4 DEF Moves, Onward, Idle, SetsPassword
  <2>6. passwords # 0
    BY <2>1 DEF StartInv, AllIdle, Idle
  <2>7. CASE row.pw = 0
    <3>1. Owned = {} /\ req[h].op # "register"
      BY <1>0, <2>1, <2>6, <2>7 DEF GoneInv, NothingOutlivesAccount, StartInv
    <3>2. PassphraseEncrypted' = {}
      BY <1>3, <3>1, OnlyRegistrationAdds DEF Owned, PassphraseEncrypted, Missing
    <3>3. \A g \in Handlers : SetsPassword(req'[g].op) => KeysKnown(g)'
      BY <1>3, <2>3, <2>5, <3>2, NothingWrittenFirst DEF KeyInv, KeysKnown
    <3> QED BY <3>2, <3>3 DEF KeyInv
  <2>8. CASE row.pw # 0 /\ SetsPassword(req[h].op)
    <3>1. KeysKnown(h)
      BY <2>3, <2>8 DEF KeyInv
    <3>2. Covered(h)
      BY <2>3, <2>4 DEF KeyInv, Covered
    <3>3. Covered(h)' /\ (SetsPassword(req'[h].op) => KeysKnown(h)')
      BY <1>3, <2>2, <2>3, <2>8, <3>1, <3>2, SetterKeys
    <3>4. \A k \in PassphraseEncrypted' :
            k \in req'[h].written /\ req'[h].at \in {"write", "restore"} => SetsPassword(req'[h].op)
      BY <2>1, <2>8 DEF Moves, Onward, Idle
    <3> QED BY <2>5, <3>3, <3>4 DEF KeyInv, Covered
  <2>9. CASE row.pw # 0 /\ ~SetsPassword(req[h].op)
    <3>1. \A k \in PassphraseEncrypted : wrap[k].pw = row.pw \/ k \in stranded
      BY <2>3, <2>4, <2>9 DEF KeyInv
    <3>2. row'.pw = row.pw \/ PassphraseEncrypted' = {}
      <4>1. CASE req[h].op = "delete" /\ row' # row
        BY <1>3, <4>1, DeletionOfTheRow DEF Owned, PassphraseEncrypted, Missing
      <4> QED BY <2>1, <2>3, <2>9, <4>1, PasswordStays
    <3>3. req[h].op \in {"register", "login"} => req[h].new = row.pw
      BY <2>3, <2>9 DEF StartInv, SnapInv, SetsPassword
    <3>4. \A k \in PassphraseEncrypted' : wrap'[k].pw = row'.pw \/ k \in stranded'
      <4>1. SUFFICES ASSUME NEW k \in PassphraseEncrypted' PROVE wrap'[k].pw = row'.pw \/ k \in stranded'
        OBVIOUS
      <4>2. k \in Keys /\ wrap'[k].by = "password" /\ row'.pw = row.pw
        BY <3>2 DEF PassphraseEncrypted
      <4>3. wrap'[k] # Missing /\ Under(req[h].new).pw = req[h].new
        BY <4>2 DEF Missing, Under
      <4>4. wrap'[k] = wrap[k] \/ (wrap'[k] = Under(req[h].new) /\ req[h].op \in {"register", "login"})
        BY <1>3, <2>9, <4>2, <4>3, OtherWraps
      <4>5. stranded' = stranded
        BY <1>3, <2>9, OtherWraps
      <4>6. wrap'[k] = wrap[k] => k \in PassphraseEncrypted
        BY <4>2 DEF PassphraseEncrypted
      <4> QED BY <3>1, <3>3, <4>2, <4>3, <4>4, <4>5, <4>6
    <3> QED BY <2>5, <2>9, <3>4 DEF KeyInv
  <2> QED BY <2>7, <2>8, <2>9
<1> QED BY <1>1, <1>2, <1>3, CustodyShape DEF KeyHandlers

\* It holds at first.
LEMMA CustodyInitially ==
  ASSUME CustodyInit
  PROVE  CustodyInv
<1> USE CustodyAssumption DEF CustodyInit
<1>1. CustodyTypeOK
  <2>1. Idle \in Handling /\ 0 \in Passwords /\ NoAccount \in Rows
    BY DEF Idle, Handling, Passwords, Rows, NoAccount
  <2>2. Missing \in Wraps
    BY DEF Wraps
  <2>3. 0 \in 0..MaxHandled /\ 0 \in 0..MaxCustodyFaults
    OBVIOUS
  <2>4. vault \in [login : Passwords, policy : BOOLEAN, transit : BOOLEAN, mayDelete : BOOLEAN]
    BY <2>1
  <2> HIDE DEF CustodyInit
  <2>5. row = NoAccount /\ primary = NoKey /\ wrap = [k \in Keys |-> Missing] /\ req = [h \in Handlers |-> Idle]
        /\ begun = 0 /\ passwords = 0 /\ committed = 0 /\ stranded = {} /\ custodyFaults = 0
        /\ ~retained /\ ~overlapped /\ ~broken /\ ~behind /\ ~lost
        /\ {retained, overlapped, broken, behind, lost} \subseteq BOOLEAN
    BY DEF CustodyInit
  <2> QED BY <2>1, <2>2, <2>3, <2>4, <2>5 DEF CustodyTypeOK
<1>2. \A h \in Handlers : req[h] = Idle
  OBVIOUS
<1>3. row.pw = 0 /\ vault.login = 0 /\ Owned = {} /\ PassphraseEncrypted = {} /\ passwords = 0
  BY DEF NoAccount, Owned, PassphraseEncrypted, Missing
<1>4. /\ Idle.op = "idle" /\ Idle.at = "done" /\ ~SetsPassword(Idle.op) /\ ~Idle.touch
  BY DEF Idle, SetsPassword
<1> HIDE DEF CustodyInit
<1>5. StartInv
  BY <1>2, <1>3, <1>4 DEF StartInv, AllIdle
<1>6. GoneInv
  BY <1>2, <1>3, <1>4 DEF GoneInv, NothingOutlivesAccount
<1>7. SnapInv
  BY <1>2, <1>3, <1>4 DEF SnapInv
<1>8. VaultInv
  BY <1>3 DEF VaultInv
<1>9. KeyInv
  BY <1>2, <1>3, <1>4 DEF KeyInv
<1>10. RecordInv
  BY <1>2, <1>3, <1>4 DEF RecordInv, TransitKeyOnRecord
<1> QED BY <1>1, <1>5, <1>6, <1>7, <1>8, <1>9, <1>10 DEF CustodyInv

\* Every step keeps it.
LEMMA CustodyStep ==
  ASSUME CustodyInv, CustodyNext
  PROVE  CustodyInv'
BY CustodyTypeStep, StartStep, GoneStep, RecordStep, SnapStep, VaultInvStep, KeyInvStep DEF CustodyInv

\* So does a step of the other parts.
LEMMA CustodyStutter ==
  ASSUME CustodyInv, UNCHANGED custodyVars
  PROVE  CustodyInv'
<1> USE DEF custodyVars, rowVars, histVars
<1>1. CustodyTypeOK' /\ StartInv' /\ GoneInv' /\ RecordInv'
  BY DEF CustodyInv, CustodyTypeOK, StartInv, GoneInv, RecordInv, NothingOutlivesAccount, TransitKeyOnRecord, AllIdle, Owned
<1>2. SnapInv' /\ VaultInv'
  BY DEF CustodyInv, SnapInv, VaultInv
<1>3. KeyInv'
  BY DEF CustodyInv, KeyInv, KeysKnown, PassphraseEncrypted
<1> QED BY <1>1, <1>2, <1>3 DEF CustodyInv

\* What it says once no request is in progress.
LEMMA CustodyMeans ==
  ASSUME CustodyInv
  PROVE  KeysFollowPassword /\ VaultFollowsPassword /\ NothingOutlivesAccount /\ TransitKeyOnRecord
<1>1. NothingOutlivesAccount /\ TransitKeyOnRecord
  BY DEF CustodyInv, GoneInv, RecordInv
<1>2. AllIdle => \A h \in Handlers : req[h].at = "done" /\ req[h].op = "idle"
  BY DEF AllIdle, Idle
<1>3. VaultFollowsPassword
  BY <1>2 DEF CustodyInv, VaultInv, VaultFollowsPassword
<1>4. KeysFollowPassword
  <2>1. \A k \in PassphraseEncrypted : wrap[k].pw = row.pw => Opens(k, row.pw)
    BY DEF PassphraseEncrypted, Opens
  <2> QED BY <1>2, <2>1 DEF CustodyInv, KeyInv, KeysFollowPassword, SetsPassword
<1> QED BY <1>1, <1>3, <1>4

\* The account, its keys and its Vault login stand to one another as the
\* handlers leave them, whatever fails and whenever the requests take turns.
THEOREM CustodyInvariant == Spec => []CustodyInv
<1>1. Init => CustodyInv
  BY CustodyInitially DEF Init
<1>2. CustodyInv /\ [Next]_accountVars => CustodyInv'
  <2>1. UNCHANGED custodyVars \/ CustodyNext => (CustodyInv => CustodyInv')
    BY CustodyStep, CustodyStutter
  <2> QED BY <2>1 DEF Next, accountVars
<1> QED BY <1>1, <1>2, PTL DEF Spec

\* Whatever fails in a password change, a recovery or a registration, every key
\* under a password stays under the account's, or a recovery has named it.
THEOREM KeysFollowPasswordAlways == Spec => []KeysFollowPassword
BY CustodyInvariant, CustodyMeans, PTL

\* The Vault login has the account's password unless Vault refused the change.
THEOREM VaultFollowsPasswordAlways == Spec => []VaultFollowsPassword
BY CustodyInvariant, CustodyMeans, PTL

\* Once the account's row is gone, no key, Vault login or policy of it is left.
THEOREM NothingOutlivesAccountAlways == Spec => []NothingOutlivesAccount
BY CustodyInvariant, CustodyMeans, PTL

\* While the transit key of a deleted account is in Vault it is on record, or a
\* deletion is about to delete or record it, or could not record it.
THEOREM TransitKeyOnRecordAlways == Spec => []TransitKeyOnRecord
BY CustodyInvariant, CustodyMeans, PTL
=============================================================================
