----------------------------- MODULE AppConnect -----------------------------
(***************************************************************************)
(* An app asks for a connection with a nostrconnect:// URI that a signed-in *)
(* user posts, to a replica that may not hold the user's key: the key is   *)
(* loaded, waited for (key_load_tracker.go) or asked for at the replica    *)
(* that holds it; the user's consent and the app's grant are stored, and   *)
(* the app gets a signed acknowledgement over its relay.  Revoking takes   *)
(* both back.  Each storage call is a step of its own and may fail.        *)
(*                                                                         *)
(* One user with one key that only the user can unlock, at replicas that   *)
(* each have a memory of their own.                                        *)
(***************************************************************************)
EXTENDS Naturals

CONSTANTS
  Apps, NoApp,
  Servers, NoServer, \* the replicas
  Posts,             \* bounds: the requests that run at a time,
  MaxPosts,          \* how many there are in all, sign-ins, revocations and settings included,
  MaxUnlocks,        \* the unlocks of sign-ins that run at a time
  MaxConnectFaults   \* and the calls that fail or take too long

ASSUME ConnectAssumption ==
  /\ NoApp \notin Apps /\ NoServer \notin Servers
  /\ {MaxPosts, MaxUnlocks, MaxConnectFaults} \subseteq Nat

VARIABLES
  holds,     \* the replicas that hold the key
  latest,    \* history, of each replica: the unlock that began last, 0 once it has ended
  running,   \* the unlocks that have not ended, and where they run
  inflight,  \* of each replica: keyLoads.inflight, 0 if there is no entry
  consents,  \* the apps with a consent
  granted,   \* the apps with a grant
  askFirst,  \* key.RequireApproval
  post,      \* the requests
  revoke,    \* handleNostrConnectRevoke
  revoked,   \* history: apps that were revoked, with none of their requests under way
             \* meanwhile, and not let in again by the user
  posts, connectFaults

storeVars == <<consents, granted, askFirst>>
unlockVars == <<latest, running, inflight>>
connectVars == <<holds, unlockVars, storeVars, post, revoke, revoked, posts, connectFaults>>

Unlocks == 1..MaxUnlocks
NoPost == [at |-> "none", kind |-> "session", app |-> NoApp, home |-> NoServer, on |-> NoServer,
           consent |-> FALSE, ask |-> FALSE, waits |-> 0, saw |-> 0, late |-> FALSE]
NoRevoke == [at |-> "none", all |-> FALSE, apps |-> {}, todo |-> {}, quiet |-> {}]

Places == {"none", "load", "consent", "gate", "wait", "forward", "recheck", "verdict",
           "record", "grant", "ack", "asked", "connected", "live", "locked", "failed"}
Post == [at : Places, kind : {"session", "form", "state"}, app : Apps \cup {NoApp},
         home : Servers \cup {NoServer}, on : Servers \cup {NoServer}, consent : BOOLEAN,
         ask : BOOLEAN, waits : 0..MaxUnlocks, saw : 0..MaxUnlocks, late : BOOLEAN]
Revocation == [at : {"none", "consents", "list", "delete"}, all : BOOLEAN, apps : SUBSET Apps,
               todo : SUBSET Apps, quiet : SUBSET Apps]

\* A question about the session is answered where it was asked, and names no app.
Proper(q) ==
  q.at # "none" =>
    /\ q.on \in Servers /\ q.home \in Servers
    /\ IF q.kind = "state" THEN q.on = q.home /\ q.at \in {"load", "gate", "wait", "verdict", "live", "locked"}
       ELSE q.app \in Apps

ConnectTypeOK ==
  /\ holds \subseteq Servers /\ consents \subseteq Apps /\ granted \subseteq Apps /\ askFirst \in BOOLEAN
  /\ latest \in [Servers -> 0..MaxUnlocks] /\ inflight \in [Servers -> 0..MaxUnlocks]
  /\ running \subseteq Unlocks \X Servers
  /\ post \in [Posts -> Post] /\ revoke \in Revocation
  /\ \A p \in Posts : Proper(post[p])
  /\ revoked \subseteq Apps /\ posts \in 0..MaxPosts /\ connectFaults \in 0..MaxConnectFaults

ConnectInit ==
  /\ holds = {} /\ latest = [r \in Servers |-> 0] /\ inflight = latest /\ running = {}
  /\ consents = {} /\ granted = {} /\ askFirst \in BOOLEAN
  /\ post = [p \in Posts |-> NoPost] /\ revoke = NoRevoke /\ revoked = {}
  /\ posts = 0 /\ connectFaults = 0

Posted == posts < MaxPosts /\ posts' = posts + 1
ConnectFault == connectFaults < MaxConnectFaults /\ connectFaults' = connectFaults + 1

-----------------------------------------------------------------------------
(* The key in the replicas' memory.                                        *)

\* An id that nothing refers to.
Unused(u) ==
  (\A r \in Servers : <<u, r>> \notin running) /\ \A p \in Posts : u \notin {post[p].waits, post[p].saw}

\* keyLoads.begin: a newer unlock takes the place of an older one.
beginUnlock(r) ==
  \E u \in Unlocks :
    /\ Posted /\ Unused(u) /\ \A v \in Unlocks : Unused(v) => u <= v
    /\ latest' = [latest EXCEPT ![r] = u] /\ inflight' = [inflight EXCEPT ![r] = u]
    /\ running' = running \cup {<<u, r>>}
    /\ UNCHANGED <<holds, storeVars, post, revoke, revoked, connectFaults>>

doneDeletesAny(entry, r, u) == [entry EXCEPT ![r] = 0]

\* The entry goes if it is this unlock's.
done(entry, r, u) == [entry EXCEPT ![r] = IF @ = u THEN 0 ELSE @]

\* The keys were loaded, or could not be.
endUnlock(r, u) ==
  /\ <<u, r>> \in running /\ running' = running \ {<<u, r>>} /\ inflight' = done(inflight, r, u)
  /\ latest' = [latest EXCEPT ![r] = IF @ = u THEN 0 ELSE @]
  /\ holds' \in {holds, holds \cup {r}}
  /\ UNCHANGED <<storeVars, post, revoke, revoked, posts, connectFaults>>

\* A sign-out drops the key; the consents go too when it is everywhere.
handleUserLogout(r) ==
  /\ r \in holds /\ Posted /\ holds' = holds \ {r} /\ consents' \in {consents, {}}
  /\ UNCHANGED <<unlockVars, granted, askFirst, post, revoke, revoked, connectFaults>>

\* Without RequireApproval every app is let in.
handleUpdateKey(b) ==
  /\ askFirst # b /\ Posted /\ askFirst' = b /\ revoked' = IF b THEN revoked ELSE {}
  /\ UNCHANGED <<holds, unlockVars, consents, granted, post, revoke, connectFaults>>

-----------------------------------------------------------------------------
(* Requests.                                                               *)

Set(p, q) == post' = [post EXCEPT ![p] = q]
Unwaited(q) == [q EXCEPT !.waits = 0, !.saw = 0, !.late = FALSE]
To(p, at) == Set(p, [post[p] EXCEPT !.at = at])
Is(p, at) == post[p].at = at
Loaded(p) == post[p].on \in holds
Forwarded(p) == post[p].on # post[p].home

Arrives(p, q) ==
  /\ Is(p, "none") /\ Posted /\ Set(p, q)
  /\ UNCHANGED <<holds, unlockVars, storeVars, connectFaults>>

\* The user lets the app in, or has not asked to be asked.
LetIn(a) == revoked' = revoked \ {a}
Disturbs(a) == revoke' = [revoke EXCEPT !.quiet = @ \ {a}]

\* The key's row is read here, with RequireApproval.
handleNostrConnectSession(p, r, a, consent) ==
  /\ Arrives(p, [NoPost EXCEPT !.at = "load", !.app = a, !.home = r, !.on = r,
                               !.consent = consent, !.ask = askFirst])
  /\ Disturbs(a) /\ IF consent \/ ~askFirst THEN LetIn(a) ELSE UNCHANGED revoked

\* The connect form: posting it is the consent.
handleNostrConnect(p, r, a) ==
  /\ Arrives(p, [NoPost EXCEPT !.at = "load", !.kind = "form", !.app = a, !.home = r, !.on = r,
                               !.consent = TRUE])
  /\ Disturbs(a) /\ LetIn(a)

handleSessionState(p, r) ==
  /\ Arrives(p, [NoPost EXCEPT !.at = "gate", !.kind = "state", !.home = r, !.on = r])
  /\ UNCHANGED <<revoke, revoked>>

\* A seal of a sign-in, or the session's Vault token, gives the key; or not.
ensureNostrConnectKeyLoaded(p) ==
  /\ Is(p, "load") /\ holds' \in {holds, holds \cup {post[p].on}}
  /\ To(p, CASE post[p].kind = "session" -> "consent"
             [] post[p].kind = "form" -> "gate"
             [] post[p].kind = "state" -> "verdict")
  /\ UNCHANGED <<unlockVars, storeVars, revoke, revoked, posts, connectFaults>>

\* An error counts as no consent.
HasAppConsent(p) ==
  /\ Is(p, "consent")
  /\ \/ post[p].app \in consents /\ To(p, "grant") /\ UNCHANGED connectFaults
     \/ /\ IF post[p].app \in consents THEN ConnectFault ELSE UNCHANGED connectFaults
        /\ To(p, IF post[p].consent THEN "record" ELSE IF post[p].ask THEN "asked" ELSE "gate")
  /\ UNCHANGED <<holds, unlockVars, storeVars, revoke, revoked, posts>>

\* Where a request goes that has, or has not, found the key loaded.
OrElse(p, q) ==
  Set(p, IF Loaded(p) THEN [Unwaited(post[p]) EXCEPT !.at = IF post[p].kind = "state" THEN "live" ELSE "record"] ELSE q)

\* The channel is taken from the tracker, if there is one.
gate(p) ==
  /\ Is(p, "gate")
  /\ OrElse(p, [post[p] EXCEPT !.at = "wait", !.waits = inflight[post[p].on], !.saw = latest[post[p].on]])
  /\ UNCHANGED <<holds, unlockVars, storeVars, revoke, revoked, posts, connectFaults>>

NextTry(p) == IF post[p].kind = "state" THEN "load" ELSE IF Forwarded(p) THEN "locked" ELSE "forward"

\* Until the unlock has ended, for five seconds at most.
wait(p) ==
  /\ Is(p, "wait")
  /\ \/ <<post[p].waits, post[p].on>> \notin running /\ UNCHANGED connectFaults
        /\ OrElse(p, [post[p] EXCEPT !.at = NextTry(p)])
     \/ <<post[p].waits, post[p].on>> \in running /\ ConnectFault
        /\ OrElse(p, [post[p] EXCEPT !.at = NextTry(p), !.late = TRUE])
  /\ UNCHANGED <<holds, unlockVars, storeVars, revoke, revoked, posts>>

\* The replica of the location record, which may have lost the key since, gets
\* the request as it is; of the form, as a session request with consent.
forwardSession(p) ==
  /\ Is(p, "forward")
  /\ \/ \E r \in Servers \ {post[p].home} :
          Set(p, [Unwaited(post[p]) EXCEPT !.at = "load", !.kind = "session", !.on = r, !.ask = askFirst])
     \/ To(p, "recheck")
  /\ UNCHANGED <<holds, unlockVars, storeVars, revoke, revoked, posts, connectFaults>>

\* The forward failed, or its answer was lost.
recheck(p) ==
  /\ Is(p, "recheck") /\ OrElse(p, [post[p] EXCEPT !.at = "locked"])
  /\ UNCHANGED <<holds, unlockVars, storeVars, revoke, revoked, posts, connectFaults>>

\* handleSessionState: here, or in another replica's location record.
heldElsewhere(p) ==
  /\ Is(p, "verdict") /\ \E at \in {"live", "locked"} : OrElse(p, [post[p] EXCEPT !.at = at])
  /\ UNCHANGED <<holds, unlockVars, storeVars, revoke, revoked, posts, connectFaults>>

\* An error does not stop the approval.
RecordAppConsent(p) ==
  /\ Is(p, "record") /\ To(p, "grant")
  /\ \/ consents' = consents \cup {post[p].app} /\ UNCHANGED connectFaults
     \/ ConnectFault /\ UNCHANGED consents
  /\ UNCHANGED <<holds, unlockVars, granted, askFirst, revoke, revoked, posts>>

approveNostrConnect(p) ==
  /\ Is(p, "grant")
  /\ \/ granted' = granted \cup {post[p].app} /\ To(p, "ack") /\ UNCHANGED connectFaults
     \/ ConnectFault /\ UNCHANGED granted /\ To(p, "failed")
  /\ UNCHANGED <<holds, unlockVars, consents, askFirst, revoke, revoked, posts>>

\* Without the key, or a relay, there is no acknowledgement; the answer is the
\* same.  A seal may give the key once more.
SendNostrConnectResponse(p) ==
  /\ Is(p, "ack") /\ To(p, "connected") /\ holds' \in {holds, holds \cup {post[p].on}}
  /\ UNCHANGED <<unlockVars, storeVars, revoke, revoked, posts, connectFaults>>

Answers == {"asked", "connected", "live", "locked", "failed"}

\* The answer of a forwarded request may be lost on its way back.
answer(p) ==
  /\ post[p].at \in Answers
  /\ \/ Set(p, NoPost) /\ UNCHANGED connectFaults
     \/ Forwarded(p) /\ ConnectFault /\ Set(p, [post[p] EXCEPT !.at = "recheck", !.on = post[p].home])
  /\ UNCHANGED <<holds, unlockVars, storeVars, revoke, revoked, posts>>

-----------------------------------------------------------------------------
(* Revoking.  Errors are logged, and the answer is that it was done.       *)

\* Of one app, or of all of them.
handleNostrConnectRevoke(apps, all) ==
  /\ revoke = NoRevoke /\ Posted
  /\ revoke' = [at |-> "consents", all |-> all, apps |-> apps, todo |-> {},
                quiet |-> {a \in apps : \A p \in Posts : post[p].app # a}]
  /\ UNCHANGED <<holds, unlockVars, storeVars, post, revoked, connectFaults>>

RevokeNoConsent ==
  /\ revoke.at = "consents" /\ revoke' = [revoke EXCEPT !.at = "list"]
  /\ UNCHANGED <<holds, unlockVars, storeVars, post, revoked, posts, connectFaults>>

RevokeAppConsent ==
  /\ revoke.at = "consents"
  /\ \/ /\ consents' = consents \ revoke.apps /\ UNCHANGED connectFaults
        /\ revoke' = [revoke EXCEPT !.at = "list"]
     \/ /\ ConnectFault /\ UNCHANGED consents
        /\ revoke' = [revoke EXCEPT !.at = "list", !.quiet = {}]
  /\ UNCHANGED <<holds, unlockVars, granted, askFirst, post, revoked, posts>>

\* Of all apps, those that have a grant now.
ListPermissions ==
  /\ revoke.at = "list"
  /\ \/ /\ revoke' = [revoke EXCEPT !.at = "delete",
                        !.todo = IF revoke.all THEN granted ELSE revoke.apps]
        /\ UNCHANGED connectFaults
     \/ /\ revoke.all /\ ConnectFault
        /\ revoke' = [revoke EXCEPT !.at = "delete", !.quiet = {}]
  /\ UNCHANGED <<holds, unlockVars, storeVars, post, revoked, posts>>

DeletePermission(a) ==
  /\ revoke.at = "delete" /\ a \in revoke.todo
  /\ \/ /\ granted' = granted \ {a} /\ UNCHANGED connectFaults
        /\ revoke' = [revoke EXCEPT !.todo = @ \ {a}]
     \/ /\ ConnectFault /\ UNCHANGED granted
        /\ revoke' = [revoke EXCEPT !.todo = @ \ {a}, !.quiet = @ \ {a}]
  /\ UNCHANGED <<holds, unlockVars, consents, askFirst, post, revoked, posts>>

RevokeEnds ==
  /\ revoke.at = "delete" /\ revoke.todo = {} /\ revoke' = NoRevoke
  /\ revoked' = IF askFirst THEN revoked \cup revoke.quiet ELSE revoked
  /\ UNCHANGED <<holds, unlockVars, storeVars, post, posts, connectFaults>>

-----------------------------------------------------------------------------

PostStep(p) ==
  \/ ensureNostrConnectKeyLoaded(p) \/ HasAppConsent(p) \/ gate(p) \/ wait(p) \/ forwardSession(p)
  \/ recheck(p) \/ heldElsewhere(p) \/ RecordAppConsent(p) \/ approveNostrConnect(p)
  \/ SendNostrConnectResponse(p) \/ answer(p)

ConnectNext ==
  \/ \E r \in Servers :
       \/ beginUnlock(r) \/ handleUserLogout(r)
       \/ \E u \in Unlocks : endUnlock(r, u)
       \/ \E p \in Posts :
            \/ handleSessionState(p, r)
            \/ \E a \in Apps :
                 \/ handleNostrConnect(p, r, a)
                 \/ \E consent \in BOOLEAN : handleNostrConnectSession(p, r, a, consent)
  \/ \E b \in BOOLEAN : handleUpdateKey(b)
  \/ \E p \in Posts : PostStep(p)
  \/ handleNostrConnectRevoke(Apps, TRUE) \/ \E a \in Apps : handleNostrConnectRevoke({a}, FALSE)
  \/ RevokeAppConsent \/ ListPermissions \/ (\E a \in Apps : DeletePermission(a)) \/ RevokeEnds

-----------------------------------------------------------------------------

\* An app that was revoked has no grant until the user lets it in again, also
\* when it asks once more: the consent that would let it in silently has gone
\* with the grant.  Not when a request of the app was under way meanwhile.
RevokedStaysOut == revoked \cap granted = {}

\* "wait for an unlock in flight": key_locked is answered only when the unlock
\* that began last on the replica has ended, or took too long, however the
\* unlocks of several sign-ins overlap.
LockedAfterUnlock ==
  \A p \in Posts : Is(p, "locked") /\ ~post[p].late => <<post[p].saw, post[p].on>> \notin running

-----------------------------------------------------------------------------
(* What makes them inductive.                                              *)

\* An app that is being revoked undisturbed has lost its consent, and loses its
\* grant with the list.
RevokeInv ==
  \A a \in revoke.quiet :
    /\ a \in revoke.apps /\ \A p \in Posts : post[p].app # a
    /\ revoke.at \in {"list", "delete"} => a \notin consents
    /\ revoke.at = "delete" => a \notin granted \/ a \in revoke.todo

\* A revoked app that asks again gets as far as the question.
AskedInv ==
  \A a \in revoked :
    /\ askFirst /\ a \notin consents /\ a \notin granted
    /\ \A p \in Posts : post[p].app = a =>
         /\ post[p].at \in {"load", "consent", "asked"} /\ post[p].kind = "session"
         /\ ~post[p].consent /\ post[p].ask /\ post[p].on = post[p].home

\* The tracker's entry is the unlock that began last, an id names one unlock,
\* and who no longer waits has seen the end of its own.
UnlockInv ==
  /\ inflight = latest
  /\ \A r \in Servers : latest[r] # 0 => <<latest[r], r>> \in running
  /\ \A u \in Unlocks, r, s \in Servers : <<u, r>> \in running /\ <<u, s>> \in running => r = s
  /\ \A p \in Posts :
       /\ post[p].waits = post[p].saw
       /\ post[p].at = "wait" => \A r \in Servers \ {post[p].on} : <<post[p].saw, r>> \notin running
       /\ post[p].at # "wait" /\ ~post[p].late => \A r \in Servers : <<post[p].saw, r>> \notin running

ConnectInv == ConnectTypeOK /\ RevokeInv /\ AskedInv /\ UnlockInv
=============================================================================
