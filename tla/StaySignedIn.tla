---------------------------- MODULE StaySignedIn ----------------------------
(***************************************************************************)
(* Sign-in sessions and the key they unlock.  A sign-in creates a session  *)
(* row and unlocks the user's key in the memory of one replica, in         *)
(* background tasks that outlive the response.  A sign-in that asked to    *)
(* stay signed in also stores a seal of the key, bound to its session;     *)
(* every replica restores the key from a seal it can open, and records in  *)
(* a lease that it holds the key because of one.  Signing out deletes rows *)
(* in two stores, the session store and the database, and unlocks keys on  *)
(* this replica and on the one the location registry names; the others     *)
(* notice in their next reconciliation pass.                               *)
(*                                                                         *)
(* One account with one user-held key.  Expiry is an event: a session and  *)
(* its seals lapse at some moment.  What a key may sign is in RequestAuth. *)
(***************************************************************************)
EXTENDS Naturals, Sequences, FiniteSets

CONSTANTS
  Replicas, NoReplica,
  Watched,              \* bound: the replicas whose passes and requests are followed; they
                        \* meet the others only in the stores
  Sessions, NoSession,  \* the ids that will be issued; random, so never twice
  Deployments,          \* bound: where sessions are kept ("sql", or "redis": sessionstore
                        \* over it), how the key is wrapped, and what users do, and how many
                        \* crashes and failed calls there are
  MaxRevokes            \* bound on the revocations

ASSUME IdAssumption == Watched \subseteq Replicas /\ NoReplica \notin Replicas /\ NoSession \notin Sessions
ASSUME BoundAssumption == MaxRevokes \in Nat
ASSUME DeploymentAssumption ==
  Deployments \subseteq
    [backend : {"sql", "redis"}, method : {"pbk", "vault"},
     modes : SUBSET {"session", "sealer", "split"},
     kinds : SUBSET {"logout", "session", "sessions", "seals", "password"},
     faults : Nat]

VARIABLES
  dep,       \* the deployment
  sess,      \* the session rows
  token,     \* the sessions whose row carries a Vault token
  mode,      \* what each sign-in was granted
  home,      \* the replica that runs its tasks
  sealed,    \* the sessions with a row in signer_session_seals
  mem,       \* the signer's key map: how this replica came by the key
  lease,     \* staySignedIn.leases
  fresh,     \* the lease was taken since the pass that is running began
  unlock,    \* the task of a sign-in that unlocks with the passphrase
  vault,     \* the one that fetches a Vault token
  load,      \* and the one this starts, which unlocks with the token
  renewal,   \* the sessions whose record was read to be renewed (Redis)
  pass,      \* the reconciliation pass of each replica
  req,       \* a request that restores the key: lazily, or with the browser's half
  hd,        \* the revocation in progress
  revokes,   \* history: how many were started
  faults

sessionVars == <<dep, sess, token, mode, home, sealed, mem, lease, fresh, unlock,
          vault, load, renewal, pass, req, hd, revokes, faults>>
choiceVars == <<dep, mode, home, revokes>>
rowVars == <<sess, token, renewal>>
memVars == <<mem, lease, fresh>>
taskVars == <<unlock, vault, load>>

procVars == <<pass, req>>

Resting == [pc |-> "idle", rows |-> {}]
NoRequest == [pc |-> "idle", rows |-> {}, rep |-> NoReplica]
Labels == {"unloadVault", "revoke", "lock", "unload", "evict", "sealsOf", "endThis", "last",
           "endAll", "endOthers", "again"}
NoHandler == [todo |-> <<>>, rep |-> NoReplica, me |-> NoSession, found |-> FALSE,
              reseal |-> FALSE]

backend == dep.backend
method == dep.method

SessionTypeOK ==
  /\ dep \in Deployments
  /\ sess \in [Sessions -> {"new", "live", "expired", "deleted"}]
  /\ token \subseteq Sessions /\ sealed \subseteq Sessions
  /\ mode \in [Sessions -> {"none", "session", "sealer", "split"}] /\ home \in [Sessions -> Replicas \cup {NoReplica}]
  /\ mem \in [Replicas -> {"none", "unlocked", "sealed"}]
  /\ lease \in [Replicas -> BOOLEAN] /\ fresh \in [Replicas -> BOOLEAN]
  /\ unlock \in [Sessions -> {"none", "load", "reload", "seal", "store", "lease", "done"}]
  /\ vault \in [Sessions -> {"none", "auth", "write", "seal", "store", "lease", "done"}]
  /\ load \in [Sessions -> {"none", "load"}]
  /\ renewal \subseteq Sessions
  /\ pass \in [Replicas -> [pc : {"idle", "check", "unload", "restore", "lease"},
                           rows : SUBSET Sessions]]
  /\ req \in [pc : {"idle", "check", "restore", "lease"}, rows : SUBSET Sessions,
              rep : Replicas \cup {NoReplica}]
  /\ hd \in [todo : Seq(Labels), rep : Replicas \cup {NoReplica},
             me : Sessions \cup {NoSession}, found : BOOLEAN, reseal : BOOLEAN]
  /\ revokes \in 0..MaxRevokes /\ faults \in 0..dep.faults

SessionInit ==
  /\ dep \in Deployments
  /\ sess = [s \in Sessions |-> "new"] /\ token = {} /\ sealed = {}
  /\ mode = [s \in Sessions |-> "none"] /\ home = [s \in Sessions |-> NoReplica]
  /\ mem = [r \in Replicas |-> "none"]
  /\ lease = [r \in Replicas |-> FALSE] /\ fresh = [r \in Replicas |-> FALSE]
  /\ unlock = [s \in Sessions |-> "none"] /\ vault = [s \in Sessions |-> "none"]
  /\ load = [s \in Sessions |-> "none"] /\ renewal = {}
  /\ pass = [r \in Replicas |-> Resting] /\ req = NoRequest
  /\ hd = NoHandler /\ revokes = 0 /\ faults = 0

-----------------------------------------------------------------------------
(* The stores.                                                             *)

\* GetUserSession: neither a deleted row nor one past its expiry is found.
Live(s) == sess[s] = "live"

\* The rows that have not lapsed.
ListLiveSessionSeals == sealed

\* A session lapses; so does the seal that shares its expiry, which every
\* listing leaves out from then on.  (Not in the moment it is being renewed.)
Expire(s) ==
  /\ Live(s) /\ s \notin renewal
  /\ sess' = [sess EXCEPT ![s] = "expired"] /\ sealed' = sealed \ {s}
  /\ UNCHANGED <<choiceVars, token, renewal, memVars, taskVars, procVars, hd, faults>>

\* DeleteUserSession, DeleteUserSessions.
Ended(S) == [s \in Sessions |-> IF s \in S /\ sess[s] = "live" THEN "deleted" ELSE sess[s]]

\* The session store reads a record, changes it and sets it (mutate and
\* ExtendUserSession): one that was deleted in between is there again.
SetRecord(s) == sess' = [sess EXCEPT ![s] = IF @ = "deleted" THEN "live" ELSE @]

\* The SQL backends update the row in one statement, and find nothing when it
\* is gone.
UpdateUserSessionVaultToken(s) ==
  /\ token' = IF Live(s) THEN token \cup {s} ELSE token
  /\ UNCHANGED sess

\* slideSession renews the session of a request, if it holds a seal.  In SQL
\* the renewal is one guarded statement and, with expiry as an event, changes
\* nothing here.
slideSession(s) ==
  /\ Live(s) /\ s \in sealed /\ backend = "redis" /\ s \notin renewal
  /\ renewal' = renewal \cup {s}
  /\ UNCHANGED <<choiceVars, sess, token, sealed, memVars, taskVars, procVars, hd, faults>>

ExtendUserSession(s) ==
  /\ s \in renewal /\ renewal' = renewal \ {s} /\ SetRecord(s)
  /\ UNCHANGED <<choiceVars, token, sealed, memVars, taskVars, procVars, hd, faults>>

-----------------------------------------------------------------------------
(* The key in memory.                                                      *)

\* RegisterKey, UnregisterKey: the key map is all that matters here.
RegisterKey(r, how) == mem' = [mem EXCEPT ![r] = how]
UnregisterKey(r) == mem' = [mem EXCEPT ![r] = "none"]

\* staySignedIn.lease.
Lease(r) ==
  /\ lease' = [lease EXCEPT ![r] = TRUE]
  /\ fresh' = [fresh EXCEPT ![r] = pass[r].pc # "idle"]

-----------------------------------------------------------------------------
(* Signing in.                                                             *)

\* handleUserLogin once the password is verified: the row, and the tasks.
Login(s, r, m) ==
  /\ sess[s] = "new" /\ sess' = [sess EXCEPT ![s] = "live"]
  /\ mode' = [mode EXCEPT ![s] = m] /\ home' = [home EXCEPT ![s] = r]
  /\ unlock' = [unlock EXCEPT ![s] = "load"]
  /\ vault' = [vault EXCEPT ![s] = IF method = "vault" THEN "auth" ELSE @]
  /\ UNCHANGED <<dep, revokes, token, renewal, sealed, memVars, load, procVars, hd, faults>>

\* loadUserPassphraseKeys.
loadUserPassphraseKeys(s) ==
  /\ unlock[s] \in {"load", "reload"}
  /\ unlock' = [unlock EXCEPT ![s] = IF @ = "load" THEN "seal" ELSE "done"]
  /\ IF method = "pbk" THEN RegisterKey(home[s], "unlocked") ELSE UNCHANGED mem
  /\ UNCHANGED <<choiceVars, rowVars, sealed, lease, fresh, vault, load, procVars, hd, faults>>

\* populateVaultTokenAsync: without a session, or a token, nothing is loaded.
\* The session store's write is a second step.
populateVaultTokenAsync(s) ==
  /\ vault[s] = "auth"
  /\ \/ /\ backend = "sql" /\ UpdateUserSessionVaultToken(s)
        /\ vault' = [vault EXCEPT ![s] = "seal"]
        /\ load' = [load EXCEPT ![s] = IF Live(s) THEN "load" ELSE @]
        /\ UNCHANGED faults
     \/ /\ backend = "redis"
        /\ vault' = [vault EXCEPT ![s] = IF Live(s) THEN "write" ELSE "seal"]
        /\ UNCHANGED <<sess, token, load, faults>>
     \/ /\ faults < dep.faults /\ faults' = faults + 1
        /\ vault' = [vault EXCEPT ![s] = "seal"]
        /\ UNCHANGED <<sess, token, load>>
  /\ UNCHANGED <<choiceVars, renewal, sealed, memVars, unlock, procVars, hd>>

\* mutate, its SET.
WriteVaultToken(s) ==
  /\ vault[s] = "write" /\ vault' = [vault EXCEPT ![s] = "seal"]
  /\ SetRecord(s) /\ token' = token \cup {s}
  /\ load' = [load EXCEPT ![s] = "load"]
  /\ UNCHANGED <<choiceVars, renewal, sealed, memVars, unlock, procVars, hd, faults>>

\* loadUserVaultKeys, in a goroutine of its own.
loadUserVaultKeys(s) ==
  /\ load[s] = "load" /\ load' = [load EXCEPT ![s] = "none"]
  /\ RegisterKey(home[s], "unlocked")
  /\ UNCHANGED <<choiceVars, rowVars, sealed, lease, fresh, unlock, vault, procVars, hd, faults>>

\* sealSessionKeys seals what this replica holds now, stores the seal and
\* takes the lease.
SealStep(s, at) ==
  CASE at = "seal"  -> IF mode[s] # "session" /\ mem[home[s]] # "none" THEN "store" ELSE "done"
    [] at = "store" -> "lease"
    [] at = "lease" -> "done"

SealEffect(s, at) ==
  /\ sealed' = IF at = "store" /\ sess[s] # "expired" THEN sealed \cup {s} ELSE sealed
  /\ IF at = "lease" THEN Lease(home[s]) ELSE UNCHANGED <<lease, fresh>>

sealUnlocked(s) ==
  /\ unlock[s] \in {"seal", "store", "lease"}
  /\ unlock' = [unlock EXCEPT ![s] = SealStep(s, @)]
  /\ SealEffect(s, unlock[s])
  /\ UNCHANGED <<choiceVars, rowVars, mem, vault, load, procVars, hd, faults>>

sealVault(s) ==
  /\ vault[s] \in {"seal", "store", "lease"}
  /\ vault' = [vault EXCEPT ![s] = SealStep(s, @)]
  /\ SealEffect(s, vault[s])
  /\ UNCHANGED <<choiceVars, rowVars, mem, unlock, load, procVars, hd, faults>>

\* ensureNostrConnectKeyLoaded once no seal restored the key: the Vault token
\* of the session opens it on any replica.
ensureNostrConnectKeyLoaded(r, s) ==
  /\ method = "vault" /\ Live(s) /\ s \in token /\ mem[r] = "none"
  /\ RegisterKey(r, "unlocked")
  /\ UNCHANGED <<choiceVars, rowVars, sealed, lease, fresh, taskVars, procVars, hd, faults>>

-----------------------------------------------------------------------------
(* Restoring and dropping keys.                                            *)

\* reconcileSeals lists the seals, with their sessions still to be looked up.
reconcileSeals(r) ==
  /\ pass[r].pc = "idle"
  /\ pass' = [pass EXCEPT ![r] = [pc |-> "check", rows |-> ListLiveSessionSeals]]
  /\ UNCHANGED <<choiceVars, rowVars, sealed, memVars, taskVars, req, hd, faults>>

\* restoreSealedKey: so does a request that needs the key and does not find it.
restoreSealedKey(r) ==
  /\ req = NoRequest /\ mem[r] = "none"
  /\ req' = [pc |-> "check", rows |-> ListLiveSessionSeals, rep |-> r]
  /\ UNCHANGED <<choiceVars, rowVars, sealed, memVars, taskVars, pass, hd, faults>>

\* liveSeals: of the listed seals, those whose session is still there...
LiveOf(rows) == {s \in rows : Live(s)}

\* ... and the seals of ended sessions are deleted.
liveSeals(rows) == sealed' = sealed \ (rows \ LiveOf(rows)) /\ UNCHANGED faults

\* The lookup fails: no seal is restored from or given up.
liveSealsFails(rows) ==
  rows # {} /\ faults < dep.faults /\ faults' = faults + 1 /\ UNCHANGED sealed

\* Mutant: the seals that need the browser's half are the ones tried.
OpensSplit(rows) == \E s \in rows : mode[s] = "split"

\* A split seal needs the browser's half.
Opens(rows) == \E s \in rows : mode[s] = "sealer"

\* Mutant: a lease is only dropped while the key is not in memory.
DropsUnloaded(r, live) == lease[r] /\ ~fresh[r] /\ live = {} /\ mem[r] = "none"

\* A lease taken since the pass began is newer than what the pass saw.
Drops(r, live) == lease[r] /\ ~fresh[r] /\ live = {}

PassTo(r, pc) ==
  /\ pass' = [pass EXCEPT ![r] = [pc |-> pc, rows |-> {}]]
  /\ fresh' = [fresh EXCEPT ![r] = @ /\ pc # "idle"]

\* The pass goes on: lockSealedKeyIfStale deletes a stale lease under the lock,
\* and a key that is missing here is restored.
CheckPass(r) ==
  LET live == LiveOf(pass[r].rows) IN
  /\ pass[r].pc = "check"
  /\ \/ /\ liveSeals(pass[r].rows)
        /\ lease' = [lease EXCEPT ![r] = @ /\ ~Drops(r, live)]
        /\ PassTo(r, CASE Drops(r, live) -> "unload"
                       [] Opens(live) /\ mem[r] = "none" -> "restore"
                       [] OTHER -> "idle")
     \/ /\ liveSealsFails(pass[r].rows) /\ PassTo(r, "idle") /\ UNCHANGED lease
  /\ UNCHANGED <<choiceVars, rowVars, mem, taskVars, req, hd>>

\* unloadSealedKey, after the lock was released.
unloadSealedKey(r) ==
  /\ pass[r].pc = "unload" /\ PassTo(r, "idle") /\ UnregisterKey(r)
  /\ UNCHANGED <<choiceVars, rowVars, sealed, lease, taskVars, req, hd, faults>>

\* restoreFromSeals: the first seal that opens is installed.
restoreFromSeals(r) ==
  /\ pass[r].pc = "restore"
  /\ \/ RegisterKey(r, "sealed") /\ PassTo(r, "lease") /\ UNCHANGED faults
     \/ faults < dep.faults /\ faults' = faults + 1 /\ PassTo(r, "idle") /\ UNCHANGED mem
  /\ UNCHANGED <<choiceVars, rowVars, sealed, lease, taskVars, req, hd>>

\* Mutant: a restored key is not leased.
installSealedKeyUnleased(r) ==
  /\ pass[r].pc = "lease" /\ PassTo(r, "idle")
  /\ UNCHANGED <<choiceVars, rowVars, sealed, mem, lease, taskVars, req, hd, faults>>

\* installSealedKey has registered the key: the lease.
installSealedKey(r) ==
  /\ pass[r].pc = "lease" /\ PassTo(r, "idle")
  /\ lease' = [lease EXCEPT ![r] = TRUE]
  /\ UNCHANGED <<choiceVars, rowVars, sealed, mem, taskVars, req, hd, faults>>

\* The same for a request, which does not drop.
CheckRequest ==
  /\ req.pc = "check"
  /\ \/ /\ liveSeals(req.rows)
        /\ req' = IF Opens(LiveOf(req.rows)) THEN [req EXCEPT !.pc = "restore", !.rows = {}]
                  ELSE NoRequest
     \/ liveSealsFails(req.rows) /\ req' = NoRequest
  /\ UNCHANGED <<choiceVars, rowVars, memVars, taskVars, pass, hd>>

RequestRestores ==
  /\ req.pc = "restore"
  /\ RegisterKey(req.rep, "sealed") /\ req' = [req EXCEPT !.pc = "lease"]
  /\ UNCHANGED <<choiceVars, rowVars, sealed, lease, fresh, taskVars, pass, hd, faults>>

\* handleSessionUnseal: a session that presents the half of its own seal.
handleSessionUnseal(r, s) ==
  /\ req = NoRequest /\ Live(s) /\ s \in sealed /\ mode[s] = "split"
  /\ req' = [NoRequest EXCEPT !.pc = "lease", !.rep = r]
  /\ IF mem[r] = "none" THEN RegisterKey(r, "sealed") ELSE UNCHANGED mem
  /\ UNCHANGED <<choiceVars, rowVars, sealed, lease, fresh, taskVars, pass, hd, faults>>

RequestLeases ==
  /\ req.pc = "lease" /\ req' = NoRequest /\ Lease(req.rep)
  /\ UNCHANGED <<choiceVars, rowVars, sealed, mem, taskVars, pass, hd, faults>>

-----------------------------------------------------------------------------
(* Ending sessions.  A handler runs its steps in order, on one replica.    *)

revokeUserSeals == <<"revoke", "lock", "unload", "evict">>

\* handleUserLogout; handleSessionLogout; DELETE of the sessions and of the
\* seals; handleUserChangePassword once the password is stored.
Program(kind) ==
  CASE kind = "logout"   -> <<"unloadVault">> \o revokeUserSeals \o <<"endAll">>
    [] kind = "session"  -> <<"sealsOf", "endThis", "last">>
    [] kind = "sessions" -> revokeUserSeals \o <<"endAll">>
    [] kind = "seals"    -> revokeUserSeals
    [] kind = "password" -> <<"endOthers">> \o revokeUserSeals \o <<"again">>

Revoke(kind, r, s) ==
  /\ hd = NoHandler /\ Live(s)
  /\ revokes < MaxRevokes /\ revokes' = revokes + 1
  /\ hd' = [NoHandler EXCEPT !.todo = Program(kind), !.rep = r, !.me = s,
                             !.reseal = kind = "password" /\ s \in sealed]
  /\ UNCHANGED <<dep, mode, home, rowVars, sealed, memVars, taskVars, procVars, faults>>

Rest == IF Len(hd.todo) = 1 THEN NoHandler ELSE [hd EXCEPT !.todo = Tail(@)]
At(label) == hd.todo # <<>> /\ Head(hd.todo) = label

\* unloadUserVaultKeys, on this replica only.
unloadUserVaultKeys ==
  /\ At("unloadVault") /\ hd' = Rest
  /\ IF method = "vault" THEN UnregisterKey(hd.rep) ELSE UNCHANGED mem
  /\ UNCHANGED <<choiceVars, rowVars, sealed, lease, fresh, taskVars, procVars, faults>>

\* The keys to lock are those of the listed seals and of the leases held here;
\* they are locked even when the DELETE fails.
DeleteSessionSealsByUser ==
  /\ At("revoke")
  /\ hd' = [Rest EXCEPT !.found = sealed # {} \/ lease[hd.rep]]
  /\ \/ sealed' = {} /\ UNCHANGED faults
     \/ faults < dep.faults /\ faults' = faults + 1 /\ UNCHANGED sealed
  /\ UNCHANGED <<choiceVars, rowVars, memVars, taskVars, procVars>>

lockSealedKey ==
  /\ At("lock") /\ hd' = Rest
  /\ lease' = [lease EXCEPT ![hd.rep] = @ /\ ~hd.found]
  /\ UNCHANGED <<choiceVars, rowVars, sealed, mem, fresh, taskVars, procVars, faults>>

UnloadLocked ==
  /\ At("unload") /\ hd' = Rest
  /\ IF hd.found THEN UnregisterKey(hd.rep) ELSE UNCHANGED mem
  /\ UNCHANGED <<choiceVars, rowVars, sealed, lease, fresh, taskVars, procVars, faults>>

\* evictRemote asks the replica that the location registry names, which may
\* be none or one that does not hold the key; the call may be lost too.  The
\* receiver unregisters the key and keeps its lease.
evictRemote ==
  /\ At("evict") /\ hd' = Rest
  /\ \/ hd.found /\ \E to \in Replicas \ {hd.rep} : UnregisterKey(to)
     \/ UNCHANGED mem
  /\ UNCHANGED <<choiceVars, rowVars, sealed, lease, fresh, taskVars, procVars, faults>>

\* handleSessionLogout deletes the seals of its session, then the session...
DeleteSessionSealsBySession ==
  /\ At("sealsOf") /\ hd' = Rest /\ sealed' = sealed \ {hd.me}
  /\ UNCHANGED <<choiceVars, rowVars, memVars, taskVars, procVars, faults>>

DeleteUserSession ==
  /\ At("endThis") /\ hd' = Rest /\ sess' = Ended({hd.me})
  /\ UNCHANGED <<choiceVars, token, renewal, sealed, memVars, taskVars, procVars, faults>>

\* ... and revokes everything when no session is left.
hasLiveSession ==
  /\ At("last")
  /\ hd' = IF \E s \in Sessions : Live(s) THEN NoHandler
           ELSE [hd EXCEPT !.todo = <<"unloadVault">> \o revokeUserSeals]
  /\ UNCHANGED <<choiceVars, rowVars, sealed, memVars, taskVars, procVars, faults>>

\* DeleteUserSessions and endSessions.  A session that appears after the list
\* was made is not ended.
DeleteUserSessions ==
  /\ At("endAll") /\ hd' = Rest /\ sess' = Ended(Sessions)
  /\ UNCHANGED <<choiceVars, token, renewal, sealed, memVars, taskVars, procVars, faults>>

endSessions ==
  /\ At("endOthers") /\ hd' = Rest /\ sess' = Ended(Sessions \ {hd.me})
  /\ UNCHANGED <<choiceVars, token, renewal, sealed, memVars, taskVars, procVars, faults>>

\* The password change unlocks again, and seals again what was sealed.  (It
\* comes after the sign-in's own unlock.)
UnlockAgain ==
  /\ At("again") /\ unlock[hd.me] = "done" /\ load[hd.me] = "none"
  /\ hd' = Rest
  /\ home' = [home EXCEPT ![hd.me] = hd.rep]
  /\ unlock' = [unlock EXCEPT ![hd.me] = IF hd.reseal THEN "load" ELSE "reload"]
  /\ load' = [load EXCEPT ![hd.me] = IF hd.me \in token /\ Live(hd.me) THEN "load" ELSE @]
  /\ UNCHANGED <<dep, mode, revokes, rowVars, sealed, memVars, vault, procVars, faults>>

-----------------------------------------------------------------------------
\* A replica dies: what it held in memory and everything it was doing is gone.
Crash(r) ==
  /\ faults < dep.faults /\ faults' = faults + 1
  /\ mem' = [mem EXCEPT ![r] = "none"]
  /\ lease' = [lease EXCEPT ![r] = FALSE] /\ fresh' = [fresh EXCEPT ![r] = FALSE]
  /\ unlock' = [s \in Sessions |-> IF home[s] = r /\ unlock[s] # "none" THEN "done" ELSE unlock[s]]
  /\ vault' = [s \in Sessions |-> IF home[s] = r /\ vault[s] # "none" THEN "done" ELSE vault[s]]
  /\ load' = [s \in Sessions |-> IF home[s] = r THEN "none" ELSE load[s]]
  /\ pass' = [pass EXCEPT ![r] = Resting]
  /\ req' = IF req.rep = r THEN NoRequest ELSE req
  /\ hd' = IF hd.rep = r THEN NoHandler ELSE hd
  /\ UNCHANGED <<choiceVars, rowVars, sealed>>

Tasks(s) ==
  \/ loadUserPassphraseKeys(s) \/ populateVaultTokenAsync(s) \/ WriteVaultToken(s)
  \/ loadUserVaultKeys(s) \/ sealUnlocked(s) \/ sealVault(s) \/ ExtendUserSession(s)

Reconcile(r) ==
  \/ reconcileSeals(r) \/ CheckPass(r) \/ unloadSealedKey(r)
  \/ restoreFromSeals(r) \/ installSealedKey(r)

Request == CheckRequest \/ RequestRestores \/ RequestLeases

Handle ==
  \/ unloadUserVaultKeys \/ DeleteSessionSealsByUser \/ lockSealedKey \/ UnloadLocked
  \/ evictRemote \/ DeleteSessionSealsBySession \/ DeleteUserSession \/ hasLiveSession
  \/ DeleteUserSessions \/ endSessions \/ UnlockAgain

SessionNext ==
  \/ \E s \in Sessions :
       \/ \E r \in Replicas, m \in dep.modes : Login(s, r, m)
       \/ Expire(s) \/ slideSession(s) \/ Tasks(s)
       \/ \E r \in Watched : ensureNostrConnectKeyLoaded(r, s) \/ handleSessionUnseal(r, s)
       \/ \E r \in Replicas, kind \in dep.kinds : Revoke(kind, r, s)
  \/ \E r \in Watched : Reconcile(r) \/ restoreSealedKey(r) \/ Crash(r)
  \/ Request \/ Handle

\* The reconciliation loop runs on a ticker; a handler that has started and a
\* task of a sign-in run to their end unless their replica dies.
SessionFairness ==
  /\ \A r \in Watched : WF_sessionVars(Reconcile(r))
  /\ \A s \in Sessions : WF_sessionVars(Tasks(s))
  /\ WF_sessionVars(Request) /\ WF_sessionVars(Handle)

SessionSpec == SessionInit /\ [][SessionNext]_sessionVars /\ SessionFairness

-----------------------------------------------------------------------------
(* Properties.                                                             *)

\* A key that a replica restored from a seal is under a lease, or a step that
\* takes the lease or unloads the key is under way: every reconciliation pass
\* looks at the leases only, so an unleased key would outlive its seal.
SealedKeyIsLeased ==
  \A r \in Watched : mem[r] = "sealed" =>
    \/ lease[r]
    \/ pass[r].pc \in {"lease", "unload"} \/ (req.rep = r /\ req.pc = "lease")
    \/ hd.rep = r /\ At("unload") /\ hd.found

AnyLive == \E s \in Sessions : Live(s)

\* Once the last session has ended, every replica drops the key it leases,
\* also when the revocation never reached it, or raced a restore.
RevokedLeaseDropped ==
  \A r \in Watched : lease[r] /\ ~AnyLive ~> ~lease[r] \/ AnyLive

\* A live seal that the server can open brings the key back to every replica,
\* after a restart and after the key was evicted.
SealRestored ==
  \A r \in Watched, s \in Sessions :
    Live(s) /\ s \in sealed /\ mode[s] = "sealer"
      ~> mem[r] # "none" \/ ~Live(s) \/ s \notin sealed

-----------------------------------------------------------------------------
(* What makes SealedKeyIsLeased inductive.                                 *)

\* Whoever drops a lease unloads the key next: no handler has the one step
\* ahead of it without the other.
UnloadFollows(todo) ==
  \A i \in 1..Len(todo) : todo[i] = "lock" => i < Len(todo) /\ todo[i + 1] = "unload"

SessionInv == SessionTypeOK /\ UnloadFollows(hd.todo) /\ SealedKeyIsLeased
=============================================================================
