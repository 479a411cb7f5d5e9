---------------------------- MODULE KeyLocation ----------------------------
(***************************************************************************)
(* Which replica holds a key: the location records in the shared cache     *)
(* (internal/keyloc), the requests one replica forwards to another and the *)
(* evictions after an account was deleted (internal/api/forward.go,        *)
(* account_delete.go, Signer.evictIfKeyDeleted).  One key.                 *)
(*                                                                         *)
(* Time is counted in units of refreshEvery.  A sealed message can be      *)
(* delivered late, again, or never: HTTP between pods, and a store that    *)
(* others can write to.                                                    *)
(***************************************************************************)
EXTENDS Integers, FiniteSets

CONSTANTS
  Replicas, NoReplica,
  RecordTTL,       \* recordTTL and
  ForwardSkew,     \* forwardSkew, in units of refreshEvery
  Offsets,         \* bounds: how far a replica's clock may be ahead of the slowest,
  MaxTime,         \* how long a behaviour is,
  MaxMessages,     \* how many messages are sent,
  MaxLogins,       \* how many logins load the key,
  MaxFaults        \* and how often a replica restarts or the cache fails

ASSUME LocationAssumption ==
  /\ NoReplica \notin Replicas /\ Offsets \subseteq Nat
  /\ {RecordTTL, ForwardSkew, MaxTime, MaxMessages, MaxLogins, MaxFaults} \subseteq Nat
  /\ RecordTTL > 1

VARIABLES
  now,
  offset,     \* of each replica's clock
  exists,     \* the key's row, and with it the account
  held,       \* the key is in the replica's memory
  loading,    \* a login has read the row and will register the key
  lastRun,    \* when each replica's Run last refreshed
  publishing, \* replicas whose Publish has found the key loaded
  record,     \* the location record and when it expires
  soleSince,  \* history: since when one replica alone has held the key undisturbed
  net,        \* the sealed messages that were sent
  seen,       \* of each replica: the nonces of firstUse and when it met them
  served,     \* history: how often a replica has acted on a message since it started
  logins, faults

locationVars == <<now, offset, exists, held, loading, lastRun, publishing, record, soleSince,
                  net, seen, served, logins, faults>>

NoRecord == [addr |-> NoReplica, expires |-> 0]
Nonces == 1..MaxMessages

Message == [kind : {"req", "evict"}, to : Replicas, ts : Nat, nonce : Nonces]

LocationTypeOK ==
  /\ now \in 0..MaxTime /\ offset \in [Replicas -> Offsets] /\ exists \in BOOLEAN
  /\ held \in [Replicas -> BOOLEAN] /\ loading \in [Replicas -> BOOLEAN] /\ publishing \subseteq Replicas
  /\ lastRun \in [Replicas -> 0..MaxTime] /\ soleSince \in 0..MaxTime
  /\ record \in [addr : Replicas \cup {NoReplica}, expires : Nat] /\ net \subseteq Message
  /\ seen \in [Replicas -> [Nonces -> {-1} \cup Nat]] /\ served \in [Replicas -> [Nonces -> Nat]]
  /\ faults \in 0..MaxFaults /\ logins \in 0..MaxLogins

Unseen == [n \in Nonces |-> -1]

LocationInit ==
  /\ now = 0 /\ offset \in [Replicas -> Offsets] /\ (\E r \in Replicas : offset[r] = 0) /\ exists = TRUE
  /\ held = [r \in Replicas |-> FALSE] /\ loading = [r \in Replicas |-> FALSE]
  /\ lastRun = [r \in Replicas |-> 0] /\ publishing = {} /\ record = NoRecord /\ soleSince = 0
  /\ net = {} /\ seen = [r \in Replicas |-> Unseen]
  /\ served = [r \in Replicas |-> [n \in Nonces |-> 0]]
  /\ faults = 0 /\ logins = 0

Clock(r) == now + offset[r]
Abs(i) == IF i < 0 THEN -i ELSE i

-----------------------------------------------------------------------------

\* A key comes into or leaves a replica's memory.
Hold(r, b) == held' = [held EXCEPT ![r] = b] /\ soleSince' = now

\* A login reads the key's row and, later, registers the key and calls
\* publishLoadedKeys.
loadUserVaultKeys(r) ==
  /\ exists /\ ~held[r] /\ ~loading[r] /\ loading' = [loading EXCEPT ![r] = TRUE]
  /\ logins < MaxLogins /\ logins' = logins + 1
  /\ UNCHANGED <<now, offset, exists, held, lastRun, publishing, record, soleSince, net, seen, served, faults>>

publishLoadedKeys(r) ==
  /\ loading[r] /\ loading' = [loading EXCEPT ![r] = FALSE] /\ Hold(r, TRUE)
  /\ publishing' = publishing \cup {r}
  /\ UNCHANGED <<now, offset, exists, lastRun, record, net, seen, served, logins, faults>>

\* Run: every refreshEvery the keys that are loaded are published again.
Run(r) ==
  /\ lastRun[r] < now /\ lastRun' = [lastRun EXCEPT ![r] = now]
  /\ publishing' = IF held[r] THEN publishing \cup {r} ELSE publishing
  /\ UNCHANGED <<now, offset, exists, held, loading, record, soleSince, net, seen, served, logins, faults>>

\* Publish overwrites the record; an error is logged.
Publish(r) ==
  /\ r \in publishing /\ publishing' = publishing \ {r}
  /\ \/ record' = [addr |-> r, expires |-> now + RecordTTL] /\ UNCHANGED <<soleSince, faults>>
     \/ /\ faults < MaxFaults /\ faults' = faults + 1
        /\ soleSince' = now /\ UNCHANGED record
  /\ UNCHANGED <<now, offset, exists, held, loading, lastRun, net, seen, served, logins>>

ForgottenAny(r) == NoRecord

\* The script of Forget deletes a replica's own record only.
Forgotten(r) == IF record.addr = r THEN NoRecord ELSE record

\* UnregisterKey and forgetKeyLocation, for a logout, a lapsed seal, an
\* eviction: a Publish that has read the key as loaded is not stopped.
evictLocal(r) ==
  IF held[r] THEN Hold(r, FALSE) /\ record' = Forgotten(r)
  ELSE record' = Forgotten(r) /\ UNCHANGED <<held, soleSince>>

Logout(r) ==
  /\ held[r] /\ evictLocal(r)
  /\ UNCHANGED <<now, offset, exists, loading, lastRun, publishing, net, seen, served, logins, faults>>

\* A replica loses its memory; ForgetAll when it was stopped in order.
Restart(r) ==
  /\ faults < MaxFaults /\ faults' = faults + 1
  /\ Hold(r, FALSE) /\ loading' = [loading EXCEPT ![r] = FALSE]
  /\ record' \in {record, Forgotten(r)} /\ publishing' = publishing \ {r}
  /\ seen' = [seen EXCEPT ![r] = Unseen] /\ served' = [served EXCEPT ![r] = [n \in Nonces |-> 0]]
  /\ UNCHANGED <<now, offset, exists, lastRun, net, logins>>

-----------------------------------------------------------------------------

\* Lookup: another replica's record that has not expired.
Lookup(r) == IF record.addr # r /\ now < record.expires THEN record.addr ELSE NoReplica

Send(r, kind) ==
  /\ Cardinality(net) < MaxMessages
  /\ net' = net \cup {[kind |-> kind, to |-> Lookup(r), ts |-> Clock(r), nonce |-> Cardinality(net) + 1]}

\* A session request at a replica without the key.
forwardSession(r) ==
  /\ ~held[r] /\ Lookup(r) # NoReplica /\ Send(r, "req")
  /\ UNCHANGED <<now, offset, exists, held, loading, lastRun, publishing, record, soleSince, seen, served, logins, faults>>

\* The replica in the record, when it is another one, is told to drop the key.
evictRemote(r) == IF Lookup(r) = NoReplica THEN UNCHANGED net ELSE Send(r, "evict")

\* deleteAccount at replica r: the key is dropped here and at the replica of
\* the record, then the row is deleted.
deleteAccount(r) ==
  /\ exists /\ exists' = FALSE /\ evictLocal(r)
  /\ evictRemote(r)
  /\ UNCHANGED <<now, offset, loading, lastRun, publishing, seen, served, logins, faults>>

ForgetsSoon(r, n) == seen[r][n] # -1 /\ Clock(r) - seen[r][n] > ForwardSkew

\* firstUse, after the timestamp and the seal were found good: nonces older
\* than twice the skew are dropped.
Forgets(r, n) == seen[r][n] # -1 /\ Clock(r) - seen[r][n] > 2 * ForwardSkew
Pruned(r) == [n \in Nonces |-> IF Forgets(r, n) THEN -1 ELSE seen[r][n]]
firstUse(r, n) == Pruned(r)[n] = -1

Fresh(r, m) == Abs(Clock(r) - m.ts) <= ForwardSkew

\* A message for r whose timestamp and seal are good is met; a nonce met
\* before is refused.
Meet(r, m) ==
  /\ m.to = r /\ Fresh(r, m)
  /\ seen' = [seen EXCEPT ![r] = [Pruned(r) EXCEPT ![m.nonce] = IF firstUse(r, m.nonce) THEN Clock(r) ELSE @]]
  /\ served' = IF firstUse(r, m.nonce) THEN [served EXCEPT ![r][m.nonce] = @ + 1] ELSE served
  /\ UNCHANGED <<now, offset, exists, loading, lastRun, publishing, net, logins, faults>>

\* A session request is served as the user it names.
receive(r, m) == m.kind = "req" /\ Meet(r, m) /\ UNCHANGED <<held, record, soleSince>>

receiveEvict(r, m) ==
  /\ m.kind = "evict" /\ Meet(r, m)
  /\ IF firstUse(r, m.nonce) THEN evictLocal(r) ELSE UNCHANGED <<held, record, soleSince>>

evictIfKeyDeletedFound(r) ==
  /\ held[r] /\ exists /\ Hold(r, FALSE)
  /\ UNCHANGED <<now, offset, exists, loading, lastRun, publishing, record, net, seen, served, logins, faults>>

\* No timer runs this: a request for the key has reached the replica, which has
\* won its claim and found no grant for it.  A replica that nobody asks keeps a
\* deleted key until it restarts.
evictIfKeyDeleted(r) ==
  /\ held[r] /\ ~exists /\ Hold(r, FALSE)
  /\ UNCHANGED <<now, offset, exists, loading, lastRun, publishing, record, net, seen, served, logins, faults>>

\* Time passes once every Run has refreshed and every Publish has ended
\* (opTimeout is far below refreshEvery).
Tick ==
  /\ now < MaxTime /\ publishing = {} /\ \A r \in Replicas : lastRun[r] = now
  /\ now' = now + 1
  /\ UNCHANGED <<offset, exists, held, loading, lastRun, publishing, record, soleSince, net, seen, served, logins, faults>>

LocationNext ==
  \/ \E r \in Replicas :
       \/ loadUserVaultKeys(r) \/ publishLoadedKeys(r) \/ Run(r) \/ Publish(r) \/ Logout(r)
       \/ Restart(r) \/ forwardSession(r) \/ deleteAccount(r) \/ evictIfKeyDeleted(r)
       \/ \E m \in net : receive(r, m) \/ receiveEvict(r, m)
  \/ Tick

\* A login that was begun ends.
LocationFairness == WF_locationVars(\E r \in Replicas : publishLoadedKeys(r))

-----------------------------------------------------------------------------

\* However often a sealed message is delivered, however the clocks differ, a
\* replica acts on it once: a nonce is dropped only when the timestamp that
\* goes with it is refused.  (A restarted replica has forgotten it.)
ServedOnce == \A r \in Replicas, n \in Nonces : served[r][n] <= 1

\* When one replica alone has held the key for longer than refreshEvery and
\* the cache did not fail it, the others find it: no Forget of another
\* replica, no late Publish and no expiry hides it for longer.
SoleHolderIsFound ==
  \A r \in Replicas :
    /\ \A s \in Replicas : held[s] <=> s = r
    /\ now > soleSince + 1
    => record.addr = r /\ now < record.expires

\* Nothing but its clients makes this so: whichever replica holds a deleted key
\* goes on being asked for it by clients without a grant.
AskedWhereverHeld == \A r \in Replicas : WF_locationVars(evictIfKeyDeleted(r))

\* deleteAccount's best effort "evicts on next use or restart": as long as the
\* replicas that hold a deleted account's key are used, it leaves the memory of
\* all of them for good, also of one that missed the eviction and of one that
\* was loading the key meanwhile.
DeletedKeyLeavesMemory ==
  AskedWhereverHeld => (~exists ~> [](\A r \in Replicas : ~held[r]))

-----------------------------------------------------------------------------
(* What makes them inductive.                                              *)

\* A nonce names one message.
NonceInv ==
  /\ IsFiniteSet(net)
  /\ \A m \in net : m.nonce <= Cardinality(net)
  /\ \A m, k \in net : m.nonce = k.nonce => m = k

\* Of what a replica has acted on it remembers the nonce, or the message is
\* too old for it.
ServedInv ==
  \A r \in Replicas, n \in Nonces :
    \/ served[r][n] = 0 /\ seen[r][n] = -1
    \/ /\ served[r][n] = 1
       /\ \E m \in net :
            /\ m.to = r /\ m.nonce = n
            /\ IF seen[r][n] = -1 THEN Clock(r) - m.ts > ForwardSkew ELSE m.ts - seen[r][n] <= ForwardSkew

\* A Publish under way for a key that is not held began in this interval, and
\* a sole holder that has refreshed in it is in the record.
HolderInv ==
  /\ \A r \in publishing : ~held[r] => soleSince = now
  /\ soleSince <= now
  /\ \A r \in Replicas :
       (\A s \in Replicas : held[s] <=> s = r) =>
         /\ soleSince < now /\ lastRun[r] = now /\ r \notin publishing =>
              record.addr = r /\ record.expires >= now + RecordTTL
         /\ soleSince + 1 < now => record.addr = r /\ record.expires >= now + RecordTTL - 1

LocationInv == LocationTypeOK /\ NonceInv /\ ServedInv /\ HolderInv
=============================================================================
