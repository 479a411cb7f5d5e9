# A TLA+ model of cloistr-signer

cloistr-signer is a NIP-46 remote signer ("bunker") written in Go. It holds
Nostr keys for its users, listens on relays for encrypted requests from client
applications, decides whether a client may have what it asks for, and signs,
encrypts or decrypts on its behalf. It runs as two or more replicas that share a
Postgres database and a Redis (Dragonfly) instance; SQLite and in-memory storage
serve single-replica and test deployments. Keys live in the memory of the
replicas where their owners signed in; some are FROST threshold keys.

This directory holds the specifications, the TLC configurations that check them,
and the TLAPS proofs. `PROJECT.json` ties every definition to the source lines it
models, every property to the run that checks it, and every hazard to the
properties that would catch it.

## 1. Inventory

### 1.1 Components

| Component | State | Operations | Interacts with |
|---|---|---|---|
| Grant storage (`storage/*.go`) | `signer_permissions`: per key and client a slot, methods, expiry, sliding flag, revocation, copy of the key's `single_grant` | set, set-if-slot-free, get, list, delete, touch, renew | every handler, the signer |
| Grant handlers (`api/handler.go`) | none between calls; each reads, decides and writes in separate storage calls | set, delete, renew, revoke-all, token redemption, nostrconnect, approve-and-remember | grant storage |
| Request claim (`claim/claim.go`) | one Redis key per event: free, an owner's lease, done | coordinate, heartbeat, mark done, watch, take over | Redis, signer |
| Request authorization (`signer/signer.go`) | `seenEvents`, key map, `pendingCtx` and its channels, per replica | dispatch, process, park, poll, time out, answer | grant storage, claim, decision handlers |
| Decision handlers (`api`, `web`, `admin`) | none | approve, deny | pending rows, grants, the signer of their own replica |
| Pending requests (`signer_pending_requests`) | one row per parked request with an expiry | create, get, delete, clean up | signer, decision handlers, the hourly job |
| Key runtime (`signer`, `nostr/*.go`) | keys, relay clients, connections and subscriptions per replica; a shared client | register, unregister, refresh, warm up, reconnect, publish | handlers, relays |
| One-time secrets | tokens, bunker secrets, with `redeemed_at`, `used_at` | issue, redeem, validate | handlers, signer |
| Policies | rules with `max_usage` and a counter | check, increment | signer |
| Sessions (`sessionstore`, `auth`) | Redis records, a per-user index, JWTs | create, validate, revoke | every handler |
| Stay signed in (`api/stay_signed_in*.go`, `seal`) | seals in the database, split key halves in cookies | seal, restore, rotate, reconcile, revoke | sessions, key runtime |
| Key location and forwarding (`keyloc`, `api/forward.go`) | Redis location with TTL, a nonce table per replica | publish, refresh, look up, forward, evict | key runtime |
| FROST (`frost`, `api/frost_*.go`) | signing sessions with nonces, key-generation rounds, shares | commit, sign, aggregate, generate, migrate, transfer | signer, browser |
| Nostr Connect and app consents (`api/handler.go`, `key_load_tracker.go`) | consents, grants, unlocks in flight per replica | connect, ask, acknowledge, revoke | key runtime, forwarding, relays |
| Passwords and custody (`api/handler.go`, `recovery.go`) | the account's row, the wrapping of each key, the Vault login, policy and transit key | register, sign in, change, recover, enrol MFA | storage, vault |
| Account deletion (`api/account_delete.go`) | retained-deletion list | delete, sweep | all of the above |
| Login: passkeys, lightning, recovery | challenges, linking keys, first-login markers | issue, answer, confirm, link, expire | sessions, vault |
| Login guard and rate limits (`authguard`, `ratelimit`) | counters with windows | reserve, fail, release | login |
| Vault (`vault`) | the service token | encrypt, decrypt, renew | external service |
| Signer chaining (`proxy`, `bunker`) | outstanding upstream requests | forward, match, time out | relays |
| Audit, metrics, configuration, discovery, NIP-05, NIP-89, UI | logs, counters | write, publish, render | nothing decides on them |

### 1.2 What is hard here

* **Read, decide, write.** Handlers read a row, compute, and write it back in a
  later call. Any replica may have written in between.
* **Two homes for one fact.** A parked request is a row in the database and a
  channel in the memory of one replica; a key is a row, a copy in some
  replicas' memory and a location in Redis. Each is updated in its own step.
* **Replicas that die.** A request is claimed, then worked on in a goroutine that
  the claim does not wait for.
* **Late and repeated delivery.** Every replica's subscription sees every event.
* **Clocks.** Leases, budgets, deadlines, sliding expiries; readers and writers of
  `expires_at` use different comparisons at the boundary.
* **Three storage backends** that must agree on one rule, written three times.

### 1.3 What makes each part correct

* Grants: a role key has one live grant per slot; a handler never displaces
  somebody else's live grant unless asked to; what was revoked, displaced or has
  lapsed comes back only by a new decision; a deleted key leaves none.
* Claim: one replica works on a request, except when Redis or a replica fails;
  a slow owner is not mistaken for a dead one; a dead one is replaced.
* Authorization: a request is served only under a grant its client held while it was
  here, or when the owner's first verdict on it approves; an expired grant refuses; every
  request is answered; nothing stays parked.
* One-time access: a token or bunker secret is accepted once; a usage limit is not
  exceeded by more than the requests that were in flight together.
* Login: failures per window stay within the budget however attempts interleave;
  repeated failures lock the account; a backup code works once.
* Stay signed in: a key restored from a seal is known to be so (a lease), and is
  dropped everywhere once the last session has ended; a live seal brings it back.
* Threshold keys: what both sides compute is a valid signature; a nonce answers one
  challenge; a share belongs to the owner of its key; all members of a key
  generation hold the same commitments.
* Keys in memory: the subscription follows the loaded keys, whatever overlaps; a
  loaded key is heard again after any loss of connections; a sole holder is found by
  the others; a forward is acted on once; a deleted account's key leaves the memory of every
  replica that goes on being asked for it;
  a request to an upstream signer does not wait on a connection that is gone.
* Accounts: every key stays under the password that opens the account; Vault's login
  follows; nothing outlives a deleted account except a transit key that Vault will not
  delete, which is on record; a challenge leads to one sign-in, and a first login in a browser
  is confirmed; an app that was revoked stays out.

`PROJECT.json` lists the hazards, each at its line.

## 2. Modules

    Grants            the table and the rules of the three backends, as operators
      GrantStore      the handlers, the signer and the key's life over that table
        MCGrantStore          instances for TLC
        GrantStore_proofs     theorems
    RequestClaim      one event, all replicas, Redis
        RequestClaim_proofs   theorems
    RequestAuth       claimed requests, grants, pending rows, decisions
        MCRequestAuth         instances for TLC
        RequestAuth_proofs    theorems
    OneTime           what "one-time" promises
      OneTimeSecrets  tokens, bunker secrets, policies and their usage limits
        MCOneTimeSecrets      instances for TLC
        OneTimeSecrets_proofs theorems
      Challenges      the rows of lightning, passkey and recovery sign-ins
    LoginGuard        password checks, their budget, lockout and backup codes
        MCLoginGuard          instances for TLC
    StaySignedIn      sessions, background unlocks, seals and leases
        MCStaySignedIn        instances for TLC
        SignIn_proofs         theorems about it and LoginGuard
    FrostKeys         threshold keys, one kind at a time
      UserCosign      shared by the signer and a browser
      DealerKeys      whose shares one instance holds
      DistributedDKG  generated among instances
        Bip340Frost           the arithmetic of the first two
        MCFrostKeys           instances for TLC
        FrostKeys_proofs      theorems
    KeyService        how a replica keeps keys ready, one part at a time
      KeyRuntime      a key's own relay client and its subscription
      BaseClient      the shared relay client
      KeyLocation     which replica holds a key, forwards and evictions
      UpstreamProxy   connections to the signers that proxy keys stand for
        MCKeyService          instances for TLC
        KeyService_proofs     theorems
    Accounts          an account, one side at a time
      AccountCustody  its password, its keys, Vault, its deletion
      Challenges      its other ways in
      AppConnect      the apps that ask for its key
        Accounts_proofs       theorems

`RequestClaim` and `RequestAuth` meet at `decryptAndDispatch`: in the first it is
the callback that ends with the start of a goroutine, in the second that goroutine
is followed to its answer. `RequestAuth` and `GrantStore` meet at
`SetPermission`: the first sees of a grant only whether it is missing, live or
expired and which methods it has; the second has slots, expiries and displacement.
`OneTimeSecrets` ends where a redemption stores its grant, which is one action
(`RedeemTokenGrant`, `ConnectWithSecret`) of `GrantStore`, and goes on with the
requests that a policy's limit counts. `LoginGuard` ends where a sign-in succeeds;
`StaySignedIn` begins there, and `AppConnect` with the unlock that a sign-in starts.
`KeyLocation` has of `StaySignedIn` and `KeyRuntime` only that a login loads the key
and that a registration publishes it. `FrostKeys`, `KeyService` and `Accounts` put
modules together that share no state while they run: a variable (`kind`, `part`,
`side`) is chosen at the start and a behaviour follows that one. They exist so that
one run checks the properties of all of them, and a theorem of one is a theorem of
the composition.

### 2.1 Grants and GrantStore

`table` is the function from client pubkeys to rows of one key. A client without a
row has `NoRow`; a displaced row keeps only the fact of its displacement, because
no code reads its other fields. `StoredRow`, `Displace` and `setPermissionSQL`
are the transaction of `setPermission` in `postgres.go` and `sqlite.go` (advisory
lock or single connection, UPDATE that displaces, upsert, partial unique index);
`setPermissionMemory` is the mutex-protected version, which looks before it
displaces. `Live` is the readers' comparison (`now > expires_at` is expired) and
`Lapsed` the writers' (`expires_at <= now`): at the boundary a grant is both, and
the model keeps that. Allowed kinds travel with the methods and are left out with
labels and audit fields.

In `GrantStore` an HTTP request in flight is a member of `Procs` with a program
counter: `SetRead`, `SetList`, `SetStore` are the storage calls of
`handleSetPermission`; `RenewRead`, then `RenewStore` (Postgres, memory) or
`RenewCheck` and `RenewWrite` (SQLite), those of a renewal; `RevokeAllList`,
`RevokeAllDelete` and `RevokeAllDone` those of revoke-all. `touching` is the set of
goroutines that will still call `UpdatePermissionLastUsed`. Flows with a single
grant write are one action. The key's row is deleted and created again (the same
nsec imported once more) with either flag. An early return that writes nothing is
a step not taken, except where the handler is already past a read.

Abstractions: the lookup of `single_grant`, which Postgres does just before its
transaction, belongs to the same step (the flag never changes while the key
exists). The clock is shared. Ownership tests are not modelled: every handler runs
for the owner.

### 2.2 RequestClaim

One event and the Redis key of its claim. A tick is one watch poll. `Tick` waits
until nothing is due (a live owner's heartbeat, a watcher's poll), so timers fire
on time but everything inside a tick interleaves freely. `Coordinate` covers the
three outcomes of SET NX: won, lost, error. The callback may take up to
`ProcessTime` ticks; `processRequest` runs after it for as long as it likes.
A `Crash` takes the callback, the watcher and the goroutine; a `Restart` empties
`seenEvents`, so the event may be delivered again; a replica in `cut` gets an error
from every Redis call. `TimingAssumption` states what the constants of `claim.go`
(lease 8 s, heartbeat 2.67 s, budget 25 s, done marker 60 s) satisfy, in ticks of
a second, and that relays deliver within a window shorter than the done marker's
life; this last part is about the relays and is the one assumption the code
does not enforce.

### 2.3 RequestAuth

A request is `new`, `processing` (claimed, the grant has been read into `snap`),
`park`, `context` and `waiting` (the three steps of `waitForAuthorization`),
`leaving`, and `done`, or `lost` when its replica died or evicted a deleted key.
`rows` is the shared table, `ctx` and `chan` the memory of the request's `home`
replica. A decision handler in flight is a record in `dec`: it looks up the row,
stores a grant if the decision is to be remembered, deletes the row, and signals
the context of its own replica, in that order and each in a step of its own. `late`
is the passing of a request's `ExpiresAt`. Every call of the storage on the way may fail, and
most failures do not end the request: a grant that cannot be read counts as none, a key that
cannot be looked up as existing, a connect with a valid secret is served although its grant was
not stored, a row that cannot be deleted stays. Two variables record history: `covered` has the
requests whose client held a live grant at some moment since they were taken up (or that brought
a valid secret), `first` the verdict that reached each request's channel first. Around them grants are made, displaced,
expired and deleted, the key's `require_approval` changes, the account is deleted,
and a replica crashes.

Abstractions: the methods themselves (`handleRequest` and below) are one step;
`RequireApproval` on a grant is not modelled, because no handler ever sets it; the
deletion of an account's grants and the eviction of its keys are one step.

### 2.4 OneTime and OneTimeSecrets

`item` is the row of each token and bunker secret: not issued, open, used, expired,
gone. A redemption or a connect request in flight is a record in `hs`. On the SQL
backends `RedeemToken` and `ValidateBunkerSecret` read and `Mark` writes, by id and
without a second look; on the memory backend both happen under the mutex, in one
step. A token's redemption then looks up the policy (`RedeemPolicy`) and the key
(`RedeemKey`) and only then stores the grant, and any of these may fail after the
token is spent. A request under a grant is a record in `wk`: it reads the rule's usage
(`checkPolicyUsage`), runs, counts (`IncrementRuleUsage`, deferred, its failure only
logged) and answers. The policy may be deleted or lapse between any two of these.
`OneTime` is the abstract specification: each item is taken at most once. The
refinement mapping takes the acceptances of the memory backend.

Abstractions: one key, one policy with one rule; a grant is none, from the policy,
or of everything; ids and secrets are random, so none is issued twice.

### 2.5 LoginGuard

An attempt is a record in `att`: sign-in and the web UI reserve a unit of the
account's Redis counter and then read the row; `reauthenticate` reads first. From
the copy of the row it decides (locked, password, TOTP, backup code); a backup code is
consumed in the database; a failure is counted in the row and compared in the
copy; success gives the unit back. Sign-in leaves `ResetFailedLogins` and the
write of the whole row to goroutines: `resets` and `updates`. `updates` also holds
what the other users of `UpdateUser` (passkey and lightning sign-in, change of
password or pubkey, recovery, end of MFA) have read and will write. `window` numbers
the lives of the counter: a unit remembers the one it was taken from, so that a
late refund shows. A Redis or database error lets the call fail before or after
its effect; `Die` is the loss of the replica or of a refund.

Abstractions: the counter of the client's address, which works alike, is left out;
of the row only what the guard reads. A lockout's end (`LockExpires`) is a step, so
a copy written back may also renew a lockout that has just ended.

### 2.6 StaySignedIn

`sess`, `token` and `sealed` are rows in the session store and the database; `mem`,
`lease`, `fresh` and `pass` the memory of each replica. A sign-in creates the session
and leaves an unlock to goroutines: `unlock` with the passphrase, or `vault`, which
fetches a Vault token, and `load`, which it starts to unlock with the token.
`sealSessionKeys` stores a seal of whatever is loaded by then. A reconciliation pass
lists the leases, looks up each one's seals and unloads or keeps; a request restores
lazily, or with the half of the key the browser keeps (`split`). The ways to revoke
(logout, one session, all sessions, all seals, change of password) are the records of
`hd`: their deletions in two stores and the unload, here or at the replica the registry
names, are steps of their own, each of which can fail. `dep` is the deployment: where
sessions are kept, how the key is wrapped, what users do.

Abstractions: one account with one key; expiry is an event; the split half is there or
not; the passes and requests of one replica are followed (`Watched`), the others are
met in the stores only; rotation of seals is left out.

### 2.7 FrostKeys

`Bip340Frost` computes what `internal/frost` computes, over the integers modulo a small
prime; an element is written as its discrete logarithm, so that `s*G` is `s`. Even y is a
property that exactly one of an element and its negation has, which is all that x-only
encodings use. Hashes are an operator parameter, of which the proofs assume only what
`scalarFromModN` makes of a digest (`ReducedHashes`: it is a scalar); `MCHash` depends on
everything that is hashed. A polynomial is evaluated as the sum of its terms, with the power
that each turn of the loop of `evaluatePolynomial` has reached (`xPower`).

`UserCosign` is a key shared between the signer and a browser: it comes from the key
generation of `frost/user_dkg.go` or from one of the two migrations, each in several writes
with its roll-back (`hd`), is recovered with its recovery phrase, and signs through
`InitiateCosign`, the browser's answer (over HTTP, or over relays, waited for by
`handleFrostUserSignEvent`) and `CompleteCosign`, which looks the session up under the lock,
computes without it, and deletes it. `calls` are the calls of the latter, which may overlap.
The browser is modelled from the code that serves it and is honest. `DealerKeys` is a key
that one instance split: create, delete, export, import and sign, each a sequence of
storage calls, on three backends that differ in what a deletion takes along (what is
imported is a bundle that was exported; the code checks no more than its form).
`DistributedDKG` is the invitation, the acceptances and the first round among instances,
with messages lost, repeated and overtaken; the later rounds are unreachable (section 5).

### 2.8 KeyService

`KeyRuntime` has one replica's maps for one key (`s.keys`, `s.keyRelays`, `s.subCancels`,
`m.clients`), the clients and connections they refer to, the goroutines that read those
(`listen`), that warm a client up (`warm`), that reconnect (`dialing`) and that publish a
reply, and the steps of `RegisterKey`, `UnregisterKey` and `refreshSubscription`. The last
takes a copy under one lock and acts on it under another (`snap`). `BaseClient` is the shared
client: subscriptions that reconnect, and `PublishToRelay` of an answer that must arrive.
`KeyLocation` has Redis' record with its expiry, `Publish`, `Forget`, `Run`, the look-up, sealed
forwards with timestamp and nonce between replicas whose clocks differ, the nonce table
and its pruning, the evictions after an account was deleted and the check that catches what
those missed (`evictIfKeyDeleted`), which no timer runs: a request for the key has to reach the
replica, win its claim there and find no grant. `net` only grows: a message can be delivered late, again, or never.
`UpstreamProxy` is `proxy/`: connections by upstream pubkey, the handshake, the goroutine
that reads a connection and the call that made it, which share the `connected` flag,
outstanding requests told of a loss, and the reconnect loop.

Abstractions: one key, one relay of each sort; time advances in units of `refreshEvery` and
only when the timers due have fired; cover traffic and relay choice are left out.

### 2.9 Accounts

`AccountCustody` has the account's row, how each key's row is wrapped (`wrap`: under a
password, by the user's transit key, by the server's), what Vault holds, and in `req` the
handlers of registration, sign-in with its legacy re-wrap, password change, recovery, MFA
and deletion, a storage or Vault call per step. A call may fail; a client may go away, after
which every call of its handler fails, the roll-back's too, since it uses the request's
context. Whether the signer's own Vault policy lets it delete transit keys (`mayDelete`) is the
operator's choice and may change (`changeSignerPolicy`); by the documented policy it may not
(`docs/self-hosting.md:99-101`), so that a deletion is refused, written down, and refused again
at every sweep. Passwords are numbered as they are chosen. `Challenges` has the rows that a
lightning login or link, a passkey ceremony or a recovery opens, the linking keys with
their ids, and the markers of `ConfirmFirstLogin` in browsers; a request is a record in
`call`, between its read, its write and its delete. A status poll that could not look up the linking
key goes on as if no confirmation were needed, as the code does (`unseen`). `AppConnect` has consents and grants, the
replicas that hold the key, the unlocks in flight as `keyLoads` knows them (`inflight`) and as
they are (`latest`, `running`), the posts of apps, from a signed-in session or from a form, with
their forward to the holder, and revocation.

Abstractions: one account, one key in `AppConnect`; proofs, signatures and passwords are
right or absent (a wrong one ends the request at its first step).

## 3. Runs

| Run | Bounds | States | Shows |
|---|---|---|---|
| `GrantStore` | Postgres and SQLite, 2 clients, 2 slots, 1 handler in flight beside the one-step flows, clock 0..2, both kinds of key, symmetry | 1.8 million | `SlotExclusive`, `OneLiveGrantPerSlot`, `NoSideEffectDisplacement`, `NoRevival` |
| `RequestClaim` | 2 replicas, 1 crash, 1 partition, fair | 465 thousand | `OwnerKeepsLease`, `AtMostOnceWithoutFaults`, `DoneStopsTakeover`, `FailoverDispatches` |
| `RequestAuth` | 1 connect request with a secret, 1 client, 2 replicas, 2 handlers, 1 crash or failed call, fair | 3.0 million | `AnsweredByAuthority`, `EveryRequestAnswered` |
| `OneTimeSecrets` | 1 token, 1 bunker secret, 1 client, 2 redemptions and 2 requests in flight, both kinds of backend, limit 1, 3 requests, symmetry | 3.4 million | `NoLateAcceptance`, `UsageLimitHolds`, `MemoryIsOneTime` |
| `LoginGuard` | 2 attempts in flight, 3 in all, 2 windows, budget 1, maximum 2, 1 code, 1 error, 1 other whole-row write, symmetry | 2.0 million | `WindowBudget`, `LockoutEngages` |
| `StaySignedIn` | 2 replicas of which 1 is watched, 1 session, 1 revocation, 5 deployments, 1 fault in four of them, fair | 146 thousand | `SealedKeyIsLeased`, `RevokedLeaseDropped`, `SealRestored` |
| `FrostKeys` | group of order 5; 2 cosigning sessions, 2 overlapping completions; 2-of-3 dealer's key, 2 users, 2 ids, 5 requests, 3 backends; 3 signers, 1 repeated message, 2 losses or crashes; 2 failed writes | 272 thousand | `GeneratedKeySigns`, `NoncesServeOneRound`, `DealerKeySigns`, `SharesAreTheOwners`, `CommitmentsAgree` |
| `FrostKeysUnsigned` | the same | violation | `EveryKeySigns` fails |
| `KeyService` | 1 loader, 1 evictor, 3 clients, 5 connections, 2 events; 4 shared connections, 3 outages; 2 replicas, clocks one unit apart, record life 3, skew 1, time 3; 2 forwards and the reconnect loop, 1 drop; fair | 937 thousand | `SubscriptionMatchesKeys`, `AckSurvivesDeadConnection`, `ServedOnce`, `SoleHolderIsFound`, `LostConnectionTold`, `HeardAgain`, `DeletedKeyLeavesMemory`, `UpstreamComesBack` |
| `Accounts` | 2 keys, 2 handlers in flight, 4 in all, 3 passwords, 1 fault; 2 rows, 2 users, 1 wallet, 2 browsers, 2 requests; 1 app, 2 replicas, 4 posts, 2 unlocks, 1 fault; fair sweep | 2.6 million | `KeysFollowPassword`, `VaultFollowsPassword`, `NothingOutlivesAccount`, `TransitKeyOnRecord`, `RevokedStaysOut`, `LockedAfterUnlock`, `TransitKeyGoes`, `ChallengeIsOneTime`, `SeenLoginConfirmed` |
| `AccountsPassword` | the same without faults | violation | `ChangedPasswordSticks` fails |
| `AccountsLightning` | 2 challenges, 2 users, 1 wallet, 2 browsers, 2 requests | violation | `FirstLoginConfirmed` fails |

Every module also defines its type invariant; those of the modules with a proof module
are proved, alone or as part of an inductive invariant (section 4).

**Why the bounds are enough.** A grant conflict is between two clients in a slot;
a lost update needs one handler between its read and its write and one other
writer, and every one-step flow is such a writer. The clock reaches 2 so that a
grant made at 0 with expiry 1 is live, on the boundary, and expired, and a sliding
one slides. In `RequestClaim` the lease (2), the callback (3), the budget (6), the
done marker (7) and the delivery window (3) keep the order of the real constants,
and the budget is just long enough for a full callback, the owner's death and the
expiry of its lease; with a budget of 5 `FailoverDispatches` fails, that is, the real
budget of 25 s covers callbacks of up to about 16 s. Requests meet only in their
client's grant and in the handlers, so one request with two handlers on two
replicas shows every race on a request, and a connect request that may bring a secret takes
every branch. Another client would only displace the first's grant, which deleting it does too. A limit overrun needs two requests in flight;
three requests exceed a limit of 1 by more than the one that may overrun it, so an
error in the comparison shows. In `LoginGuard` three failures are what it takes to
pass a maximum of 2 with two attempts in flight; a budget of 1, a second window and an
error are what it takes to let three attempts fail, and the second window receives
refunds of the first. In `StaySignedIn` replicas meet in the stores, so one that is
watched and one that only writes show each race; one session that ends and one
revocation are the shortest behaviour in which a restore and a revocation cross, and
the deployments are those combinations of backend, wrapping and way to sign out in
which different code runs. Five is the smallest prime with two elements of even y and
two of odd y, and Lagrange coefficients other than 1; the shares are those of keys of
either parity. Two ids are what it takes to delete and import a key
between a look-up and a write. In `KeyService` two connections can be lost and a third
dialled while a call still holds the first; the record's life is 3 refreshes as in
the code (45 s and 15 s), and time 3 lets a record expire unless it is refreshed. The
skew is 1 instead of 2 (30 s), so that a message grows too old and its nonce is pruned
within that time; `ServedOnceAlways` covers every skew. One message is enough for `ServedOnce`, which is about its repetitions. In
`Accounts` a change that fails in the middle needs two keys; three passwords tell a
roll-back from the change before; two handlers overlap; two rows and two users show a
wallet's key moving from one account to another; two unlocks overlap on a replica.

Deadlock is checked in `GrantStore`, `RequestClaim` and `OneTimeSecrets`. The others may
stop (their bounds on attempts, requests, faults or time are used up, or the account is
gone), so their configurations switch the check off.

**Fairness.** Weak fairness only, of goroutines, tickers and calls that have begun.
`RequestClaim!Fairness`: the callback, heartbeat, watcher and `processRequest` of each
replica, and time. A step of a crashed replica is never enabled; nothing obliges a relay
to deliver, a replica to crash, restart or heal. `RequestAuth!FairSpec`: a started
request's own steps and its clock; the owner never has to decide, no handler has to
finish, no grant has to appear. `StaySignedIn!Fairness`: the reconciliation ticker of each
watched replica, a sign-in's tasks, and a request or revocation that has begun; nobody has
to sign out. `KeyService`: `RuntimeFairness` (a call that has begun, the goroutine that reads
a connection noticing its loss, the reconnect loop), `LocationFairness` (a login that has
begun to load and publish its key), `ProxyFairness` (the reconnect loop, a connection attempt, a
forward under way). No relay has to accept a connection while faults are left; the faults
are bounded, and the liveness properties are about what follows the last one.
`Accounts!CustodyFairness`: the hourly sweep of retained deletions, whatever Vault answers it,
and a deletion's last two steps.

Two liveness properties need more than the code gives and say so in their statement.
`DeletedKeyLeavesMemory` assumes that every replica that holds a deleted key goes on being asked
for it (`AskedWhereverHeld`), because only a request makes a replica look; `TransitKeyGoes`
assumes that the signer's policy lets it delete transit keys from some moment on, because until
then every sweep is refused. What the code does without that is `TransitKeyOnRecord`.

## 4. Proofs

TLAPS checks the following for every value of the constants that satisfies the
named assumptions of the modules (for example `TimingAssumption` of `RequestClaim`,
`LocationAssumption` of `KeyLocation`, `ConnectAssumption` of `AppConnect`). They say
that bounds are natural numbers, that the values for "nobody" are not somebody, that
sets of handlers are finite where they are counted, and what the constants of the code
satisfy (`TimingAssumption`, `TTLAssumption`, `ThresholdAssumption`, `OrderAssumption`: the
order of the group is a prime above two). Bounds on faults and
requests are among the constants, so the theorems are about any number of them.

* `GrantStore_proofs`: `GrantTypes`, `GrantSlotExclusive`, `GrantNoSideEffect`,
  `GrantOneLivePerSlot`, `GrantNoRevival`, `BackendsAgreeOnEveryTable`. The inductive invariant is `TypeOK /\ ClientsNamed /\
  SlotExclusive`. `ClientsNamed` (a handler past its first read has a real client) is
  what lets the write of `SetStore` be typed. `SlotExclusive` rests on lemmas about
  the storage operators: `ExclusiveWrite` says which changes of a table keep the
  rule, `SQLExclusive` and `MemoryExclusive` that each backend's write is such a
  change; `UnlapsedKept` that a write without `displaceLive` leaves unlapsed rows of
  others alone. `GrantOneLivePerSlot` adds `FlagInv` (on SQLite every row carries the flag
  of the key that exists, since the foreign key took the rows of the one before), and
  `GrantNoRevival` adds `RenewsApart` (only SQLite renews in two statements).
  `BackendsAgreeOnEveryTable` is about tables, not behaviours: on
  every table whose rows carry the key's flag the two rules give the same result.
* `RequestClaim_proofs`: `ClaimTypes`, `ClaimOwnerKeepsLease`, `ClaimAtMostOnce`,
  `ClaimNoClobber`, `ClaimDoneStopsTakeover`. The inductive invariant is `TypeOK /\
  LeaseInv /\ OnceInv`. `LeaseInv` ties the lease's remaining life to the owner's next
  heartbeat: `ttl = hb + (LeaseTTL - HeartbeatIvl)`, hence at least 1 when the
  heartbeat is due. `OnceInv` says, while nothing has failed, who stands between the
  others and the key: the owner (`marking`), the done marker (which outlives every
  delivery and is polled by every watcher before it expires), or nobody, because
  there are no others left.
* `RequestAuth_proofs`: see the list of theorems in `PROJECT.json`; the inductive
  invariant is `RequestAuth!IInv`, explained in 4.1.

* `OneTimeSecrets_proofs`: `SecretsTypes`, `SecretsNoLateAcceptance`,
  `PolicyUsageLimit`, `MemoryImplementsOneTime`. The inductive invariant is
  `OneTimeSecrets!IInv`: an accepted secret is never open again and neither is one
  that was spent when a request started (`SpentStays`); the memory backend has no
  request between check and mark (`MemoryMarks`), which makes each of its steps a
  step of `OneTime` or a stutter; usage plus the requests between check and count
  stays below the limit plus the requests in flight (`UsageInv`).
* `SignIn_proofs`, for `LoginGuard`: `GuardTypes`, `GuardWindowBudget`, `GuardBackupCodeSpent`,
  `GuardLockoutEngages`. The inductive invariant is `LoginGuard!IInv`. `WindowInv` has
  two halves: the counter, with the refunds that were not its own, covers the units
  held and spent; the units that may still be spent, and those that were, fit the
  budget. The first is what lets `Allow` conclude the second from the number it gets
  back. `LockInv` counts, with the failures, the attempts whose copy is too old to
  decide on the lockout: reading the row adds one only while there is room.
  For `StaySignedIn`: `SessionTypesAlways`, `SealedKeysAreLeased`. The property is inductive
  once the types are known and what a handler still has to do is: `UnloadFollows` says that
  every list of steps that drops a lease has the unload right behind it, so that the state
  between the two is one the property allows. It holds of what every way to sign out starts
  with (`Programs`), because lists put together keep it (`Together`), and steps only take
  from the front of a list.
* `Accounts_proofs`: `ConnectInvariant`, `RevokedStaysOutAlways`, `LockedAfterUnlockAlways`;
  `ChallengeInvariant`, `ChallengeIsOneTimeAlways`, `SeenLoginConfirmedAlways`;
  `CustodyInvariant`, `KeysFollowPasswordAlways`, `VaultFollowsPasswordAlways`,
  `NothingOutlivesAccountAlways`, `TransitKeyOnRecordAlways`, explained in 4.2. `ConnectInv` is
  the types with `RevokeInv` (an app being revoked undisturbed has lost its consent, and
  none of its requests is under way), `AskedInv` (a revoked app
  that asks again gets no further than the question) and `UnlockInv` (the entry of
  `keyLoads` is the unlock that began last, and a post that no longer waits has seen the
  end of its own or waited too long). `ChallengeInv` is the types with `RowInv` (what
  each state of a row implies), `CallInv` (what a request between its statements may rely
  on), `SessionInv` (who has used a WebAuthn session that nobody else read is about to delete
  it), `WalletInv` (an id of a linking key names one account for good) and `ConfirmInv` (a
  login about to complete, whose poll could read the linking key, was confirmed by this request or, for this browser, earlier). The refinement to `OneTime` follows step by step.
* `KeyService_proofs`: `SubscriptionMatchesKeysAlways` from `RefreshInv` (refreshes take turns,
  and some call will still refresh, or the one running has the current copy, or the
  subscription matches); `AckSurvivesAlways` from `AckInv`; `LostConnectionToldAlways` from
  `ToldInv` (a connection that is in the map or that somebody waits on is read, or was
  marked although nothing reads it); `LocationInvariant`, `ServedOnceAlways` and
  `SoleHolderIsFoundAlways` from `LocationInv`. Of the latter, `ServedInv` says that a replica
  that has acted on a message has its nonce, or had it so long that the timestamp is
  refused by now: this is where the pruning age and the skew meet. `HolderInv` says that a
  sole holder which has refreshed in this interval is in the record. `MinIn` (the minimum
  of a set of naturals is in it) is proved from the well-foundedness of `<`.
* `FrostKeys_proofs`: `NoncesServeOneRoundAlways` from `ServesInv` (once a call has answered,
  the session is gone); `SharesAreTheOwnersAlways` from `OwnersInv` (of an issued id,
  every share and every request that will write one is its owner's: ids are not reused);
  `CommitmentsAgreeAlways` from `AgreeInv`, which rests on an accident of the protocol:
  acceptances go to the first participant only and nobody tells the initiator of its
  own session, so that only an initiator that comes first ever draws a polynomial, and
  does so once, whatever is repeated. That it needs all acceptances is an argument about
  cardinalities. `GeneratedKeysSign` and `DealerKeysSign`, with the arithmetic under them
  (`InterpolateValues`, `PartialsVerify`), are explained in 4.3.

### 4.1 The invariant of RequestAuth

`AnsweredByAuthority` is about the answer, and the answer depends on which of three ready
cases of a `select` Go takes, on whether a grant was there when the request was read or when
it polled, and on which handler came first; none of that is still to be seen when the answer
is given. `IInv` carries it there: `Authority` says that a request that is here while its
client has a live grant, or that goes on with a live snapshot, is in `covered`, and that a
verdict "approve" comes from `covered` or from `first`; `ChannelHoldsFirst` that nothing is in a
channel before its request waits, and that while it waits the channel holds the first verdict:
a second handler finds the slot taken, and once the slot is empty again the request no longer
waits. `HandlersHaveRequests` lets a handler's write be typed. `ExpiredGrantRefused` needs that a request on the waiting path
had no grant when it was read, `NothingLeftBehind` that rows and contexts belong
to requests that have not been answered.

### 4.2 The invariant of AccountCustody

The properties of the account speak of moments at which nothing is in progress (or of
an account that is gone), and the code keeps them only by what each handler knows in
between. `CustodyInv` says what that is, in seven parts:

* `CustodyTypeOK`, the types;
* `StartInv`: registration is the first request and runs alone, every other one has read a
  row with a password, and only a change or a recovery is ever at the Vault step;
* `GoneInv`: what a deletion has taken from Vault does not come back, so that the row goes
  after the login and the policy and nothing can be added to an account without a row;
* `RecordInv`: `TransitKeyOnRecord`, and only a deletion is ever at the step that deletes or
  records the transit key: when it leaves that step the key is gone or on record;
* `SnapInv`: unless requests have overlapped, each has read the password the account has,
  which makes the whole-row writes of sign-in and MFA harmless, and the old password
  that a roll-back uses the right one;
* `VaultInv`: the Vault login has the account's password, or the request that will tell
  Vault is at that step;
* `KeyInv`: a change or a recovery accounts for every key under a password: it is still to
  be written, or written under the new password (`KeysKnown`); and no key is under another
  password than the account's unless such a request still holds it as written, to commit
  or roll back, or a recovery has reported it.

The proof goes by what a step does to each piece of state rather than by action alone:
`CustodyShape` says that a step starts a request, carries one on, or is a key handler, the
sweep or a change of the signer's policy; `RowEffect`, `LoginEffect`, `OnlyRegistrationAdds`, `OtherWraps`, `SetterKeys` and
`TransitEffect` say what it may write. `overlapped`, `broken` and `behind` are assumptions of the properties, not of
the proof: the invariant says what holds whenever they are false.

### 4.3 Why threshold signatures verify

`GeneratedKeySigns` and `DealerKeySigns` are checked by TLC in a group of five elements; the
theorems are about every prime order, every threshold below it, every choice of shares, nonces
and hashes. The argument has four layers, all in `FrostKeys_proofs`:

* the field: the laws of addition and multiplication modulo the order, and inverses
  (`HasInverse`: the least nonzero residue among the multiples of a divides the prime order,
  so it is 1);
* sums and products over finite sets: the folds of the community modules are functions
  defined by taking an element out, so `TotalLaws` (any element may be taken out first) is
  proved by induction on subsets, and linearity (`SumAdd`, `SumScale`) from it;
* interpolation: `InterpolateShift`, a consequence of how a coefficient changes when one index
  leaves the set, gives that coefficients of a nonempty set add up to 1 (`InterpolateOne`), that
  they cancel the powers 1 .. |ids| - 1 (`InterpolatePowers`) and hence that they return the
  constant term of a polynomial with no more coefficients than indices (`InterpolateValues`);
* the signature equation: `PartialsVerify` adds up the partial signatures. Both sign changes,
  of the nonces when R has odd y and of the shares when P has, are carried through the sum.

Induction over numbers and over finite sets is used in the form that the provers can
instantiate: a set of numbers without a least counterexample is all of `Nat` (`LeastOf`,
`EveryNat`), and a family of parts that contains each part whose smaller parts it contains
has them all (`EveryPart`).

The rest is about the code's steps. `SplitInv` (DealerKeys): every stored share is the
polynomial's at its index and stored once; a request that `CanSign` let through has, as long
as its key is there, enough of them, for shares only go together with their key and ids do
not come back. `FirstEnough` shows that the SQL lists ("fewer than n before it") return at
least the threshold, and the map of the memory backend any set of that size. `GeneratedInv`
(UserCosign): there are two polynomials of which the row, both shares, what is in the hands of
the handler that writes them, and the copies in every open session and held call are the
values, through failed writes, roll-backs, the loss of the device and its recovery. It says
nothing of migrated keys, for which the property is false (section 5).

### 4.4 Only model-checked

Liveness, which needs fairness and ENABLED: `FailoverDispatches`, `EveryRequestAnswered`,
`RevokedLeaseDropped`, `SealRestored`, `HeardAgain`, `DeletedKeyLeavesMemory`,
`UpstreamComesBack`, `TransitKeyGoes`. Every invariant and every action property of the
runs is a theorem. And the violations.

## 5. Findings

* **A migrated key never signs.** The migration splits the secret as a sum
  (`frost_migrate.go:147`); signing combines shares with the Lagrange coefficients of a
  polynomial split. `FrostKeysUnsigned`.
* **Half of all generated keys never sign.** Signing lifts the stored x-only pubkey to
  even y (`signer.go:1799`) without negating the shares when the joint pubkey has odd y,
  which is no longer known by then. `FrostKeysUnsigned`, and the reason for the condition in
  `GeneratedKeySigns`.
* **Sign-in undoes a password change.** Its last goroutine writes every column of the row
  as it was read at the start (`handler.go:2783`), the password hash included, although the
  keys are wrapped under the new password by then. `AccountsPassword`. The same write
  restores a backup code consumed in between, an older failure counter (also when it
  lands after sign-in's own reset) and an older lockout.
* **A first login is not confirmed when its key cannot be looked up.** `lightningKeyNeedsConfirm`
  takes any error of `GetLightningKeyByLinkingKey` for "no confirmation needed"
  (`handler_lightning.go:378`), so that the status poll completes the login of a browser that
  has no marker, although "a key's first login in each browser [...] waits for POST
  /lightning/confirm" (`handler_lightning.go:347`). `AccountsLightning`; `SeenLoginConfirmed` is what
  holds when the look-up succeeds.

### Observations without a run of their own

Grants and requests:
* `DeleteKey` deletes permissions whose `key_id` is the key's *id*; the column holds the
  *pubkey*, so grants of a deleted key stay (Postgres, memory; `postgres.go:805`).
* The done marker of a claim says "dispatched": a crash before the answer is not taken
  over (`signer.go:733`).
* The poll of `waitForAuthorization` takes any live grant of the client for an approval
  (`signer.go:2687`), also while a denial is in the channel already: with both ready Go picks
  either.
* A grant read before the request was started still serves it after it was revoked.
* An approval without "remember" on another replica than the request's is lost: it
  deletes the row, finds no context and answers 200, while `signer.go:2673-2675` says that
  "the permission IS saved to the database".
* A token or bunker secret can be used twice on Postgres and SQLite: check and mark are two
  statements (`postgres.go:1424`, `postgres.go:1953`). A token whose policy or key is gone is spent for
  nothing; a deleted policy no longer limits the grants made from it; nothing calls
  `CleanExpiredBunkerSecrets`.
* SQLite's `RenewPermission` tests and writes in two statements; a renewal and an edit race on
  the expiry each has read. `docs/concepts.md:136` describes an auto-approve mode that
  `processRequest` no longer has.

Sessions and seals:
* With sessions in Redis, `mutate` and `Extend` read a record and SET it: a session deleted in
  between is back (`sessionstore.go:195`).
* `sealSessionKeys` runs after `populateVaultTokenAsync`, which leaves loading the key to a
  goroutine: a stay that was granted may have no seal (`handler.go:2735`).
* The passphrase key of a sign-in without a seal is not evicted at logout.

Threshold keys:
* The SQL `UpdateKey` does not write `encrypted_nsec`, so path A of the migration leaves it; a
  `handleUpdateKey` that read the row before a migration turns `key_type` back; path B refuses a
  secret whose pubkey has odd y and its recovery does not see the placeholder.
* Sessions that are denied or time out are never dropped, and their collectors have no
  callers; two overlapping `CompleteCosign` calls use the same nonces (`user_signer.go:169`);
  the response is subscribed to after the request is published.
* Acceptances of a distributed key generation go to `Participants[0]` only
  (`dkg_distributed.go:264-343`): no other member starts round 1, so no key generation
  ends, unlike `docs/frost-2-of-n-design.md:530`.
* `handleBatchSign` does not route threshold keys; creating a dealer's key answers 201 although
  writing shares failed; the memory backend takes a share for a deleted key;
  an import checks the form of a bundle only, and any well-formed share is stored
  (`handler.go:5519`), where the model imports what was exported; `owner_id` of
  `signer_frost_keys` has no cascade, so `DeleteUser` fails for their owners for ever.

Keys in memory:
* `UnregisterKey` deletes `keyRelays`, which only `Start` fills: a key loaded again after an
  eviction is served on the global relays (`signer.go:506-516`).
* A reply may dial a connection that nobody subscribes to, after which the reconnect loop
  finds the relay there and stays deaf (`Unread` in `HeardAgain`); a warm-up that ends after
  `RemoveClient` leaves a client with the private key behind.
* A deleted account's key that a replica was not told to evict stays in its memory until the
  next request for it without a grant or the next restart; a grant that survived the deletion
  (above) keeps it there and in use.
* The administrators' subscription does not reconnect (`client.go:640`); a restart forgets the
  nonces a replica has seen.
* Two proxy keys of one upstream signer share a connection and its keypair
  (`signer.go:1279`); an error of subscribe leaves a connection that nothing reads marked
  connected (`deaf` in `UpstreamComesBack`), so does a drop just before the flag is set; the
  loss of an old connection removes the entry of a newer one.

Accounts:
* The roll-back of a password change uses the request's context, and there is none after
  a crash (`broken` in `KeysFollowPassword`); a legacy re-wrap that races a change strands a key
  (`overlapped`); a key stranded by a recovery blocks later changes.
* A recovery ends no sessions; a login that checked the old password may create a session
  after a change has ended them all; a crash between the deletion of the account's row and
  the note about its transit key leaks that key (`lost` in `TransitKeyOnRecord`). The documented policy of the
  signer gives no "delete" on transit keys (`account_delete.go:30`, `docs/self-hosting.md:99-101`):
  until the operator changes it every sweep is refused and the key stays.
* A second answer of the same wallet can link its key on a claimed challenge; unlinking
  and linking again, or unlinking between callback and poll, skips the confirmation; overlapping finishes of one passkey ceremony
  both sign in, and the sign counter is ignored (`exposed` in `ChallengeIsOneTime`).
* A consent given in advance skips the check that the key is loaded, so that 200 is
  answered and no acknowledgement sent (`handler.go:4323`, `handler.go:4597`); revoking swallows errors of its
  deletions, and a request of the app that is under way meanwhile may put its consent or grant
  back; when recording the consent fails the grant stays; of two unlocks only the
  later is waited for.

## 6. Plan

Done: the grants, the claim, authorization, one-time access, password checks, sessions
and seals, threshold keys, keys in memory and their locations, custody of keys, the
other ways in, and connecting apps. What would add most next:

1. A refinement: `RequestClaim` with `RequestAuth` implements an abstract
   "at least once, answered once without faults" request service.
2. Larger instances of `StaySignedIn` (two sessions with one revocation each) and the
   rotation of seals.

### Not modelled

* Rounds 2 and 3 of the distributed key generation, `remote_signer.go`, `handleFrostProxy`,
  `buildKeyShareData`: nothing that runs reaches them. The one-time relay of a share between two
  devices of a user.
* The Vault client itself and the renewal of its token: an HTTP client around an external
  service; what the service holds is in `AccountCustody`.
* Rotation of seals, which adds a second list of keys to every step of `StaySignedIn`.
* Audit, metrics, configuration, discovery, NIP-05 and NIP-89: nothing decides on them.
* The web and admin UI and the wasm client: rendering; the browser's half of a protocol is
  modelled where the server depends on it.
* Hashes, ciphers, encodings of points: library calls; `Bip340Frost` has the equations.
