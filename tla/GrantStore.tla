----------------------------- MODULE GrantStore -----------------------------
(***************************************************************************)
(* The life of the grants of one signing key.  The key's owner works       *)
(* through HTTP handlers (any replica, any number at a time) that read the *)
(* table, decide, and write it back in a LATER storage call; the signer    *)
(* writes grants when a client connects and slides them when one is used;  *)
(* the key itself can be deleted and created again.  Each action is one    *)
(* storage call together with the handler code up to the next one.         *)
(***************************************************************************)
EXTENDS Grants

CONSTANTS
  Procs,            \* HTTP requests in flight
  Backends,         \* of "memory", "postgres" and "sqlite", those to run on
  AnySlot,          \* a request that names no slot
  NoClient,         \* the client of an idle handler
  MaxGrantRenewal,  \* the furthest a renewal reaches from now
  SingleFlags,      \* the single_grant flags keys are created with
  MaxNow,           \* bound: the clock stops here
  NamedExpiries,    \* bound: the expiries that requests name
  MethodSets        \* bound: the method lists that requests name

ASSUME BackendAssumption == Backends \subseteq {"memory", "postgres", "sqlite"}
ASSUME RequestAssumption ==
  /\ AnySlot \notin Slots
  /\ NoClient \notin Clients
  /\ MaxGrantRenewal \in Nat
  /\ SingleFlags \subseteq BOOLEAN
  /\ MaxNow \in Nat
  /\ NamedExpiries \subseteq Nat \cup {NoExpiry}
  /\ MethodSets \subseteq SUBSET Methods

VARIABLES
  key,       \* [exists, single]: the signer_keys row; and the backend that stores it
  table,     \* the grants of the key
  now,       \* the clock all replicas and the database share
  pc,        \* where each request in flight is
  req,       \* its input
  perm,      \* the row it is about to store
  listed,    \* the clients a revoke-all has still to delete
  touching   \* clients whose UpdatePermissionLastUsed goroutine has not run

vars == <<key, table, now, pc, req, perm, listed, touching>>

Expiries == Nat \cup {NoExpiry}

Request == [client : Clients \cup {NoClient}, slot : Slots \cup {AnySlot},
            methods : SUBSET Methods, expires : Expiries, replace : BOOLEAN]

NoRequest == [client |-> NoClient, slot |-> AnySlot, methods |-> {},
              expires |-> NoExpiry, replace |-> FALSE]

TypeOK ==
  /\ key \in [exists : BOOLEAN, single : BOOLEAN, backend : Backends]
  /\ table \in [Clients -> Row]
  /\ now \in Nat
  /\ pc \in [Procs -> {"idle", "list", "store", "amend", "renew", "renewWrite",
                         "revokeAll"}]
  /\ req \in [Procs -> Request]
  /\ perm \in [Procs -> Row]
  /\ listed \in [Procs -> SUBSET Clients]
  /\ touching \subseteq Clients

Init ==
  /\ key \in [exists : {TRUE}, single : SingleFlags, backend : Backends]
  /\ table = EmptyTable
  /\ now = 0
  /\ pc = [p \in Procs |-> "idle"]
  /\ req = [p \in Procs |-> NoRequest]
  /\ perm = [p \in Procs |-> NoRow]
  /\ listed = [p \in Procs |-> {}]
  /\ touching = {}

-----------------------------------------------------------------------------
(* The storage interface: what each backend does when the key is gone.     *)

\* Postgres: no foreign key; a key that is not found keeps the one-grant rule.
PostgresSetPermission(c, p, displaceLive) ==
  setPermissionSQL(table, c, p, displaceLive, ~key.exists \/ key.single, now)

\* SQLite: the insert fails on the foreign key.
SQLiteSetPermission(c, p, displaceLive) ==
  IF key.exists THEN setPermissionSQL(table, c, p, displaceLive, key.single, now)
                ELSE table

\* In memory: ErrKeyNotFound.
MemorySetPermission(c, p, displaceLive) ==
  IF key.exists THEN setPermissionMemory(table, c, p, displaceLive, key.single, now)
                ELSE table

SetPermission(c, p, displaceLive) ==
  IF key.backend = "postgres" THEN PostgresSetPermission(c, p, displaceLive)
  ELSE IF key.backend = "sqlite" THEN SQLiteSetPermission(c, p, displaceLive)
  ELSE MemorySetPermission(c, p, displaceLive)

GetPermission(c) ==
  IF key.backend = "memory" THEN GetPermissionMemory(table, c, now)
                        ELSE GetPermissionSQL(table, c, now)

-----------------------------------------------------------------------------
(* handleSetPermission: read the client's grant, build the new one, store  *)
(* it.  An answer without a write returns the request to "idle".           *)

Return(p) ==
  /\ pc' = [pc EXCEPT ![p] = "idle"]
  /\ req' = [req EXCEPT ![p] = NoRequest]
  /\ perm' = [perm EXCEPT ![p] = NoRow]

\* The amended copy of a live grant: slot, expiry and metadata stay unless
\* the request names them, and a named expiry no longer slides.
Amended(row, rq) ==
  IF rq.expires = NoExpiry
    THEN [row EXCEPT !.methods = rq.methods]
    ELSE [row EXCEPT !.methods = rq.methods, !.expires = rq.expires, !.sliding = FALSE]

SetRead(p, rq) ==
  /\ pc[p] = "idle" /\ key.exists
  /\ rq.expires # NoExpiry => rq.expires > now
  /\ req' = [req EXCEPT ![p] = rq]
  /\ IF GetPermission(rq.client) = "ok"
       THEN /\ rq.slot \in {AnySlot, table[rq.client].slot}   \* else 409
            /\ perm' = [perm EXCEPT ![p] = Amended(table[rq.client], rq)]
            /\ pc' = [pc EXCEPT ![p] = "amend"]
       ELSE /\ pc' = [pc EXCEPT ![p] = "list"]
            /\ UNCHANGED perm
  /\ UNCHANGED <<key, table, now, listed, touching>>

\* A lapsed grant (or one made since the read) keeps its slot.
SetList(p) ==
  LET rq == req[p]
      held == rq.client \in ListPermissions(table)
      slot == IF held THEN table[rq.client].slot
              ELSE IF rq.slot = AnySlot THEN SlotDefault ELSE rq.slot
  IN  /\ pc[p] = "list"
      /\ IF held /\ rq.slot \notin {AnySlot, table[rq.client].slot}
           THEN Return(p)                                       \* 409
           ELSE /\ perm' = [perm EXCEPT ![p] = Grant(slot, rq.methods, rq.expires)]
                /\ pc' = [pc EXCEPT ![p] = "store"]
                /\ UNCHANGED req
      /\ UNCHANGED <<key, table, now, listed, touching>>

\* Without replace a live grant of another client makes this a 409.
SetStore(p) ==
  /\ pc[p] \in {"store", "amend"}
  /\ table' = SetPermission(req[p].client, perm[p], req[p].replace)
  /\ Return(p)
  /\ UNCHANGED <<key, now, listed, touching>>

-----------------------------------------------------------------------------
(* Deleting grants.                                                        *)

handleDeletePermission(c) ==
  /\ key.exists
  /\ table' = DeletePermission(table, c)
  /\ UNCHANGED <<key, now, pc, req, perm, listed, touching>>

\* handleNostrConnectRevoke without an app: list, then delete one by one.
RevokeAllList(p) ==
  /\ pc[p] = "idle" /\ key.exists
  /\ listed' = [listed EXCEPT ![p] = ListPermissions(table)]
  /\ pc' = [pc EXCEPT ![p] = "revokeAll"]
  /\ UNCHANGED <<key, table, now, req, perm, touching>>

RevokeAllDelete(p, c) ==
  /\ pc[p] = "revokeAll" /\ c \in listed[p]
  /\ table' = DeletePermission(table, c)
  /\ listed' = [listed EXCEPT ![p] = @ \ {c}]
  /\ UNCHANGED <<key, now, pc, req, perm, touching>>

RevokeAllDone(p) ==
  /\ pc[p] = "revokeAll" /\ listed[p] = {}
  /\ Return(p)
  /\ UNCHANGED <<key, table, now, listed, touching>>

-----------------------------------------------------------------------------
(* handleRenewPermission: read, compute the new expiry, write it.          *)

RenewRead(p, c, extend) ==
  LET newExpiry == now + extend
  IN  /\ pc[p] = "idle" /\ key.exists
      /\ GetPermission(c) = "ok"                              \* else 409
      /\ table[c].expires # NoExpiry                          \* else 400
      /\ newExpiry > table[c].expires                         \* else "renewed": false
      /\ req' = [req EXCEPT ![p].client = c, ![p].expires = newExpiry]
      /\ pc' = [pc EXCEPT ![p] = "renew"]
      /\ UNCHANGED <<key, table, now, perm, listed, touching>>

\* One statement that tests and writes (Postgres, in memory).
RenewStore(p) ==
  /\ pc[p] = "renew" /\ key.backend # "sqlite"
  /\ table' = RenewPermission(table, req[p].client, req[p].expires, now)
  /\ Return(p)
  /\ UNCHANGED <<key, now, listed, touching>>

\* SQLite tests first ...
RenewCheck(p) ==
  /\ pc[p] = "renew" /\ key.backend = "sqlite"
  /\ IF RenewReadSQLite(table, req[p].client, now)
       THEN pc' = [pc EXCEPT ![p] = "renewWrite"] /\ UNCHANGED <<req, perm>>
       ELSE Return(p)
  /\ UNCHANGED <<key, table, now, listed, touching>>

\* ... and writes in a statement of its own.
RenewWrite(p) ==
  /\ pc[p] = "renewWrite"
  /\ table' = RenewWriteSQLite(table, req[p].client, req[p].expires)
  /\ Return(p)
  /\ UNCHANGED <<key, now, listed, touching>>

-----------------------------------------------------------------------------
(* Grants made by the connection flows; each displaces what is in its slot *)

\* A connect with a valid bunker secret: every method, default slot.
ConnectWithSecret(c) ==
  /\ key.exists
  /\ GetPermission(c) = "unauthorized"
  /\ table' = SetPermission(c, Grant(SlotDefault, Methods, NoExpiry), TRUE)
  /\ UNCHANGED <<key, now, pc, req, perm, listed, touching>>

\* nostrconnect:// sign-in (manual or from the session).
approveNostrConnect(c, ms) ==
  /\ key.exists
  /\ table' = SetPermission(c, Grant(SlotDefault, ms, NoExpiry), TRUE)
  /\ UNCHANGED <<key, now, pc, req, perm, listed, touching>>

\* A pending request approved with "remember": the expiry is not validated.
ApproveRemember(c, slot, ms, expires) ==
  /\ key.exists
  /\ table' = SetPermission(c, Grant(slot, ms, expires), TRUE)
  /\ UNCHANGED <<key, now, pc, req, perm, listed, touching>>

\* A redeemed token: methods and expiry of its (unexpired) policy.
RedeemTokenGrant(c, ms, expires) ==
  /\ key.exists
  /\ expires # NoExpiry => expires > now
  /\ table' = SetPermission(c, Grant(SlotDefault, ms, expires), TRUE)
  /\ UNCHANGED <<key, now, pc, req, perm, listed, touching>>

-----------------------------------------------------------------------------
(* Use: a request served under a grant touches it from a goroutine.        *)

ServeGranted(c) ==
  /\ GetPermission(c) = "ok"
  /\ touching' = touching \cup {c}
  /\ UNCHANGED <<key, table, now, pc, req, perm, listed>>

TouchGrant(c) ==
  /\ c \in touching
  /\ table' = UpdatePermissionLastUsed(table, c, now)
  /\ touching' = touching \ {c}
  /\ UNCHANGED <<key, now, pc, req, perm, listed>>

-----------------------------------------------------------------------------
(* The key row.                                                            *)

\* Mutant: SQLite without the cascade.
DeleteKeyNoCascade ==
  /\ key.exists
  /\ key' = [key EXCEPT !.exists = FALSE]
  /\ UNCHANGED <<table, now, pc, req, perm, listed, touching>>

\* Postgres and memory delete the grants WHERE key_id = id, but a grant's
\* key_id is the pubkey and id its 16-character prefix: no row matches.
\* SQLite's foreign key on the pubkey cascades.
DeleteKey ==
  /\ key.exists
  /\ key' = [key EXCEPT !.exists = FALSE]
  /\ table' = IF key.backend = "sqlite" THEN EmptyTable ELSE table
  /\ UNCHANGED <<now, pc, req, perm, listed, touching>>

\* The same nsec imported again; single_grant is chosen anew.
CreateKey(single) ==
  /\ ~key.exists
  /\ key' = [key EXCEPT !.exists = TRUE, !.single = single]
  /\ UNCHANGED <<table, now, pc, req, perm, listed, touching>>

Tick ==
  /\ now < MaxNow
  /\ now' = now + 1
  /\ UNCHANGED <<key, table, pc, req, perm, listed, touching>>

-----------------------------------------------------------------------------
Requests == [client : Clients, slot : Slots \cup {AnySlot}, methods : MethodSets,
             expires : NamedExpiries, replace : BOOLEAN]

SetHandler ==
  \E p \in Procs : \/ \E rq \in Requests : SetRead(p, rq)
                   \/ SetList(p)
                   \/ SetStore(p)

DeleteHandler ==
  \/ \E c \in Clients : handleDeletePermission(c)
  \/ \E p \in Procs : \/ RevokeAllList(p)
                      \/ \E c \in Clients : RevokeAllDelete(p, c)
                      \/ RevokeAllDone(p)

RenewHandler ==
  \E p \in Procs : \/ \E c \in Clients, e \in 1..MaxGrantRenewal : RenewRead(p, c, e)
                   \/ RenewStore(p)
                   \/ RenewCheck(p)
                   \/ RenewWrite(p)

ConnectionFlows ==
  \E c \in Clients :
    \/ ConnectWithSecret(c)
    \/ \E ms \in MethodSets : approveNostrConnect(c, ms)
    \/ \E s \in Slots, ms \in MethodSets, e \in NamedExpiries : ApproveRemember(c, s, ms, e)
    \/ \E ms \in MethodSets, e \in NamedExpiries : RedeemTokenGrant(c, ms, e)

SignerUse == \E c \in Clients : ServeGranted(c) \/ TouchGrant(c)

KeyLife == DeleteKey \/ \E s \in SingleFlags : CreateKey(s)

Next == SetHandler \/ DeleteHandler \/ RenewHandler \/ ConnectionFlows
          \/ SignerUse \/ KeyLife \/ Tick

Spec == Init /\ [][Next]_vars

-----------------------------------------------------------------------------
(* What the grants promise.                                                *)

LiveGrant(c) == Live(table[c], now)

\* Of the grants stored under the one-grant rule, no two unrevoked ones share
\* a slot, whatever handlers, connects, key deletions and re-imports interleave
\* (setPermission's transaction and the partial unique index).
SlotExclusive == Exclusive(table)

\* A request past its first read names a client: with TypeOK what makes
\* SlotExclusive inductive.
ClientsNamed ==
  \A p \in Procs : pc[p] \in {"list", "store", "amend", "renew", "renewWrite"}
                     => req[p].client \in Clients

IInv == TypeOK /\ ClientsNamed /\ SlotExclusive

\* A handleSetPermission that did not ask to replace never revokes another
\* client's unlapsed grant as a side effect, even when that grant was stored
\* after the handler looked.
NoSideEffectDisplacement ==
  [][\A p \in Procs : SetStore(p) /\ ~req[p].replace =>
       \A d \in Clients \ {req[p].client} :
         Granted(table[d]) /\ ~Lapsed(table[d], now) => table'[d] = table[d]]_vars

\* The steps that store a new or amended grant.
GrantWrite == (\E p \in Procs : SetStore(p)) \/ ConnectionFlows

\* Only storing a grant makes a client's dead grant live: neither a renewal
\* nor a use that was decided while the grant lived revives it afterwards.
\* Not on SQLite, whose renewal tests and writes in two statements.
NoRevival ==
  [][(\E c \in Clients : ~LiveGrant(c) /\ LiveGrant(c)') => GrantWrite \/ key.backend = "sqlite"]_vars

\* On SQLite, whose foreign key takes a deleted key's grants along, a key flagged
\* single_grant has at most one live grant in a slot, also when an earlier key
\* of the same pubkey was not flagged and however late a handler stores.
OneLiveGrantPerSlot ==
  key.exists /\ key.single /\ key.backend = "sqlite" =>
    \A c, d \in Clients : c # d /\ LiveGrant(c) /\ LiveGrant(d)
                            => table[c].slot # table[d].slot
=============================================================================
