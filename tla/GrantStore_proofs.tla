------------------------- MODULE GrantStore_proofs -------------------------
(***************************************************************************)
(* For every set of clients, slots, methods and handlers, and on each of   *)
(* the three backends: the grant table is well typed, no two unrevoked     *)
(* single-grant rows share a slot, and what is dead is not revived.        *)
(***************************************************************************)
EXTENDS GrantStore, TLAPS

USE DEF NoExpiry, Expiries

(* Lemmas about the table operators of Grants.                             *)

\* The constant rows are rows.
LEMMA RowConstants == NoRow \in Row /\ RevokedRow \in Row
BY SlotAssumption DEF NoRow, RevokedRow, Row

\* A permission built by a caller is a row.
LEMMA GrantType ==
  ASSUME NEW s \in Slots, NEW ms \in SUBSET Methods, NEW e \in Expiries
  PROVE  Grant(s, ms, e) \in Row
BY DEF Grant, Row

\* What the upsert writes: a granted row in the caller's slot, with the flag.
LEMMA StoredRowType ==
  ASSUME NEW p \in Row, NEW single \in BOOLEAN, NEW t \in Nat
  PROVE  /\ StoredRow(p, single, t) \in Row
         /\ StoredRow(p, single, t).state = "granted"
         /\ StoredRow(p, single, t).single = single
         /\ StoredRow(p, single, t).slot = p.slot
<1> DEFINE row == IF single THEN p ELSE defaultSlidingExpiry(p, t)
<1>1. row \in Row /\ row.slot = p.slot
  <2>1. CASE single
    BY <2>1
  <2>2. CASE ~single
    <3>1. row = IF p.expires = -1
                  THEN [p EXCEPT !.expires = t + SlidingGrantTTL, !.sliding = TRUE]
                  ELSE p
      BY <2>2 DEF defaultSlidingExpiry
    <3>2. t + SlidingGrantTTL \in Nat
      BY TTLAssumption
    <3> QED BY <3>1, <3>2 DEF Row
  <2> QED BY <2>1, <2>2
<1>2. StoredRow(p, single, t) = [row EXCEPT !.state = "granted", !.single = single]
  BY DEF StoredRow
<1> HIDE DEF row
<1> QED BY <1>1, <1>2 DEF Row

\* Displacing keeps a table a table.
LEMMA DisplaceType ==
  ASSUME NEW T \in [Clients -> Row], NEW V
  PROVE  Displace(T, V) \in [Clients -> Row]
BY RowConstants DEF Displace

\* The SQL transaction maps tables to tables.
LEMMA SQLType ==
  ASSUME NEW T \in [Clients -> Row], NEW c \in Clients, NEW p \in Row,
         NEW dl \in BOOLEAN, NEW single \in BOOLEAN, NEW t \in Nat
  PROVE  setPermissionSQL(T, c, p, dl, single, t) \in [Clients -> Row]
BY StoredRowType, DisplaceType DEF setPermissionSQL

\* The in-memory store maps tables to tables.
LEMMA MemoryType ==
  ASSUME NEW T \in [Clients -> Row], NEW c \in Clients, NEW p \in Row,
         NEW dl \in BOOLEAN, NEW single \in BOOLEAN, NEW t \in Nat
  PROVE  setPermissionMemory(T, c, p, dl, single, t) \in [Clients -> Row]
BY StoredRowType, DisplaceType DEF setPermissionMemory

\* A table whose rows are those of T, except that some lost their grant and
\* c got a row that shares its slot with no other single grant, is exclusive.
LEMMA ExclusiveWrite ==
  ASSUME NEW T \in [Clients -> Row], Exclusive(T),
         NEW U \in [Clients -> Row], NEW c \in Clients,
         \A d \in Clients \ {c} : U[d] = T[d] \/ ~Granted(U[d]),
         \A d \in Clients \ {c} : Granted(U[c]) /\ U[c].single /\ Granted(U[d]) /\ U[d].single
                                    => U[d].slot # U[c].slot
  PROVE  Exclusive(U)
BY DEF Exclusive

\* The SQL transaction keeps the one-grant rule, with or without displacing.
LEMMA SQLExclusive ==
  ASSUME NEW T \in [Clients -> Row], Exclusive(T), NEW c \in Clients, NEW p \in Row,
         NEW dl \in BOOLEAN, NEW single \in BOOLEAN, NEW t \in Nat
  PROVE  Exclusive(setPermissionSQL(T, c, p, dl, single, t))
<1> DEFINE row == StoredRow(p, single, t)
           V == {d \in OccupiesSlot(T, c, row.slot) : single /\ (dl \/ Lapsed(T[d], t))}
           D == Displace(T, V)
           conflict == single /\ \E d \in OccupiesSlot(D, c, row.slot) : D[d].single
           U == [D EXCEPT ![c] = row]
<1>1. setPermissionSQL(T, c, p, dl, single, t) = IF conflict THEN T ELSE U
  BY DEF setPermissionSQL
<1>2. CASE conflict
  BY <1>1, <1>2
<1>3. CASE ~conflict
  <2>1. D \in [Clients -> Row] /\ row \in Row /\ row.single = single
    BY DisplaceType, StoredRowType
  <2>2. U \in [Clients -> Row] /\ U[c] = row /\ \A d \in Clients \ {c} : U[d] = D[d]
    BY <2>1
  <2>3. \A d \in Clients \ {c} : D[d] = T[d] \/ ~Granted(D[d])
    BY DEF Displace, RevokedRow, NoRow, Granted
  <2>4. \A d \in Clients \ {c} : Granted(D[d]) /\ D[d].single /\ single => D[d].slot # row.slot
    BY <1>3 DEF OccupiesSlot
  <2> HIDE DEF D, row, U, conflict
  <2>5. Exclusive(U)
    BY <2>1, <2>2, <2>3, <2>4, ExclusiveWrite
  <2> QED BY <1>1, <1>3, <2>5
<1> QED BY <1>2, <1>3

\* The in-memory store keeps it too.
LEMMA MemoryExclusive ==
  ASSUME NEW T \in [Clients -> Row], Exclusive(T), NEW c \in Clients, NEW p \in Row,
         NEW dl \in BOOLEAN, NEW single \in BOOLEAN, NEW t \in Nat
  PROVE  Exclusive(setPermissionMemory(T, c, p, dl, single, t))
<1> DEFINE row == StoredRow(p, single, t)
           V == OccupiesSlot(T, c, row.slot)
           occupied == ~dl /\ \E d \in V : ~Lapsed(T[d], t)
           D == Displace(T, V)
<1>1. setPermissionMemory(T, c, p, dl, single, t) =
        IF ~single THEN [T EXCEPT ![c] = row]
        ELSE IF occupied THEN T ELSE [D EXCEPT ![c] = row]
  BY DEF setPermissionMemory
<1>2. D \in [Clients -> Row] /\ row \in Row /\ row.single = single
  BY DisplaceType, StoredRowType
<1>3. CASE ~single
  <2> DEFINE U == [T EXCEPT ![c] = row]
  <2>1. U \in [Clients -> Row] /\ U[c] = row /\ \A d \in Clients \ {c} : U[d] = T[d]
    BY <1>2
  <2> HIDE DEF U, row
  <2>2. Exclusive(U)
    BY <1>2, <1>3, <2>1, ExclusiveWrite
  <2> QED BY <1>1, <1>3, <2>2 DEF U
<1>4. CASE single /\ occupied
  BY <1>1, <1>4
<1>5. CASE single /\ ~occupied
  <2> DEFINE U == [D EXCEPT ![c] = row]
  <2>1. U \in [Clients -> Row] /\ U[c] = row /\ \A d \in Clients \ {c} : U[d] = D[d]
    BY <1>2
  <2>2. \A d \in Clients \ {c} : D[d] = T[d] \/ ~Granted(D[d])
    BY DEF Displace, RevokedRow, NoRow, Granted
  <2>3. \A d \in Clients \ {c} : Granted(D[d]) => D[d].slot # row.slot
    BY DEF Displace, RevokedRow, NoRow, Granted, OccupiesSlot
  <2> HIDE DEF U, row, D
  <2>4. Exclusive(U)
    BY <1>2, <2>1, <2>2, <2>3, ExclusiveWrite
  <2> QED BY <1>1, <1>5, <2>4 DEF U
<1> QED BY <1>3, <1>4, <1>5

\* On a table whose granted rows carry the key's flag, the in-memory store and
\* the SQL transaction compute the same table, for every input.
THEOREM BackendsAgreeOnEveryTable ==
  ASSUME NEW T \in [Clients -> Row], NEW c \in Clients, NEW p \in Row,
         NEW dl \in BOOLEAN, NEW single \in BOOLEAN, NEW t \in Nat,
         \A d \in Clients : Granted(T[d]) => T[d].single = single
  PROVE  setPermissionSQL(T, c, p, dl, single, t)
           = setPermissionMemory(T, c, p, dl, single, t)
<1> DEFINE row == StoredRow(p, single, t)
           O == OccupiesSlot(T, c, row.slot)
           V == {d \in O : single /\ (dl \/ Lapsed(T[d], t))}
           D == Displace(T, V)
           conflict == single /\ \E d \in OccupiesSlot(D, c, row.slot) : D[d].single
           occupied == ~dl /\ \E d \in O : ~Lapsed(T[d], t)
<1>1. setPermissionSQL(T, c, p, dl, single, t) = IF conflict THEN T ELSE [D EXCEPT ![c] = row]
  BY DEF setPermissionSQL
<1>2. setPermissionMemory(T, c, p, dl, single, t) =
        IF ~single THEN [T EXCEPT ![c] = row]
        ELSE IF occupied THEN T ELSE [Displace(T, O) EXCEPT ![c] = row]
  BY DEF setPermissionMemory
<1>3. CASE ~single
  <2>1. ~conflict /\ V = {}
    BY <1>3
  <2>2. D = T
    BY <2>1 DEF Displace
  <2> QED BY <1>1, <1>2, <1>3, <2>1, <2>2
<1>4. CASE single
  <2>1. OccupiesSlot(D, c, row.slot) = {d \in O : ~(dl \/ Lapsed(T[d], t))}
    BY <1>4 DEF OccupiesSlot, Displace, Granted, RevokedRow, NoRow
  <2>2. \A d \in OccupiesSlot(D, c, row.slot) : D[d] = T[d]
    BY DEF OccupiesSlot, Displace, Granted, RevokedRow, NoRow
  <2>3. \A d \in O : T[d].single
    BY <1>4 DEF OccupiesSlot
  <2>4. conflict <=> occupied
    BY <1>4, <2>1, <2>2, <2>3
  <2>5. ~occupied => V = O
    BY <1>4
  <2> QED BY <1>1, <1>2, <1>4, <2>4, <2>5
<1> QED BY <1>3, <1>4

\* The other writes only take a grant away or move an expiry.
LEMMA SmallWrites ==
  ASSUME NEW T \in [Clients -> Row], Exclusive(T), NEW c \in Clients,
         NEW e \in Expiries, NEW t \in Nat
  PROVE  /\ DeletePermission(T, c) \in [Clients -> Row]
         /\ Exclusive(DeletePermission(T, c))
         /\ UpdatePermissionLastUsed(T, c, t) \in [Clients -> Row]
         /\ Exclusive(UpdatePermissionLastUsed(T, c, t))
         /\ RenewPermission(T, c, e, t) \in [Clients -> Row]
         /\ Exclusive(RenewPermission(T, c, e, t))
         /\ RenewWriteSQLite(T, c, e) \in [Clients -> Row]
         /\ Exclusive(RenewWriteSQLite(T, c, e))
<1>1. ASSUME NEW x \in Expiries
      PROVE  [T EXCEPT ![c].expires = x] \in [Clients -> Row] /\ Exclusive([T EXCEPT ![c].expires = x])
  BY DEF Row, Exclusive, Granted
<1>2. DeletePermission(T, c) \in [Clients -> Row] /\ Exclusive(DeletePermission(T, c))
  BY RowConstants DEF DeletePermission, Exclusive, Granted, NoRow
<1>3. t + SlidingGrantTTL \in Expiries
  BY TTLAssumption
<1>4. /\ UpdatePermissionLastUsed(T, c, t) \in [Clients -> Row]
      /\ Exclusive(UpdatePermissionLastUsed(T, c, t))
  BY <1>1, <1>3 DEF UpdatePermissionLastUsed
<1>5. RenewPermission(T, c, e, t) \in [Clients -> Row] /\ Exclusive(RenewPermission(T, c, e, t))
  BY <1>1 DEF RenewPermission
<1>6. RenewWriteSQLite(T, c, e) \in [Clients -> Row] /\ Exclusive(RenewWriteSQLite(T, c, e))
  BY <1>1 DEF RenewWriteSQLite
<1> QED BY <1>2, <1>4, <1>5, <1>6

\* The storage interface's SetPermission, on any backend and also for a key
\* that is gone, keeps the table well typed and exclusive.
LEMMA SetPermissionKeeps ==
  ASSUME TypeOK, SlotExclusive, NEW c \in Clients, NEW p \in Row, NEW dl \in BOOLEAN
  PROVE  /\ SetPermission(c, p, dl) \in [Clients -> Row]
         /\ Exclusive(SetPermission(c, p, dl))
<1>1. /\ table \in [Clients -> Row] /\ Exclusive(table) /\ now \in Nat
      /\ key.exists \in BOOLEAN /\ key.single \in BOOLEAN
      /\ (~key.exists \/ key.single) \in BOOLEAN
  BY DEF TypeOK, SlotExclusive
<1>2. /\ PostgresSetPermission(c, p, dl) \in [Clients -> Row]
      /\ Exclusive(PostgresSetPermission(c, p, dl))
  BY <1>1, SQLType, SQLExclusive DEF PostgresSetPermission
<1>3. /\ SQLiteSetPermission(c, p, dl) \in [Clients -> Row]
      /\ Exclusive(SQLiteSetPermission(c, p, dl))
  BY <1>1, SQLType, SQLExclusive DEF SQLiteSetPermission
<1>4. /\ MemorySetPermission(c, p, dl) \in [Clients -> Row]
      /\ Exclusive(MemorySetPermission(c, p, dl))
  BY <1>1, MemoryType, MemoryExclusive DEF MemorySetPermission
<1> QED BY <1>2, <1>3, <1>4 DEF SetPermission

(* The invariant.                                                          *)

\* The initial states satisfy it.
LEMMA InitIInv == Init => IInv
<1> SUFFICES ASSUME Init PROVE IInv
  OBVIOUS
<1>1. TypeOK
  BY RowConstants, RequestAssumption
     DEF Init, TypeOK, EmptyTable, NoRequest, Request
<1>2. ClientsNamed
  BY DEF Init, ClientsNamed
<1>3. SlotExclusive
  BY DEF Init, SlotExclusive, Exclusive, EmptyTable, Granted, NoRow
<1> QED BY <1>1, <1>2, <1>3 DEF IInv

\* Returning from a handler keeps the handlers' state well typed.
LEMMA ReturnKeeps ==
  ASSUME TypeOK, ClientsNamed, NEW p \in Procs, Return(p)
  PROVE  /\ pc' \in [Procs -> {"idle", "list", "store", "amend", "renew", "renewWrite",
                                "revokeAll"}]
         /\ req' \in [Procs -> Request]
         /\ perm' \in [Procs -> Row]
         /\ ClientsNamed'
<1>1. NoRequest \in Request
  BY DEF NoRequest, Request
<1> QED BY <1>1, RowConstants DEF Return, TypeOK, ClientsNamed

\* Every step preserves it.
LEMMA NextIInv == IInv /\ [Next]_vars => IInv'
<1> SUFFICES ASSUME IInv, [Next]_vars PROVE IInv'
  OBVIOUS
<1> USE DEF IInv
<1>a. /\ table \in [Clients -> Row] /\ Exclusive(table) /\ now \in Nat
      /\ req \in [Procs -> Request] /\ perm \in [Procs -> Row]
  BY DEF TypeOK, SlotExclusive
<1>1. ASSUME NEW p \in Procs, NEW rq \in Requests, SetRead(p, rq) PROVE IInv'
  <2>1. rq \in Request /\ rq.client \in Clients /\ rq.methods \in SUBSET Methods
        /\ rq.expires \in Expiries
    BY RequestAssumption DEF Requests, Request
  <2>2. Amended(table[rq.client], rq) \in Row
    BY <1>a, <2>1 DEF Amended, Row
  <2>3. TypeOK'
    BY <1>1, <2>1, <2>2 DEF SetRead, TypeOK
  <2>4. ClientsNamed'
    BY <1>1, <2>1 DEF SetRead, ClientsNamed, TypeOK
  <2>5. SlotExclusive'
    BY <1>1 DEF SetRead, SlotExclusive
  <2> QED BY <2>3, <2>4, <2>5
<1>2. ASSUME NEW p \in Procs, SetList(p) PROVE IInv'
  <2> DEFINE rq == req[p]
             held == rq.client \in ListPermissions(table)
             slot == IF held THEN table[rq.client].slot
                     ELSE IF rq.slot = AnySlot THEN SlotDefault ELSE rq.slot
  <2>1. rq \in Request /\ rq.client \in Clients
    BY <1>a, <1>2 DEF SetList, ClientsNamed
  <2>2. slot \in Slots
    BY <1>a, <2>1, SlotAssumption DEF Request, Row
  <2>3. Grant(slot, rq.methods, rq.expires) \in Row
    BY <2>1, <2>2, GrantType DEF Request
  <2>4. UNCHANGED <<key, table, now, listed, touching>>
    BY <1>2 DEF SetList
  <2>5. SlotExclusive'
    BY <2>4 DEF SlotExclusive
  <2>6. CASE Return(p)
    BY <2>4, <2>5, <2>6, ReturnKeeps DEF TypeOK
  <2>7. CASE /\ perm' = [perm EXCEPT ![p] = Grant(slot, rq.methods, rq.expires)]
             /\ pc' = [pc EXCEPT ![p] = "store"]
             /\ UNCHANGED req
    BY <2>1, <2>3, <2>4, <2>5, <2>7 DEF TypeOK, ClientsNamed
  <2> QED BY <1>2, <2>6, <2>7 DEF SetList
<1>3. ASSUME NEW p \in Procs, SetStore(p) PROVE IInv'
  <2>1. req[p].client \in Clients /\ perm[p] \in Row /\ req[p].replace \in BOOLEAN
    BY <1>a, <1>3 DEF SetStore, ClientsNamed, Request
  <2>2. table' \in [Clients -> Row] /\ SlotExclusive'
    BY <1>3, <2>1, SetPermissionKeeps DEF SetStore, SlotExclusive
  <2> QED BY <1>3, <2>2, ReturnKeeps DEF SetStore, TypeOK
<1>4. ASSUME NEW c \in Clients, handleDeletePermission(c) PROVE IInv'
  <2>1. table' \in [Clients -> Row] /\ SlotExclusive'
    BY <1>a, <1>4, SmallWrites DEF handleDeletePermission, SlotExclusive
  <2> QED BY <1>4, <2>1 DEF handleDeletePermission, TypeOK, ClientsNamed
<1>5. ASSUME NEW p \in Procs, RevokeAllList(p) PROVE IInv'
  BY <1>5 DEF RevokeAllList, ListPermissions, TypeOK, ClientsNamed, SlotExclusive
<1>6. ASSUME NEW p \in Procs, NEW c \in Clients, RevokeAllDelete(p, c) PROVE IInv'
  <2>1. table' \in [Clients -> Row] /\ SlotExclusive'
    BY <1>a, <1>6, SmallWrites DEF RevokeAllDelete, SlotExclusive
  <2> QED BY <1>6, <2>1 DEF RevokeAllDelete, TypeOK, ClientsNamed
<1>7. ASSUME NEW p \in Procs, RevokeAllDone(p) PROVE IInv'
  BY <1>7, ReturnKeeps DEF RevokeAllDone, TypeOK, SlotExclusive
<1>8. ASSUME NEW p \in Procs, NEW c \in Clients, NEW e \in 1..MaxGrantRenewal,
             RenewRead(p, c, e) PROVE IInv'
  <2>1. now + e \in Nat
    BY <1>a, RequestAssumption
  <2>2. UNCHANGED <<key, table, now, perm, listed, touching>>
    BY <1>8 DEF RenewRead
  <2>3. /\ req' = [req EXCEPT ![p].client = c, ![p].expires = now + e]
        /\ pc' = [pc EXCEPT ![p] = "renew"]
    BY <1>8 DEF RenewRead
  <2>4. req' \in [Procs -> Request] /\ req'[p].client = c /\ \A q \in Procs \ {p} : req'[q] = req[q]
    BY <1>a, <2>1, <2>3 DEF Request
  <2>5. TypeOK'
    BY <2>2, <2>3, <2>4 DEF TypeOK
  <2>6. ClientsNamed'
    BY <2>3, <2>4 DEF ClientsNamed, TypeOK
  <2> QED BY <2>2, <2>5, <2>6 DEF SlotExclusive
<1>9. ASSUME NEW p \in Procs, RenewStore(p) PROVE IInv'
  <2>1. req[p].client \in Clients /\ req[p].expires \in Expiries
    BY <1>a, <1>9 DEF RenewStore, ClientsNamed, Request
  <2>2. table' \in [Clients -> Row] /\ SlotExclusive'
    BY <1>a, <1>9, <2>1, SmallWrites DEF RenewStore, SlotExclusive
  <2> QED BY <1>9, <2>2, ReturnKeeps DEF RenewStore, TypeOK
<1>10. ASSUME NEW p \in Procs, RenewCheck(p) PROVE IInv'
  <2>1. SlotExclusive' /\ UNCHANGED <<key, table, now, listed, touching>>
    BY <1>10 DEF RenewCheck, SlotExclusive
  <2>2. CASE Return(p)
    BY <2>1, <2>2, ReturnKeeps DEF TypeOK
  <2>3. CASE pc' = [pc EXCEPT ![p] = "renewWrite"] /\ UNCHANGED <<req, perm>>
    BY <1>10, <2>1, <2>3 DEF RenewCheck, TypeOK, ClientsNamed
  <2> QED BY <1>10, <2>2, <2>3 DEF RenewCheck
<1>11. ASSUME NEW p \in Procs, RenewWrite(p) PROVE IInv'
  <2>1. req[p].client \in Clients /\ req[p].expires \in Expiries
    BY <1>a, <1>11 DEF RenewWrite, ClientsNamed, Request
  <2>2. table' \in [Clients -> Row] /\ SlotExclusive'
    BY <1>a, <1>11, <2>1, SmallWrites DEF RenewWrite, SlotExclusive
  <2> QED BY <1>11, <2>2, ReturnKeeps DEF RenewWrite, TypeOK
<1>12. ASSUME NEW c \in Clients, NEW s \in Slots, NEW ms \in SUBSET Methods, NEW e \in Expiries,
              table' = SetPermission(c, Grant(s, ms, e), TRUE),
              UNCHANGED <<key, now, pc, req, perm, listed, touching>>
       PROVE  IInv'
  <2>1. table' \in [Clients -> Row] /\ SlotExclusive'
    BY <1>12, GrantType, SetPermissionKeeps DEF SlotExclusive
  <2> QED BY <1>12, <2>1 DEF TypeOK, ClientsNamed
<1>13. ASSUME NEW c \in Clients, ConnectWithSecret(c) PROVE IInv'
  BY <1>12, <1>13, SlotAssumption DEF ConnectWithSecret
<1>14. ASSUME NEW c \in Clients, NEW ms \in MethodSets, approveNostrConnect(c, ms) PROVE IInv'
  BY <1>12, <1>14, SlotAssumption, RequestAssumption DEF approveNostrConnect
<1>15. ASSUME NEW c \in Clients, NEW s \in Slots, NEW ms \in MethodSets, NEW e \in NamedExpiries,
              ApproveRemember(c, s, ms, e) PROVE IInv'
  BY <1>12, <1>15, RequestAssumption DEF ApproveRemember
<1>16. ASSUME NEW c \in Clients, NEW ms \in MethodSets, NEW e \in NamedExpiries,
              RedeemTokenGrant(c, ms, e) PROVE IInv'
  BY <1>12, <1>16, SlotAssumption, RequestAssumption DEF RedeemTokenGrant
<1>17. ASSUME NEW c \in Clients, ServeGranted(c) PROVE IInv'
  BY <1>17 DEF ServeGranted, TypeOK, ClientsNamed, SlotExclusive
<1>18. ASSUME NEW c \in Clients, TouchGrant(c) PROVE IInv'
  <2>1. table' \in [Clients -> Row] /\ SlotExclusive'
    BY <1>a, <1>18, SmallWrites DEF TouchGrant, SlotExclusive
  <2> QED BY <1>18, <2>1 DEF TouchGrant, TypeOK, ClientsNamed
<1>19. CASE DeleteKey
  <2>1. EmptyTable \in [Clients -> Row] /\ Exclusive(EmptyTable)
    BY RowConstants DEF EmptyTable, Exclusive, Granted, NoRow
  <2>2. table' \in [Clients -> Row] /\ SlotExclusive'
    BY <1>a, <1>19, <2>1 DEF DeleteKey, SlotExclusive
  <2> QED BY <1>19, <2>2 DEF DeleteKey, TypeOK, ClientsNamed
<1>20. ASSUME NEW s \in SingleFlags, CreateKey(s) PROVE IInv'
  BY <1>20, RequestAssumption DEF CreateKey, TypeOK, ClientsNamed, SlotExclusive
<1>21. CASE Tick
  BY <1>21 DEF Tick, TypeOK, ClientsNamed, SlotExclusive
<1>22. CASE UNCHANGED vars
  BY <1>22 DEF vars, TypeOK, ClientsNamed, SlotExclusive
<1>23. CASE SetHandler
  BY <1>1, <1>2, <1>3, <1>23 DEF SetHandler
<1>24. CASE DeleteHandler
  BY <1>4, <1>5, <1>6, <1>7, <1>24 DEF DeleteHandler
<1>25. CASE RenewHandler
  BY <1>8, <1>9, <1>10, <1>11, <1>25 DEF RenewHandler
<1>26. CASE ConnectionFlows
  BY <1>13, <1>14, <1>15, <1>16, <1>26 DEF ConnectionFlows
<1>27. CASE SignerUse
  BY <1>17, <1>18, <1>27 DEF SignerUse
<1>28. CASE KeyLife
  BY <1>19, <1>20, <1>28 DEF KeyLife
<1> QED BY <1>21, <1>22, <1>23, <1>24, <1>25, <1>26, <1>27, <1>28 DEF Next

\* The grant table, the key row and every handler in flight stay well typed,
\* on every backend and for any number of clients, slots and handlers.
THEOREM GrantTypes == Spec => []TypeOK
<1>1. IInv => TypeOK
  BY DEF IInv
<1> QED BY <1>1, InitIInv, NextIInv, PTL DEF Spec

\* The one-grant rule of single-grant keys: no interleaving of handlers,
\* connects, renewals, key deletions and re-imports leaves two unrevoked
\* single-grant rows in one slot.
THEOREM GrantSlotExclusive == Spec => []SlotExclusive
<1>1. IInv => SlotExclusive
  BY DEF IInv
<1> QED BY <1>1, InitIInv, NextIInv, PTL DEF Spec

\* Without displaceLive no backend touches another client's unlapsed grant.
LEMMA UnlapsedKept ==
  ASSUME TypeOK, NEW c \in Clients, NEW p \in Row, NEW d \in Clients \ {c},
         Granted(table[d]), ~Lapsed(table[d], now)
  PROVE  SetPermission(c, p, FALSE)[d] = table[d]
<1>1. ASSUME NEW single \in BOOLEAN
      PROVE  /\ setPermissionSQL(table, c, p, FALSE, single, now)[d] = table[d]
             /\ setPermissionMemory(table, c, p, FALSE, single, now)[d] = table[d]
  <2> DEFINE row == StoredRow(p, single, now)
             O == OccupiesSlot(table, c, row.slot)
             V == {x \in O : single /\ (FALSE \/ Lapsed(table[x], now))}
  <2>1. table \in [Clients -> Row]
    BY DEF TypeOK
  <2>2. Displace(table, V)[d] = table[d]
    BY DEF Displace
  <2>3. d \notin O => Displace(table, O)[d] = table[d]
    BY DEF Displace
  <2>4. \A W : Displace(table, W) \in [Clients -> Row]
    BY <2>1, DisplaceType
  <2>5. setPermissionSQL(table, c, p, FALSE, single, now)[d] = table[d]
    BY <2>1, <2>2, <2>4 DEF setPermissionSQL
  <2>6. setPermissionMemory(table, c, p, FALSE, single, now)[d] = table[d]
    BY <2>1, <2>3, <2>4 DEF setPermissionMemory
  <2> QED BY <2>5, <2>6
<1>2. key.single \in BOOLEAN /\ (~key.exists \/ key.single) \in BOOLEAN
  BY DEF TypeOK
<1> QED BY <1>1, <1>2
       DEF SetPermission, PostgresSetPermission, SQLiteSetPermission, MemorySetPermission

\* A handleSetPermission that did not ask to replace never revokes or rewrites
\* another client's unlapsed grant, whatever happened since it read the table.
THEOREM GrantNoSideEffect == Spec => NoSideEffectDisplacement
<1> DEFINE A == \A p \in Procs : SetStore(p) /\ ~req[p].replace =>
                  \A d \in Clients \ {req[p].client} :
                    Granted(table[d]) /\ ~Lapsed(table[d], now) => table'[d] = table[d]
<1>1. IInv /\ [Next]_vars => [A]_vars
  <2> SUFFICES ASSUME IInv, NEW p \in Procs, SetStore(p), ~req[p].replace,
                      NEW d \in Clients \ {req[p].client},
                      Granted(table[d]), ~Lapsed(table[d], now)
               PROVE  table'[d] = table[d]
    OBVIOUS
  <2>1. TypeOK /\ req[p].client \in Clients /\ perm[p] \in Row /\ req[p].replace = FALSE
    BY DEF IInv, TypeOK, ClientsNamed, SetStore, Request
  <2>2. table' = SetPermission(req[p].client, perm[p], FALSE)
    BY <2>1 DEF SetStore
  <2>3. SetPermission(req[p].client, perm[p], FALSE)[d] = table[d]
    BY <2>1, UnlapsedKept
  <2> QED BY <2>2, <2>3
<1> QED BY <1>1, InitIInv, NextIInv, PTL DEF Spec, NoSideEffectDisplacement

(* What a step does to the rows.                                           *)

\* On SQLite a deleted key takes its grants along, so every grant that is
\* there has the flag of the key that is there.
FlagInv ==
  key.backend = "sqlite" =>
    \A c \in Clients : Granted(table[c]) => key.exists /\ table[c].single = key.single

\* A row that kept its state and flag, or was stored for the key, or is gone.
Flagged(row, old) ==
  Granted(row) => \/ Granted(old) /\ row.single = old.single
                  \/ key.exists /\ row.single = key.single

\* SQLite's SetPermission stores rows with the key's flag and only while the
\* key is there.
LEMMA StoredFlag ==
  ASSUME TypeOK, key.backend = "sqlite", NEW c \in Clients, NEW p \in Row, NEW dl \in BOOLEAN,
         NEW d \in Clients
  PROVE  Flagged(SetPermission(c, p, dl)[d], table[d])
<1>1. /\ table \in [Clients -> Row] /\ now \in Nat /\ key.single \in BOOLEAN
  BY DEF TypeOK
<1>2. CASE ~key.exists
  BY <1>2 DEF SetPermission, SQLiteSetPermission, Flagged
<1>3. CASE key.exists
  <2> DEFINE row == StoredRow(p, key.single, now)
             V == {x \in OccupiesSlot(table, c, row.slot) : key.single /\ (dl \/ Lapsed(table[x], now))}
             D == Displace(table, V)
  <2>1. SetPermission(c, p, dl) = setPermissionSQL(table, c, p, dl, key.single, now)
    BY <1>3 DEF SetPermission, SQLiteSetPermission
  <2>2. setPermissionSQL(table, c, p, dl, key.single, now) \in {table, [D EXCEPT ![c] = row]}
    BY DEF setPermissionSQL
  <2>3. D \in [Clients -> Row] /\ row.single = key.single
    BY <1>1, DisplaceType, StoredRowType
  <2>4. D[d] = table[d] \/ ~Granted(D[d])
    BY DEF Displace, RevokedRow, Granted
  <2> HIDE DEF D, row
  <2> QED BY <1>3, <2>1, <2>2, <2>3, <2>4 DEF Flagged
<1> QED BY <1>2, <1>3

\* Nothing but SetPermission grants what was not granted or changes a flag.
LEMMA OtherFlags ==
  ASSUME TypeOK, NEW c \in Clients, NEW e \in Expiries, NEW d \in Clients,
         NEW U \in {DeletePermission(table, c), UpdatePermissionLastUsed(table, c, now),
                    RenewPermission(table, c, e, now), RenewWriteSQLite(table, c, e)}
  PROVE  Flagged(U[d], table[d])
<1>1. table \in [Clients -> Row] /\ now \in Nat /\ now + SlidingGrantTTL \in Expiries
  BY TTLAssumption DEF TypeOK
<1>2. ASSUME NEW x \in Expiries
      PROVE  Flagged([table EXCEPT ![c].expires = x][d], table[d])
  BY <1>1 DEF Flagged, Granted, Row
<1>3. CASE U = DeletePermission(table, c)
  BY <1>1, <1>3 DEF DeletePermission, Flagged, Granted, NoRow
<1>4. CASE U = UpdatePermissionLastUsed(table, c, now)
  BY <1>1, <1>2, <1>4 DEF UpdatePermissionLastUsed, Flagged
<1>5. CASE U = RenewPermission(table, c, e, now)
  BY <1>2, <1>5 DEF RenewPermission, Flagged
<1>6. CASE U = RenewWriteSQLite(table, c, e)
  BY <1>2, <1>6 DEF RenewWriteSQLite, Flagged
<1> QED BY <1>3, <1>4, <1>5, <1>6

\* A deletion, a use and a renewal in one statement let no dead grant live.
LEMMA LivesOn ==
  ASSUME TypeOK, NEW c \in Clients, NEW e \in Expiries, NEW d \in Clients,
         NEW U \in {DeletePermission(table, c), UpdatePermissionLastUsed(table, c, now),
                    RenewPermission(table, c, e, now)},
         Live(U[d], now)
  PROVE  Live(table[d], now)
<1>1. table \in [Clients -> Row] /\ now \in Nat /\ now + SlidingGrantTTL \in Expiries
      /\ table[d] \in Row /\ table[c] \in Row
  BY TTLAssumption DEF TypeOK
<1>2. CASE U = DeletePermission(table, c)
  BY <1>1, <1>2 DEF DeletePermission, Live, Granted, NoRow
<1>3. CASE U = UpdatePermissionLastUsed(table, c, now)
  BY <1>1, <1>3 DEF UpdatePermissionLastUsed, slideDue, Live, Granted, Row
<1>4. CASE U = RenewPermission(table, c, e, now)
  BY <1>1, <1>4 DEF RenewPermission, Live, Granted, Row
<1> QED BY <1>2, <1>3, <1>4

\* The steps that write single rows of the table, and those that leave it.
LEMMA OtherSteps ==
  ASSUME IInv, [Next]_vars, ~GrantWrite, ~DeleteKey
  PROVE  \/ table' = table /\ now' \in {now, now + 1}
         \/ /\ UNCHANGED <<key, now>>
            /\ \E c \in Clients, e \in Expiries :
                 \/ table' \in {DeletePermission(table, c), UpdatePermissionLastUsed(table, c, now),
                                RenewPermission(table, c, e, now)}
                 \/ table' = RenewWriteSQLite(table, c, e) /\ \E p \in Procs : RenewWrite(p)
<1>1. ASSUME NEW p \in Procs, RenewStore(p) \/ RenewWrite(p)
      PROVE  req[p].client \in Clients /\ req[p].expires \in Expiries
  BY <1>1 DEF IInv, TypeOK, ClientsNamed, Request, RenewStore, RenewWrite
<1>2. NoExpiry \in Expiries
  OBVIOUS
<1>3. CASE SetHandler
  BY <1>3 DEF SetHandler, GrantWrite, SetRead, SetList
<1>4. CASE DeleteHandler
  BY <1>2, <1>4 DEF DeleteHandler, handleDeletePermission, RevokeAllList, RevokeAllDelete, RevokeAllDone
<1>5. CASE RenewHandler
  BY <1>1, <1>5 DEF RenewHandler, RenewRead, RenewStore, RenewCheck, RenewWrite
<1>6. CASE SignerUse
  BY <1>2, <1>6 DEF SignerUse, ServeGranted, TouchGrant
<1>7. CASE KeyLife \/ Tick \/ UNCHANGED vars
  BY <1>7 DEF KeyLife, CreateKey, Tick, vars
<1> QED BY <1>3, <1>4, <1>5, <1>6, <1>7 DEF Next, GrantWrite

\* A step that stores a grant is one SetPermission.
LEMMA GrantWriteStep ==
  ASSUME IInv, GrantWrite
  PROVE  /\ UNCHANGED <<key, now>>
         /\ \E c \in Clients, p \in Row, dl \in BOOLEAN : table' = SetPermission(c, p, dl)
<1>1. ASSUME NEW p \in Procs, SetStore(p)
      PROVE  req[p].client \in Clients /\ perm[p] \in Row /\ req[p].replace \in BOOLEAN
  BY <1>1 DEF IInv, TypeOK, ClientsNamed, Request, SetStore
<1>2. CASE \E p \in Procs : SetStore(p)
  BY <1>1, <1>2 DEF SetStore
<1>3. CASE ConnectionFlows
  <2>1. PICK c \in Clients :
          \/ ConnectWithSecret(c)
          \/ \E ms \in MethodSets : approveNostrConnect(c, ms)
          \/ \E s \in Slots, ms \in MethodSets, e \in NamedExpiries : ApproveRemember(c, s, ms, e)
          \/ \E ms \in MethodSets, e \in NamedExpiries : RedeemTokenGrant(c, ms, e)
    BY <1>3 DEF ConnectionFlows
  <2>2. \A s \in Slots, ms \in SUBSET Methods, e \in Expiries : Grant(s, ms, e) \in Row
    BY GrantType
  <2>3. MethodSets \subseteq SUBSET Methods /\ NamedExpiries \subseteq Expiries
        /\ Methods \in SUBSET Methods /\ NoExpiry \in Expiries
    BY RequestAssumption
  <2>4. CASE ConnectWithSecret(c)
    BY <2>2, <2>3, <2>4, SlotAssumption DEF ConnectWithSecret
  <2>5. CASE \E ms \in MethodSets : approveNostrConnect(c, ms)
    BY <2>2, <2>3, <2>5, SlotAssumption DEF approveNostrConnect
  <2>6. CASE \E s \in Slots, ms \in MethodSets, e \in NamedExpiries : ApproveRemember(c, s, ms, e)
    BY <2>2, <2>3, <2>6 DEF ApproveRemember
  <2>7. CASE \E ms \in MethodSets, e \in NamedExpiries : RedeemTokenGrant(c, ms, e)
    BY <2>2, <2>3, <2>7, SlotAssumption DEF RedeemTokenGrant
  <2> QED BY <2>1, <2>4, <2>5, <2>6, <2>7
<1> QED BY <1>2, <1>3 DEF GrantWrite

\* Only SQLite's renewal has a write of its own.
RenewsApart == \A p \in Procs : pc[p] = "renewWrite" => key.backend = "sqlite"

\* The backend never changes, and only RenewCheck leads to RenewWrite.
LEMMA BackendStays ==
  ASSUME IInv, [Next]_vars
  PROVE  key'.backend = key.backend /\ (RenewsApart => RenewsApart')
<1>1. key \in [exists : BOOLEAN, single : BOOLEAN, backend : Backends]
      /\ pc = [p \in Procs |-> pc[p]]
  BY DEF IInv, TypeOK
<1>2. CASE GrantWrite
  <2>1. key' = key
    BY <1>2, GrantWriteStep
  <2>2. pc' = pc \/ \E p \in Procs : pc' = [pc EXCEPT ![p] = "idle"]
    BY <1>2
       DEF GrantWrite, SetStore, Return, ConnectionFlows, ConnectWithSecret, approveNostrConnect,
           ApproveRemember, RedeemTokenGrant
  <2> QED BY <1>1, <2>1, <2>2 DEF RenewsApart
<1>3. ASSUME UNCHANGED key,
             \/ pc' = pc
             \/ \E p \in Procs, at \in {"idle", "list", "store", "amend", "renew", "revokeAll"} :
                  pc' = [pc EXCEPT ![p] = at]
             \/ \E p \in Procs : RenewCheck(p)
      PROVE  key'.backend = key.backend /\ (RenewsApart => RenewsApart')
  BY <1>1, <1>3 DEF RenewsApart, RenewCheck, Return
<1>4. ASSUME NEW p \in Procs, NEW rq \in Requests, SetRead(p, rq)
      PROVE  key'.backend = key.backend /\ (RenewsApart => RenewsApart')
  BY <1>3, <1>4 DEF SetRead
<1>5. ASSUME NEW p \in Procs, SetList(p)
      PROVE  key'.backend = key.backend /\ (RenewsApart => RenewsApart')
  BY <1>3, <1>5 DEF SetList, Return
<1>6. CASE DeleteHandler
  BY <1>3, <1>6
     DEF DeleteHandler, handleDeletePermission, RevokeAllList, RevokeAllDelete, RevokeAllDone, Return
<1>7. CASE RenewHandler
  BY <1>3, <1>7 DEF RenewHandler, RenewRead, RenewStore, RenewCheck, RenewWrite, Return
<1>8. CASE SignerUse \/ Tick \/ UNCHANGED vars
  BY <1>3, <1>8 DEF SignerUse, ServeGranted, TouchGrant, Tick, vars
<1>9. CASE KeyLife
  BY <1>1, <1>9 DEF KeyLife, DeleteKey, CreateKey, RenewsApart
<1> QED BY <1>2, <1>4, <1>5, <1>6, <1>7, <1>8, <1>9 DEF Next, SetHandler, GrantWrite

\* Every step keeps the grants' flags.
LEMMA NextFlagInv == IInv /\ FlagInv /\ [Next]_vars => FlagInv'
<1> SUFFICES ASSUME IInv, FlagInv, [Next]_vars, key'.backend = "sqlite", NEW d \in Clients, Granted(table'[d])
             PROVE  key'.exists /\ table'[d].single = key'.single
  BY DEF FlagInv, Granted
<1>1. TypeOK
  BY DEF IInv
<1>2. key'.backend = key.backend
  BY BackendStays
<1>3. ASSUME UNCHANGED key, Flagged(table'[d], table[d])
      PROVE  key'.exists /\ table'[d].single = key'.single
  BY <1>2, <1>3 DEF Flagged, FlagInv
<1>4. CASE GrantWrite
  BY <1>1, <1>2, <1>3, <1>4, GrantWriteStep, StoredFlag
<1>5. CASE DeleteKey
  BY <1>2, <1>5 DEF DeleteKey, EmptyTable, Granted, NoRow
<1>6. CASE ~GrantWrite /\ ~DeleteKey /\ table' = table
  <2>1. key.exists /\ table'[d].single = key.single
    BY <1>2, <1>6 DEF FlagInv
  <2>2. UNCHANGED key
    BY <1>6, <2>1
       DEF Next, vars, GrantWrite, SetHandler, DeleteHandler, RenewHandler, SignerUse, KeyLife, SetRead, SetList,
           handleDeletePermission, RevokeAllList, RevokeAllDelete, RevokeAllDone, RenewRead,
           RenewStore, RenewCheck, RenewWrite, ServeGranted, TouchGrant, CreateKey, Tick
  <2> QED BY <2>1, <2>2
<1>7. CASE ~GrantWrite /\ ~DeleteKey /\ table' # table
  BY <1>1, <1>3, <1>7, OtherSteps, OtherFlags
<1> QED BY <1>4, <1>5, <1>6, <1>7

\* On SQLite a key flagged single_grant has at most one live grant in a slot,
\* however deletions, imports with another flag and late handlers interleave.
THEOREM GrantOneLivePerSlot == Spec => []OneLiveGrantPerSlot
<1>1. Init => FlagInv
  BY DEF Init, FlagInv, EmptyTable, NoRow, Granted
<1>2. IInv /\ FlagInv => OneLiveGrantPerSlot
  BY DEF IInv, FlagInv, SlotExclusive, Exclusive, OneLiveGrantPerSlot, LiveGrant, Live
<1> QED BY <1>1, <1>2, InitIInv, NextIInv, NextFlagInv, PTL DEF Spec

\* On Postgres and in memory what was revoked, displaced or has lapsed lives
\* again only when a grant is stored.
THEOREM GrantNoRevival == Spec => NoRevival
<1> DEFINE Revival == (\E c \in Clients : ~LiveGrant(c) /\ LiveGrant(c)') => GrantWrite \/ key.backend = "sqlite"
<1>1. IInv /\ RenewsApart /\ [Next]_vars => [Revival]_vars
  <2> SUFFICES ASSUME IInv, RenewsApart, [Next]_vars, key.backend # "sqlite", ~GrantWrite,
                      NEW c \in Clients, LiveGrant(c)'
               PROVE  LiveGrant(c)
    OBVIOUS
  <2>1. TypeOK /\ now \in Nat /\ table[c] \in Row
    BY DEF IInv, TypeOK
  <2>2. ~\E p \in Procs : RenewWrite(p)
    BY DEF RenewsApart, RenewWrite
  <2>3. CASE table' = table /\ now' \in {now, now + 1}
    BY <2>1, <2>3 DEF LiveGrant, Live, Granted, Row
  <2>4. CASE DeleteKey
    BY <2>1, <2>3, <2>4 DEF DeleteKey
  <2>5. ASSUME NEW x \in Clients, NEW e \in Expiries, now' = now,
               NEW U \in {DeletePermission(table, x), UpdatePermissionLastUsed(table, x, now),
                          RenewPermission(table, x, e, now)},
               table' = U
        PROVE  LiveGrant(c)
    BY <2>1, <2>5, LivesOn DEF LiveGrant
  <2> QED BY <2>2, <2>3, <2>4, <2>5, OtherSteps
<1>2. Init => RenewsApart
  BY DEF Init, RenewsApart
<1>3. IInv /\ RenewsApart /\ [Next]_vars => RenewsApart'
  BY BackendStays
<1> QED BY <1>1, <1>2, <1>3, InitIInv, NextIInv, PTL DEF Spec, NoRevival
=============================================================================
