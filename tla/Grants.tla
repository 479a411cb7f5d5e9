------------------------------- MODULE Grants -------------------------------
(***************************************************************************)
(* The grant table of ONE signing key, as the three storage backends keep  *)
(* it: rows of signer_permissions keyed by client pubkey.  Every operator  *)
(* is a pure function from a table to a result, so the state machines that *)
(* use it decide where one storage call ends and the next one begins.      *)
(*                                                                         *)
(* A table is a total function on Clients; a client without a row has the  *)
(* row NoRow.  Labels, timestamps and the displacer's name (revoked_by)    *)
(* are left out: no decision reads them.                                   *)
(***************************************************************************)
EXTENDS Integers

CONSTANTS
  Clients,          \* client pubkeys
  Slots,            \* grant slots of a key ("default", "publisher")
  SlotDefault,      \* the slot an unslotted grant goes to
  Methods,          \* NIP-46 methods
  SlidingGrantTTL,  \* clock ticks a sliding grant lives after its last use
  SlidingGrantRefreshEvery  \* how far below a full TTL before a use slides it

ASSUME SlotAssumption == SlotDefault \in Slots
ASSUME TTLAssumption ==
  /\ SlidingGrantTTL \in Nat
  /\ SlidingGrantRefreshEvery \in Nat
  /\ SlidingGrantRefreshEvery < SlidingGrantTTL

\* ExpiresAt == nil
NoExpiry == -1

\* "none": no row; "granted": revoked_at IS NULL; "revoked": displaced.
\* single is the row's copy of the key's single_grant flag.
Row == [state : {"none", "granted", "revoked"}, slot : Slots,
        methods : SUBSET Methods, expires : Nat \cup {NoExpiry},
        sliding : BOOLEAN, single : BOOLEAN]

NoRow == [state |-> "none", slot |-> SlotDefault, methods |-> {},
          expires |-> NoExpiry, sliding |-> FALSE, single |-> FALSE]

\* A permission as a caller builds it, before the store fills in the rest.
Grant(slot, methods, expires) ==
  [state |-> "granted", slot |-> slot, methods |-> methods,
   expires |-> expires, sliding |-> FALSE, single |-> FALSE]

EmptyTable == [c \in Clients |-> NoRow]

Granted(row) == row.state = "granted"

\* The test of every reader: expired only once the clock is PAST expires_at.
Live(row, now) ==
  /\ Granted(row)
  /\ row.expires = NoExpiry \/ now <= row.expires

\* The test of the writer: expires_at <= NOW().
Lapsed(row, now) == row.expires # NoExpiry /\ row.expires <= now

\* No two unrevoked single-grant rows share a slot.
Exclusive(T) ==
  \A c, d \in Clients :
    /\ c # d
    /\ Granted(T[c]) /\ T[c].single
    /\ Granted(T[d]) /\ T[d].single
    => T[c].slot # T[d].slot

(***************************************************************************)
(* Reads.                                                                  *)
(***************************************************************************)

\* A displaced row is no row to the SQL backends ...
GetPermissionSQL(T, c, now) ==
  IF ~Granted(T[c]) THEN "unauthorized"
  ELSE IF Live(T[c], now) THEN "ok" ELSE "expired"

\* ... and an expired one to the in-memory backend.
GetPermissionMemory(T, c, now) ==
  IF T[c].state = "none" THEN "unauthorized"
  ELSE IF Live(T[c], now) THEN "ok" ELSE "expired"

\* Lapsed grants are listed; displaced ones are not.
ListPermissions(T) == {c \in Clients : Granted(T[c])}

(***************************************************************************)
(* Writes.                                                                 *)
(***************************************************************************)

\* A user-key grant stored with no expiry gets a sliding one.
defaultSlidingExpiry(row, now) ==
  IF row.expires = NoExpiry
    THEN [row EXCEPT !.expires = now + SlidingGrantTTL, !.sliding = TRUE]
    ELSE row

\* The row the upsert writes, given the key's flag.
StoredRow(perm, single, now) ==
  LET row == IF single THEN perm ELSE defaultSlidingExpiry(perm, now)
  IN  [row EXCEPT !.state = "granted", !.single = single]

\* Rows of other clients that occupy the slot.
OccupiesSlot(T, c, slot) ==
  {d \in Clients \ {c} : Granted(T[d]) /\ T[d].slot = slot}

\* A displaced row stays for the audit trail; nothing reads its fields again.
RevokedRow == [NoRow EXCEPT !.state = "revoked"]

Displace(T, victims) ==
  [d \in Clients |-> IF d \in victims THEN RevokedRow ELSE T[d]]

\* Mutant: no unique index behind the insert.
setPermissionNoIndex(T, c, perm, displaceLive, single, now) ==
  LET row == StoredRow(perm, single, now)
      victims == {d \in OccupiesSlot(T, c, row.slot) :
                    single /\ (displaceLive \/ Lapsed(T[d], now))}
  IN  [Displace(T, victims) EXCEPT ![c] = row]

\* Mutant: the UPDATE forgets the displaceLive parameter.
setPermissionAlwaysDisplaces(T, c, perm, displaceLive, single, now) ==
  LET row == StoredRow(perm, single, now)
      victims == {d \in OccupiesSlot(T, c, row.slot) : single}
  IN  [Displace(T, victims) EXCEPT ![c] = row]

\* The UPDATE that displaces and the upsert of one transaction; the partial
\* unique index over (key, slot) of unrevoked single-grant rows refuses it.
setPermissionSQL(T, c, perm, displaceLive, single, now) ==
  LET row == StoredRow(perm, single, now)
      victims == {d \in OccupiesSlot(T, c, row.slot) :
                    single /\ (displaceLive \/ Lapsed(T[d], now))}
      D == Displace(T, victims)
      conflict == single /\ \E d \in OccupiesSlot(D, c, row.slot) : D[d].single
  IN  IF conflict THEN T ELSE [D EXCEPT ![c] = row]

\* The same rule under the in-memory store's mutex: look first, then displace.
setPermissionMemory(T, c, perm, displaceLive, single, now) ==
  LET row == StoredRow(perm, single, now)
      others == OccupiesSlot(T, c, row.slot)
      occupied == ~displaceLive /\ \E d \in others : ~Lapsed(T[d], now)
  IN  IF ~single THEN [T EXCEPT ![c] = row]
      ELSE IF occupied THEN T
      ELSE [Displace(T, others) EXCEPT ![c] = row]

DeletePermission(T, c) == [T EXCEPT ![c] = NoRow]

\* Slides, is still live, and has fallen far enough below a full TTL.
slideDue(row, now) ==
  /\ row.sliding
  /\ row.expires > now
  /\ row.expires < now + SlidingGrantTTL - SlidingGrantRefreshEvery

UpdatePermissionLastUsed(T, c, now) ==
  IF Granted(T[c]) /\ slideDue(T[c], now)
    THEN [T EXCEPT ![c].expires = now + SlidingGrantTTL]
    ELSE T

\* Mutant: the WHERE clause without expires_at > NOW().
RenewPermissionLapsed(T, c, expires, now) ==
  IF Granted(T[c]) /\ T[c].expires # NoExpiry
    THEN [T EXCEPT ![c].expires = expires]
    ELSE T

\* Live, unrevoked and with an expiry, tested in the statement that writes.
RenewPermission(T, c, expires, now) ==
  IF Granted(T[c]) /\ T[c].expires # NoExpiry /\ T[c].expires > now
    THEN [T EXCEPT ![c].expires = expires]
    ELSE T

\* SQLite's RenewPermission: the test is a read of its own ...
RenewReadSQLite(T, c, now) ==
  /\ GetPermissionSQL(T, c, now) = "ok"
  /\ T[c].expires # NoExpiry
  /\ now < T[c].expires

\* ... and the write after it tests only revoked_at.
RenewWriteSQLite(T, c, expires) ==
  IF Granted(T[c]) THEN [T EXCEPT ![c].expires = expires] ELSE T
=============================================================================
