----------------------------- MODULE DealerKeys -----------------------------
(***************************************************************************)
(* Threshold keys of which this instance holds the shares: generated here  *)
(* by a dealer, or imported share by share from the bundles another        *)
(* instance exported.  Every handler is several statements against the     *)
(* store, and the requests of an account run concurrently; signing reads   *)
(* the shares that are there and combines as many as the threshold says.   *)
(*                                                                         *)
(* One group key.  Its dealer deletes the polynomial once it is split, so  *)
(* a key row that was deleted comes back only by importing its bundles,    *)
(* under a new id.  Signatures are computed by Bip340Frost.                *)
(***************************************************************************)
EXTENDS Bip340Frost, Sequences, FiniteSets, FiniteSetsExt

CONSTANTS
  Threshold, TotalShares,
  Polynomials,       \* bound: the dealer's polynomials
  NoncePairs,        \* bound: the nonces a signing call draws for a share
  Event,             \* the hash to be signed
  Users, Nobody,
  KeyIds, NoKey,     \* the ids that will be issued; random, so never twice
  Requests,          \* bound: the requests that run at a time
  Backends,          \* bound: the storage backends
  MaxRequests, MaxShareFaults

\* KeyGenConfig.Validate; an index is a scalar.
ValidConfig == 1 <= Threshold /\ Threshold <= TotalShares /\ TotalShares < Order

ASSUME ThresholdAssumption ==
  {Threshold, TotalShares, MaxRequests, MaxShareFaults} \subseteq Nat /\ ValidConfig
ASSUME PolynomialAssumption == Polynomials \subseteq [1..Threshold -> NonZero]
ASSUME BackendAssumption == Backends \subseteq {"postgres", "sqlite", "memory"}
ASSUME IdAssumption == NoKey \notin KeyIds /\ Nobody \notin Users

Indices == 1..TotalShares

ASSUME NoncePairAssumption == NoncePairs \subseteq NonZero \X NonZero
ASSUME KeyHashAssumption ==
  ReducedHashes(Event, UNION {[ids -> NoncePairs] : ids \in SUBSET Indices})

VARIABLES
  backend,
  poly,       \* history: the polynomial the key was split with
  keyRow,     \* the row of signer_frost_keys that has the group key's pubkey
  shareRows,  \* signer_frost_shares, with the account whose request wrote each row
  issued,     \* history: the ids used so far
  bundles,    \* the indices whose bundle is known outside
  req,        \* the requests in progress
  handled,    \* history: how many were started
  outcome,    \* history: how the last signing call of the API ended
  shareFaults

keyVars == <<backend, poly, keyRow, shareRows, issued, bundles, req, handled,
             outcome, shareFaults>>

NoRow == [id |-> NoKey, owner |-> Nobody]
Rows == [id : KeyIds, owner : Users]
Quiet == [pc |-> "idle", user |-> Nobody, id |-> NoKey, i |-> 0]

KeyTypeOK ==
  /\ backend \in Backends /\ poly \in Polynomials
  /\ keyRow \in Rows \cup {NoRow}
  /\ shareRows \subseteq [id : KeyIds, i : Indices, s : Scalars, by : Users]
  /\ issued \subseteq KeyIds /\ bundles \subseteq Indices
  /\ req \in [Requests -> [pc : {"idle", "share", "newKey", "import", "delete", "can", "sign"},
                           user : Users \cup {Nobody}, id : KeyIds \cup {NoKey},
                           i : 0..TotalShares]]
  /\ handled \in 0..MaxRequests /\ shareFaults \in 0..MaxShareFaults
  /\ outcome \in {"none", "signed", "gone", "insufficient", "badSignature"}

\* The key is generated here, or was elsewhere and every share of it exported.
KeyInit ==
  /\ backend \in Backends /\ poly \in Polynomials
  /\ keyRow = NoRow /\ shareRows = {} /\ issued = {}
  /\ bundles \in {{}, Indices}
  /\ req = [q \in Requests |-> Quiet] /\ handled = 0
  /\ outcome = "none" /\ shareFaults = 0

-----------------------------------------------------------------------------
(* The store.  The pubkey of a key row is unique, and deleting a key takes *)
(* its shares along, by the foreign key or by hand.                        *)

HasShare(id, i) == \E r \in shareRows : r.id = id /\ r.i = i

\* The foreign key, and UNIQUE (frost_key_id, share_index).
PostgresCreateFrostShare(id, i) == keyRow.id = id /\ ~HasShare(id, i)
SQLiteCreateFrostShare(id, i) == keyRow.id = id /\ ~HasShare(id, i)

\* The maps know the index, and nothing of the key.
MemoryCreateFrostShare(id, i) == ~HasShare(id, i)

CreateFrostShare(id, i) ==
  CASE backend = "postgres" -> PostgresCreateFrostShare(id, i)
    [] backend = "sqlite" -> SQLiteCreateFrostShare(id, i)
    [] backend = "memory" -> MemoryCreateFrostShare(id, i)

CreateFrostKey(id) == keyRow = NoRow /\ id \notin issued

\* DeleteFrostKey of the three backends.
DeleteFrostKey(id) ==
  /\ keyRow' = IF keyRow.id = id THEN NoRow ELSE keyRow
  /\ shareRows' = IF keyRow.id = id THEN {r \in shareRows : r.id # id} ELSE shareRows

\* Every share is local: neither key generation nor import says otherwise.
ListLocalFrostShares(id) == {r \in shareRows : r.id = id}

\* The n shares a list of them starts with: ordered by index in SQL,
\* in the order of a map in memory.
PostgresFirst(n, S) == {{r \in S : Cardinality({t \in S : t.i < r.i}) < n}}
SQLiteFirst(n, S) == {{r \in S : Cardinality({t \in S : t.i < r.i}) < n}}
MemoryFirst(n, S) == kSubset(n, S)

First(n, S) ==
  CASE backend = "postgres" -> PostgresFirst(n, S)
    [] backend = "sqlite" -> SQLiteFirst(n, S)
    [] backend = "memory" -> MemoryFirst(n, S)

-----------------------------------------------------------------------------
(* Signing.                                                                *)

\* Mutant: one share less will do.
CanSignFewer(id) == keyRow.id = id /\ Cardinality(ListLocalFrostShares(id)) + 1 >= Threshold

\* CanSign of the coordinator.
CanSign(id) == keyRow.id = id /\ Cardinality(ListLocalFrostShares(id)) >= Threshold

\* SignMessage with the shares S and the nonces N: the partial signatures of
\* all participants are computed here and the sum is verified.
SignMessage(S, N) ==
  LET P == poly[1]
      ids == {r.i : r \in S}
      secret == [i \in ids |-> (CHOOSE r \in S : r.i = i).s]
      sig == PrepareSignable(P, Event, N)
      Z == [i \in ids |-> ComputePartialSignature(sig, N[i], i, secret[i],
                                                  LagrangeCoefficient(i, ids))]
  IN  VerifyBIP340(AggregateFullSignature(sig, Z), Event, P)

\* The coordinator's call: the key, then as many of its shares as it needs.
SignEvent(id, result) ==
  IF keyRow.id # id THEN result = "gone"
  ELSE IF Cardinality(ListLocalFrostShares(id)) < Threshold THEN result = "insufficient"
  ELSE \E S \in First(Threshold, ListLocalFrostShares(id)) :
         \E N \in [{r.i : r \in S} -> NoncePairs] :
           \* a sum that is the identity has no x coordinate
           /\ AggregateNonceCommitment(N, ComputeBindingFactors(poly[1], Event, N)) # 0
           /\ result = IF SignMessage(S, N) THEN "signed" ELSE "badSignature"

-----------------------------------------------------------------------------
(* The handlers.                                                           *)

Goto(q, pc, u, id, i) == req' = [req EXCEPT ![q] = [pc |-> pc, user |-> u, id |-> id, i |-> i]]
Answer(q) == req' = [req EXCEPT ![q] = Quiet]
Arrive(q, u) == req[q] = Quiet /\ handled < MaxRequests /\ handled' = handled + 1 /\ u \in Users

Row(id, i, u) == [id |-> id, i |-> i, s |-> evaluatePolynomial(poly, i), by |-> u]
Insert(id, i, u) ==
  shareRows' = IF CreateFrostShare(id, i) THEN shareRows \cup {Row(id, i, u)} ELSE shareRows

\* GenerateKey and the row of the key.
handleCreateFrostKey(q, u, id) ==
  /\ Arrive(q, u) /\ bundles = {} /\ issued = {} /\ CreateFrostKey(id)
  /\ keyRow' = [id |-> id, owner |-> u] /\ issued' = issued \cup {id}
  /\ Goto(q, "share", u, id, 1)
  /\ UNCHANGED <<backend, poly, shareRows, bundles, outcome, shareFaults>>

\* The rows of its shares, one by one; a failure is logged and the next is
\* written.
StoreShare(q) ==
  /\ req[q].pc = "share"
  /\ \/ Insert(req[q].id, req[q].i, req[q].user) /\ UNCHANGED shareFaults
     \/ /\ shareFaults < MaxShareFaults /\ shareFaults' = shareFaults + 1
        /\ UNCHANGED shareRows
  /\ IF req[q].i = TotalShares THEN Answer(q)
     ELSE Goto(q, "share", req[q].user, req[q].id, req[q].i + 1)
  /\ UNCHANGED <<backend, poly, keyRow, issued, bundles, handled, outcome>>

\* CreateShareBundle decrypts a share for its owner; the row stays.
handleExportFrostShare(q, u, i) ==
  /\ Arrive(q, u) /\ keyRow.owner = u /\ HasShare(keyRow.id, i)
  /\ bundles' = bundles \cup {i}
  /\ UNCHANGED <<backend, poly, keyRow, shareRows, issued, req, outcome, shareFaults>>

\* Mutant: a share is added to anybody's key.
OwnsAny(u) == TRUE

\* The owner check of handleImportFrostShare.
Owns(u) == keyRow.owner = u

\* It looks the key up by its pubkey: only its owner goes on, and not if the
\* share is there.  A key that is not there is created first.  The code checks
\* only the form of a bundle; the bundles here are those that were exported.
handleImportFrostShare(q, u, i) ==
  /\ Arrive(q, u) /\ i \in bundles
  /\ IF keyRow = NoRow THEN Goto(q, "newKey", u, NoKey, i)
     ELSE IF Owns(u) /\ ~HasShare(keyRow.id, i) THEN Goto(q, "import", u, keyRow.id, i)
     ELSE UNCHANGED req
  /\ UNCHANGED <<backend, poly, keyRow, shareRows, issued, bundles, outcome, shareFaults>>

\* The row it creates; the pubkey may have been taken since the look-up.
ImportNewKey(q, id) ==
  /\ req[q].pc = "newKey" /\ id \notin issued
  /\ IF CreateFrostKey(id)
     THEN /\ keyRow' = [id |-> id, owner |-> req[q].user] /\ issued' = issued \cup {id}
          /\ Goto(q, "import", req[q].user, id, req[q].i)
     ELSE Answer(q) /\ UNCHANGED <<keyRow, issued>>
  /\ UNCHANGED <<backend, poly, shareRows, bundles, handled, outcome, shareFaults>>

\* ImportShare and the row; on an error the key it may have created stays.
ImportShare(q) ==
  /\ req[q].pc = "import"
  /\ Insert(req[q].id, req[q].i, req[q].user) /\ Answer(q)
  /\ UNCHANGED <<backend, poly, keyRow, issued, bundles, handled, outcome, shareFaults>>

handleDeleteFrostKey(q, u) ==
  /\ Arrive(q, u) /\ keyRow.owner = u
  /\ Goto(q, "delete", u, keyRow.id, 0)
  /\ UNCHANGED <<backend, poly, keyRow, shareRows, issued, bundles, outcome, shareFaults>>

DeleteStep(q) ==
  /\ req[q].pc = "delete" /\ DeleteFrostKey(req[q].id) /\ Answer(q)
  /\ UNCHANGED <<backend, poly, issued, bundles, handled, outcome, shareFaults>>

\* handleFrostSign asks CanSign before it signs.  Without enough shares it
\* turns to remote holders, of which no row names any, and answers 412.
handleFrostSign(q, u) ==
  /\ Arrive(q, u) /\ keyRow.owner = u /\ Goto(q, "can", u, keyRow.id, 0)
  /\ UNCHANGED <<backend, poly, keyRow, shareRows, issued, bundles, outcome, shareFaults>>

AskCanSign(q) ==
  /\ req[q].pc = "can"
  /\ IF CanSign(req[q].id) THEN Goto(q, "sign", req[q].user, req[q].id, 0) ELSE Answer(q)
  /\ UNCHANGED <<backend, poly, keyRow, shareRows, issued, bundles, handled, outcome, shareFaults>>

Sign(q) ==
  /\ req[q].pc = "sign" /\ SignEvent(req[q].id, outcome') /\ Answer(q)
  /\ UNCHANGED <<backend, poly, keyRow, shareRows, issued, bundles, handled, shareFaults>>

KeyNext ==
  \E q \in Requests :
    \/ StoreShare(q) \/ ImportShare(q) \/ DeleteStep(q) \/ AskCanSign(q) \/ Sign(q)
    \/ \E u \in Users : handleDeleteFrostKey(q, u) \/ handleFrostSign(q, u)
    \/ \E id \in KeyIds : ImportNewKey(q, id) \/ \E u \in Users : handleCreateFrostKey(q, u, id)
    \/ \E u \in Users, i \in Indices : handleExportFrostShare(q, u, i) \/ handleImportFrostShare(q, u, i)

-----------------------------------------------------------------------------
(* Properties.                                                             *)

\* A signing call that CanSign let through returns a valid signature, from
\* whichever shares the store lists first, unless the key was deleted since.
DealerKeySigns == outcome \notin {"insufficient", "badSignature"}

\* A share of a key was written by a request of the account that owns it,
\* whatever was deleted and imported anew between its look-up and its write.
SharesAreTheOwners == \A r \in shareRows : r.id = keyRow.id => r.by = keyRow.owner

\* Inductive: of an id that was issued, every share, and every request that
\* will write one, is its owner's.
OwnersInv ==
  /\ keyRow \in Rows \cup {NoRow} /\ issued \subseteq KeyIds /\ req = [q \in Requests |-> req[q]]
  /\ keyRow # NoRow => keyRow.id \in issued
  /\ \A r \in shareRows : r.id \in issued /\ (r.id = keyRow.id => r.by = keyRow.owner)
  /\ \A q \in Requests :
       /\ req[q].pc = "newKey" => req[q].user \in Users
       /\ req[q].pc \in {"share", "import"} =>
            req[q].id \in issued /\ (req[q].id = keyRow.id => req[q].user = keyRow.owner)

\* Inductive: a share is the polynomial's at its index, written once for its
\* key; a request that CanSign let through has enough of them as long as its
\* key is there, for shares only go with their key and ids do not come back.
SplitInv ==
  /\ backend \in Backends /\ poly \in Polynomials
  /\ IsFiniteSet(shareRows)
  /\ \A r \in shareRows : r.i \in Indices /\ r.s = evaluatePolynomial(poly, r.i) /\ r.id \in issued
  /\ \A r, t \in shareRows : r.id = t.id /\ r.i = t.i => r = t
  /\ bundles \subseteq Indices
  /\ \A q \in Requests :
       /\ req[q].pc \in {"share", "newKey", "import"} => req[q].i \in Indices
       /\ req[q].pc \in {"can", "sign"} => req[q].id \in issued
       /\ req[q].pc = "sign" /\ req[q].id = keyRow.id =>
            Cardinality(ListLocalFrostShares(req[q].id)) >= Threshold
  /\ DealerKeySigns
=============================================================================
