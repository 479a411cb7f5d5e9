----------------------------- MODULE UserCosign -----------------------------
(***************************************************************************)
(* Keys shared between the signer and one user's browser, two of two.  A   *)
(* key comes from a key generation of three rounds, or an existing secret  *)
(* is split, by the signer (path A) or by the browser (path B).  To sign,  *)
(* the signer opens a session with fresh nonces and the browser answers    *)
(* with its own commitments and partial signature, over HTTP or over the   *)
(* relays; CompleteCosign takes the session out under the lock, computes   *)
(* without it and drops the session when it returns.                       *)
(*                                                                         *)
(* One key, one session at a time.  The browser is honest, and modelled    *)
(* from what the code in src/ui sends.  Signatures are computed, over a    *)
(* small group, by Bip340Frost; sums that are the identity element, of     *)
(* negligible probability in the real group, are left out.                 *)
(***************************************************************************)
EXTENDS Bip340Frost

CONSTANTS
  None,
  EventHash,          \* the hash of the event to be signed
  SignerNonces,     \* bound: the nonce pairs that are drawn
  UserNonces,
  Calls,            \* bound: CompleteCosign calls in flight
  CosignTTL,        \* UserCosignTTL,
  PublishTimeout,   \* the bound on publishing the request
  WaitTimeout,      \* and the one on waiting for the response, in ticks
  Origins,          \* bound: where keys come from
  MaxSessions,      \* bound on the cosigning sessions
  MaxFaults         \* bound on the failed writes

ASSUME NonceAssumption == SignerNonces \subseteq NonZero \X NonZero /\ UserNonces \subseteq NonZero \X NonZero
ASSUME TimeAssumption ==
  {CosignTTL, PublishTimeout, WaitTimeout, MaxSessions, MaxFaults} \subseteq Nat
ASSUME OriginAssumption == Origins \subseteq {"dkg", "local", "pathB"}

SecretTypes == [p : Scalars, split : {"none", "polynomial", "additive"}, phrase : Scalars \cup {None}]

ASSUME NoneAssumption == None \notin Scalars /\ None \notin SecretTypes

UserIndex == 1
SignerIndex == 2
Participants == {UserIndex, SignerIndex}

ASSUME CosignHashAssumption == ReducedHashes(EventHash, [Participants -> SignerNonces \cup UserNonces])

VARIABLES
  key,       \* the row of signer_keys: its type, its x-only pubkey, its nsec
  share,     \* its row of signer_frost_user_shares
  device,    \* the browser's share
  secret,    \* history: the secret the pubkey belongs to, how it is shared, and f(1) of the
             \* browser's polynomial, which its recovery phrase gives again
  dkg,       \* the key generation session, with the browser's polynomial
  pathB,     \* the session of a path B migration
  hd,        \* the handler that is writing rows
  cos,       \* the cosigning session
  age,       \* ticks since it was opened
  wait,      \* handleFrostUserSignEvent, waiting for the browser
  calls,     \* the CompleteCosign calls
  answered,  \* history: a call has answered from the session's nonces
  result,    \* history: what the last call returned
  opened,    \* history: the sessions so far
  faults

cosignVars == <<key, share, device, secret, dkg, pathB, hd, cos, age, wait, calls,
          answered, result, opened, faults>>
rowVars == <<key, share, device, secret>>
cosVars == <<cos, age, wait, calls, answered, result, opened>>
makeVars == <<dkg, pathB, hd>>

NoWait == [pc |-> "none", t |-> 0]
Idle == [pc |-> "idle", late |-> FALSE]

KeyTypes == [type : {"local", "frost"}, pubkey : Scalars, nsec : Scalars \cup {None}]
ShareTypes == [s : Scalars, userAtDkg : Scalars \cup {None}, userVerify : Elements]
PolynomialPairs == NonZero \X NonZero
Setups == [d : NonZero, e : NonZero, s : Scalars, P : Elements, userVerify : Elements]
Outcomes == {"none", "signed", "notfound", "badPartial", "badSignature"}

CosignTypeOK ==
  /\ key \in KeyTypes \cup {None} /\ share \in ShareTypes \cup {None}
  /\ device \in Scalars \cup {None}
  /\ secret \in SecretTypes \cup {None}
  /\ dkg \in [phase : {"round2", "finalize"}, a : PolynomialPairs, b : PolynomialPairs] \cup {None}
  /\ pathB \in NonZero \cup {None}
  /\ hd \in [pc : {"idle"}] \cup
            [pc : {"createShare", "rollbackKey", "updateKey", "rollbackShare"},
             key : KeyTypes, share : ShareTypes]
  /\ cos \in Setups \cup {None} /\ age \in 0..(CosignTTL + 1)
  /\ wait \in [pc : {"none", "publish", "wait"}, t : 0..(PublishTimeout + WaitTimeout)]
  /\ \A c \in Calls :
       calls[c] \in [pc : {"idle"}, late : BOOLEAN] \cup
                    [pc : {"held"}, late : BOOLEAN, set : Setups, u : PolynomialPairs]
  /\ answered \in BOOLEAN /\ result \in Outcomes
  /\ opened \in 0..MaxSessions /\ faults \in 0..MaxFaults

CosignInit ==
  /\ key = None /\ share = None /\ device = None /\ secret = None
  /\ dkg = None /\ pathB = None /\ hd = [pc |-> "idle"]
  /\ cos = None /\ age = 0 /\ wait = NoWait /\ calls = [c \in Calls |-> Idle]
  /\ answered = FALSE /\ result = "none" /\ opened = 0 /\ faults = 0

-----------------------------------------------------------------------------
(* The rows.                                                               *)

\* UpdateKey of the SQL backends sets the type; the nsec is not among its
\* columns.
UpdateKey(k) == key' = IF key = None THEN None ELSE [key EXCEPT !.type = k.type]

\* The row goes, and its share by the foreign key.
DeleteKey == key' = None /\ share' = None

Fails == faults < MaxFaults /\ faults' = faults + 1

Writing(pc, k, s) == hd' = [pc |-> pc, key |-> k, share |-> s]
Stop == hd' = [pc |-> "idle"]

-----------------------------------------------------------------------------
(* Key generation.                                                         *)

\* Round1: both polynomials are drawn, and the commitments exchanged.
Round1 ==
  /\ "dkg" \in Origins /\ dkg = None /\ pathB = None /\ secret = None
  /\ \E a, b \in PolynomialPairs :
       /\ Add(a[1], b[1]) # 0
       /\ dkg' = [phase |-> "round2", a |-> a, b |-> b]
  /\ UNCHANGED <<rowVars, pathB, hd, cosVars, faults>>

\* Round2: the browser's evaluation is verified and the phase moves on; a
\* second call is in the wrong phase.
Round2 ==
  /\ dkg # None /\ dkg.phase = "round2"
  /\ verifyShareAgainstCommitment(evaluatePolynomial(dkg.a, SignerIndex), SignerIndex, dkg.a)
  /\ dkg' = [dkg EXCEPT !.phase = "finalize"]
  /\ UNCHANGED <<rowVars, pathB, hd, cosVars, faults>>

\* getSession and GC: a session past its expiry is dropped.
ExpireDKG ==
  /\ dkg # None /\ dkg' = None
  /\ UNCHANGED <<rowVars, pathB, hd, cosVars, faults>>

JointPubkey(a, b) == Add(a[1], b[1])

\* The shares at the two indices: f(i) + g(i).
ShareAt(a, b, i) == Add(evaluatePolynomial(a, i), evaluatePolynomial(b, i))

\* The browser stores its share; its verification share goes with the request.
Finalize ==
  LET u == ShareAt(dkg.a, dkg.b, UserIndex)
      P == JointPubkey(dkg.a, dkg.b)
  IN
  /\ dkg # None /\ dkg.phase = "finalize" /\ hd.pc = "idle" /\ key = None
  /\ dkg' = None
  /\ key' = [type |-> "frost", pubkey |-> XOnly(P), nsec |-> None]
  /\ secret' = [p |-> P, split |-> "polynomial", phrase |-> evaluatePolynomial(dkg.a, UserIndex)]
  /\ device' = u
  /\ Writing("createShare", key',
             [s |-> ShareAt(dkg.a, dkg.b, SignerIndex),
              userAtDkg |-> evaluatePolynomial(dkg.b, UserIndex), userVerify |-> u])
  /\ UNCHANGED <<share, pathB, cosVars, faults>>

\* The second row of a new key, and the rollback when it fails.
CreateFrostUserShare ==
  /\ hd.pc = "createShare"
  /\ \/ share' = (IF key = None THEN None ELSE hd.share) /\ Stop /\ UNCHANGED faults
     \/ Fails /\ hd' = [hd EXCEPT !.pc = "rollbackKey"] /\ UNCHANGED share
  /\ UNCHANGED <<key, device, secret, dkg, pathB, cosVars>>

rollbackKey ==
  /\ hd.pc = "rollbackKey" /\ Stop
  /\ \/ DeleteKey /\ UNCHANGED faults
     \/ Fails /\ UNCHANGED <<key, share>>
  /\ UNCHANGED <<device, secret, dkg, pathB, cosVars>>

-----------------------------------------------------------------------------
(* Migration of an existing secret.                                        *)

\* A key that the signer holds, or one that only the user has.
Existing(p) ==
  /\ "local" \in Origins /\ secret = None /\ dkg = None /\ pathB = None
  /\ key' = [type |-> "local", pubkey |-> XOnly(p), nsec |-> p]
  /\ secret' = [p |-> p, split |-> "none", phrase |-> None]
  /\ UNCHANGED <<share, device, makeVars, cosVars, faults>>

\* handleFrostMigratePathA splits the nsec into two summands, stores the
\* shares, and then turns the row into a FROST key.
handleFrostMigratePathA(pSigner) ==
  LET pUser == Subtract(key.nsec, pSigner) IN
  /\ key # None /\ key.type = "local" /\ hd.pc = "idle" /\ share = None
  /\ share' = [s |-> pSigner, userAtDkg |-> pUser, userVerify |-> pUser]
  /\ Writing("updateKey", [key EXCEPT !.type = "frost", !.nsec = None], share')
  /\ UNCHANGED <<key, device, secret, dkg, pathB, cosVars, faults>>

\* The response hands the browser its share; when the update fails the share
\* row is deleted again.
MigrateRow ==
  /\ hd.pc = "updateKey"
  /\ \/ /\ UpdateKey(hd.key) /\ Stop /\ UNCHANGED faults
        /\ device' = hd.share.userAtDkg
        /\ secret' = [secret EXCEPT !.split = "additive"]
     \/ Fails /\ hd' = [hd EXCEPT !.pc = "rollbackShare"] /\ UNCHANGED <<key, device, secret>>
  /\ UNCHANGED <<share, dkg, pathB, cosVars>>

DeleteFrostUserShare ==
  /\ hd.pc = "rollbackShare" /\ Stop
  /\ \/ share' = None /\ UNCHANGED faults
     \/ Fails /\ UNCHANGED share
  /\ UNCHANGED <<key, device, secret, dkg, pathB, cosVars>>

\* Path B: the browser names the pubkey of the secret it holds...
handleFrostMigrateBInit(p) ==
  /\ "pathB" \in Origins /\ secret = None /\ dkg = None /\ pathB = None
  /\ pathB' = p
  /\ UNCHANGED <<rowVars, dkg, hd, cosVars, faults>>

\* ... and sends the summand it does not keep; the sum is compared with the
\* even-y point of the pubkey.  The session is used up either way.
handleFrostMigrateBFinalize(pUser) ==
  LET pSigner == Subtract(pathB, pUser) IN
  /\ pathB # None /\ pathB' = None /\ hd.pc = "idle"
  /\ IF Add(pSigner, pUser) = XOnly(pathB) /\ key = None
     THEN /\ key' = [type |-> "frost", pubkey |-> XOnly(pathB), nsec |-> None]
          /\ secret' = [p |-> pathB, split |-> "additive", phrase |-> None] /\ device' = pUser
          /\ Writing("createShare", key',
                     [s |-> pSigner, userAtDkg |-> None, userVerify |-> pUser])
     ELSE UNCHANGED <<key, secret, device, hd>>
  /\ UNCHANGED <<share, dkg, cosVars, faults>>

\* A browser that lost its share derives f(1) from the recovery phrase and
\* adds what handleFrostUserDKGRecovery returns, g(1).
LoseDevice ==
  /\ device # None /\ device' = None
  /\ UNCHANGED <<key, share, secret, makeVars, cosVars, faults>>

handleFrostUserDKGRecovery ==
  /\ device = None /\ key # None /\ key.type = "frost" /\ share # None
  /\ share.userAtDkg # None /\ secret.split = "polynomial"
  /\ device' = Add(secret.phrase, share.userAtDkg)
  /\ UNCHANGED <<key, share, secret, makeVars, cosVars, faults>>

-----------------------------------------------------------------------------
(* Cosigning.                                                              *)

\* "02" followed by the x-only pubkey.
jointPubkey(k) == k.pubkey

\* BeginCosign, for a request over HTTP or over the relays.
BeginCosign(nonces, over) ==
  /\ key # None /\ key.type = "frost" /\ share # None
  /\ cos = None /\ wait = NoWait /\ \A c \in Calls : calls[c].pc = "idle"
  /\ opened < MaxSessions /\ opened' = opened + 1
  /\ cos' = [d |-> nonces[1], e |-> nonces[2], s |-> share.s, P |-> jointPubkey(key),
             userVerify |-> share.userVerify]
  /\ age' = 0 /\ answered' = FALSE /\ result' = "none"
  /\ wait' = IF over = "relays" THEN [pc |-> "publish", t |-> 0] ELSE NoWait
  /\ calls' = [c \in Calls |-> Idle]
  /\ UNCHANGED <<rowVars, makeVars, faults>>

\* Some relay took the request; or none did within the timeout.
Publish ==
  /\ wait.pc = "publish"
  /\ wait' \in {[pc |-> "wait", t |-> 0], NoWait}
  /\ UNCHANGED <<rowVars, makeVars, cos, age, calls, answered, result, opened, faults>>

\* waitForCosignResponse ends without an approval: a timeout or a denial.  The
\* session stays.
GiveUp ==
  /\ wait.pc = "wait" /\ wait' = NoWait
  /\ UNCHANGED <<rowVars, makeVars, cos, age, calls, answered, result, opened, faults>>

\* Both contexts end by themselves.
Due == \/ wait.pc = "publish" /\ wait.t = PublishTimeout
       \/ wait.pc = "wait" /\ wait.t = WaitTimeout

Tick ==
  /\ cos # None \/ wait # NoWait
  /\ ~Due /\ age <= CosignTTL /\ age' = age + 1
  /\ wait' = IF wait = NoWait THEN NoWait ELSE [wait EXCEPT !.t = @ + 1]
  /\ UNCHANGED <<rowVars, makeVars, cos, calls, answered, result, opened, faults>>

Expired == age > CosignTTL

Commitments(set, u) ==
  [i \in Participants |-> IF i = UserIndex THEN u ELSE <<set.d, set.e>>]

\* compute_user_partial_signature, in the browser.
userPartial(set, u) ==
  ComputePartialSignature(PrepareSignable(jointPubkey(key), EventHash, Commitments(set, u)),
                          u, UserIndex, device, LagrangeCoefficient(UserIndex, Participants))

Proper(set, u) ==
  LET C == Commitments(set, u)
  IN  AggregateNonceCommitment(C, ComputeBindingFactors(set.P, EventHash, C)) # 0

\* CompleteCosign reads the session, which stays in the map; a response over
\* the relays ends the wait.
Lookup(c, u) ==
  /\ calls[c].pc = "idle" /\ opened > 0 /\ device # None /\ key # None
  /\ wait.pc # "publish"
  /\ IF cos = None \/ Expired
     THEN /\ cos' = None
          /\ result' = IF wait.pc = "wait" /\ ~answered THEN "notfound" ELSE result
          /\ wait' = NoWait
          /\ UNCHANGED calls
     ELSE /\ Proper(cos, u)
          /\ calls' = [calls EXCEPT ![c] = [pc |-> "held", late |-> answered, set |-> cos,
                                            u |-> u]]
          /\ wait' = NoWait
          /\ UNCHANGED <<cos, result>>
  /\ UNCHANGED <<rowVars, makeVars, age, answered, opened, faults>>

\* Mutant: the session is dropped once a signature was returned.
dropSessionIfSigned(res) == cos' = IF res = "signed" THEN None ELSE cos

\* The deferred dropSession, on any outcome.
dropSession(res) == cos' = None

\* The rest of CompleteCosign: the browser's partial signature is verified,
\* the signer's is computed, and the sum is verified before it is returned.
Complete(set, u, zUser) ==
  LET C == Commitments(set, u)
      sig == PrepareSignable(set.P, EventHash, C)
      lambda(i) == LagrangeCoefficient(i, Participants)
      zSigner == ComputePartialSignature(sig, <<set.d, set.e>>, SignerIndex, set.s, lambda(SignerIndex))
      full == AggregateFullSignature(sig, [i \in Participants |-> IF i = UserIndex THEN zUser ELSE zSigner])
  IN  IF ~verifyPartialSignature(sig, zUser, C, UserIndex, lambda(UserIndex), set.userVerify)
      THEN "badPartial"
      ELSE IF VerifyBIP340(full, EventHash, set.P) THEN "signed" ELSE "badSignature"

CompleteCosign(c) ==
  LET call == calls[c]
      res == Complete(call.set, call.u, userPartial(call.set, call.u))
  IN
  /\ call.pc = "held" /\ device # None /\ key # None
  /\ result' = res /\ answered' = TRUE
  /\ calls' = [calls EXCEPT ![c] = Idle]
  /\ dropSession(res)
  /\ UNCHANGED <<rowVars, makeVars, age, wait, opened, faults>>

-----------------------------------------------------------------------------
CosignNext ==
  \/ Round1 \/ Round2 \/ ExpireDKG \/ Finalize \/ CreateFrostUserShare \/ rollbackKey
  \/ \E p \in NonZero :
       \/ Existing(p) \/ handleFrostMigratePathA(p)
       \/ handleFrostMigrateBInit(p) \/ handleFrostMigrateBFinalize(p)
  \/ MigrateRow \/ DeleteFrostUserShare \/ LoseDevice \/ handleFrostUserDKGRecovery
  \/ \E nonces \in SignerNonces, over \in {"http", "relays"} : BeginCosign(nonces, over)
  \/ Publish \/ GiveUp \/ Tick
  \/ \E c \in Calls : CompleteCosign(c) \/ \E u \in UserNonces : Lookup(c, u)

-----------------------------------------------------------------------------
(* Properties.                                                             *)

\* With an honest browser, a key from the key generation whose joint pubkey
\* has even y signs at every attempt: the indices, the coefficients, the signs
\* of nonces and shares and the order of the commitments agree on both sides.
GeneratedKeySigns ==
  result \in {"badPartial", "badSignature"} => secret.split # "polynomial" \/ ~EvenY(secret.p)

\* A call that begins after another one has answered from the nonces of a
\* session does not get the session: nonces can only serve two calls that
\* overlap.
NoncesServeOneRound == \A c \in Calls : calls[c].pc = "held" => ~calls[c].late

\* Every FROST key signs with an honest browser.  After a migration "the signer
\* can no longer sign alone - cosigning is now required" (frost_migrate.go).
EveryKeySigns == result \notin {"badPartial", "badSignature"}

\* Inductive: the session is gone once a call has answered from it.
ServesInv ==
  /\ answered \in BOOLEAN /\ calls = [c \in Calls |-> calls[c]]
  /\ answered => cos = None
  /\ \A c \in Calls : calls[c].late = FALSE

\* What a session took from the rows of the key generated from a and b.
TakenFrom(set, a, b) ==
  /\ <<set.d, set.e>> \in SignerNonces /\ set.s = ShareAt(a, b, SignerIndex)
  /\ set.P = XOnly(JointPubkey(a, b)) /\ set.userVerify = ShareAt(a, b, UserIndex)

\* Inductive: of a key that was generated, every row, every share and every
\* session is what the two polynomials give, whatever was written, rolled
\* back, lost and recovered; its signatures verify if its pubkey has even y.
GeneratedFrom(a, b) ==
  LET row == [type |-> "frost", pubkey |-> XOnly(JointPubkey(a, b)), nsec |-> None]
      sh == [s |-> ShareAt(a, b, SignerIndex), userAtDkg |-> evaluatePolynomial(b, UserIndex),
             userVerify |-> ShareAt(a, b, UserIndex)]
  IN
  /\ secret = [p |-> JointPubkey(a, b), split |-> "polynomial",
               phrase |-> evaluatePolynomial(a, UserIndex)]
  /\ key \in {None, row} /\ share \in {None, sh} /\ device \in {None, ShareAt(a, b, UserIndex)}
  /\ hd.pc # "idle" => hd.pc \in {"createShare", "rollbackKey"} /\ hd.share = sh
  /\ cos # None => TakenFrom(cos, a, b)
  /\ \A c \in Calls :
       calls[c].pc = "held" => TakenFrom(calls[c].set, a, b) /\ calls[c].u \in UserNonces
  /\ EvenY(JointPubkey(a, b)) => result \notin {"badPartial", "badSignature"}

\* ... and before there is a secret nothing can be signed.
GeneratedInv ==
  /\ calls = [c \in Calls |-> calls[c]]
  /\ secret \in SecretTypes \cup {None} /\ pathB \in NonZero \cup {None}
  /\ dkg # None => dkg.a \in PolynomialPairs /\ dkg.b \in PolynomialPairs
  /\ dkg # None \/ pathB # None => secret = None
  /\ dkg # None => pathB = None
  /\ secret = None =>
       /\ key = None /\ share = None /\ device = None /\ cos = None /\ hd.pc = "idle"
       /\ result = "none" /\ \A c \in Calls : calls[c].pc = "idle"
  /\ secret # None /\ secret.split = "polynomial" => \E a, b \in PolynomialPairs : GeneratedFrom(a, b)
=============================================================================
