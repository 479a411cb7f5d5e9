----------------------------- MODULE Challenges -----------------------------
(***************************************************************************)
(* Signing in without a password.  Each way opens a row that one answer    *)
(* may use: a Lightning login or link challenge (k1), a WebAuthn session   *)
(* and a recovery nonce.  The handlers read, write and delete that row in  *)
(* separate statements, and every answer may arrive twice at once.         *)
(*                                                                         *)
(* A wallet's linking key belongs to one account, by a row with an id of   *)
(* its own.  With ConfirmFirstLogin a browser must have said once that the *)
(* account is its own: its marker names the id of that row.                *)
(***************************************************************************)
EXTENDS Naturals

CONSTANTS
  Nonces,      \* bound: the rows that are ever opened
  Users, NoUser,
  Wallets, NoWallet,
  Browsers, NoBrowser,
  Callers,     \* bound: the requests that run at a time
  MaxLinks     \* bound: the ids of linking-key rows

ASSUME ChallengeAssumption ==
  NoUser \notin Users /\ NoWallet \notin Wallets /\ NoBrowser \notin Browsers /\ MaxLinks \in Nat \ {0}

VARIABLES
  chal,     \* the rows
  wallet,   \* the linking keys: owner and id (0: not linked)
  links,    \* ids issued
  marker,   \* the markers that browsers hold
  call,     \* the requests in progress
  ended,    \* history: how many sign-ins, rejections, credentials or resets a row led to,
  exposed   \* and the WebAuthn sessions that two requests read, or whose deletion failed

challengeVars == <<chal, wallet, links, marker, call, ended, exposed>>

Kinds == {"login", "link", "passkey", "register", "recovery"}

Unopened == [st |-> "none", kind |-> "login", by |-> NoBrowser, user |-> NoUser, key |-> NoWallet, id |-> 0]
Unlinked == [owner |-> NoUser, id |-> 0]
Free == [at |-> "free", of |-> NoWallet, key |-> NoWallet, user |-> NoUser, id |-> 0]
FreeAt(c) == [Free EXCEPT !.of = c]

Challenge == [st : {"none", "pending", "authenticated", "gone"}, kind : Kinds,
              by : Browsers \cup {NoBrowser}, user : Users \cup {NoUser},
              key : Wallets \cup {NoWallet}, id : 0..MaxLinks]
LinkingKey == [owner : Users \cup {NoUser}, id : 0..MaxLinks]
OfWallet == {"link", "lookup", "confirm", "reject", "unlink"}
Completing == {"complete", "unseen"}
Call == [at : OfWallet \cup Completing \cup {"free", "claim", "validate", "cleanup"},
         of : Nonces \cup {NoWallet}, key : Wallets \cup {NoWallet}, user : Users \cup {NoUser}, id : 0..MaxLinks]

ChallengeTypeOK ==
  /\ chal \in [Nonces -> Challenge] /\ wallet \in [Wallets -> LinkingKey] /\ links \in 0..MaxLinks
  /\ marker \subseteq Browsers \X (1..MaxLinks) /\ exposed \subseteq Nonces
  /\ call \in [Callers -> Call] /\ ended \in [Nonces -> 0..2]

ChallengeInit ==
  /\ chal = [c \in Nonces |-> Unopened]
  /\ \/ links = 0 /\ wallet = [w \in Wallets |-> Unlinked]
     \/ /\ links = 1
        /\ \E w \in Wallets, u \in Users : wallet = [v \in Wallets |-> IF v = w THEN [owner |-> u, id |-> 1] ELSE Unlinked]
  /\ marker = {} /\ call = [p \in Callers |-> Free]
  /\ ended = [c \in Nonces |-> 0] /\ exposed = {}

-----------------------------------------------------------------------------

Calls(p, c, at) == call[p] = Free /\ call' = [call EXCEPT ![p] = [FreeAt(c) EXCEPT !.at = at]]
Runs(p, at) == call[p].at = at
Proceed(p, r) == call' = [call EXCEPT ![p] = r]
Ends(p) == call' = [call EXCEPT ![p] = Free]
EndsOrProceeds(p, ok, at) == IF ok THEN Proceed(p, [call[p] EXCEPT !.at = at]) ELSE Ends(p)

Open(c, r) == chal[c].st = "none" /\ chal' = [chal EXCEPT ![c] = r]
Live(c) == chal[c].st \in {"pending", "authenticated"}
Lightning(c) == chal[c].kind \in {"login", "link"}
\* Bound: more than two are counted as two.
Leads(c) == ended' = [ended EXCEPT ![c] = IF @ = 2 THEN 2 ELSE @ + 1]

\* A storage call fails, or the replica dies: the request ends where it is.
Abandon(p) ==
  /\ call[p] # Free /\ Ends(p)
  /\ exposed' = IF Runs(p, "cleanup") THEN exposed \cup {call[p].of} ELSE exposed
  /\ UNCHANGED <<chal, wallet, links, marker, ended>>

\* The row's time is over; every statement but WebAuthn's tests it in SQL.
Expire(c) ==
  /\ Live(c) /\ chal' = [chal EXCEPT ![c].st = "gone"]
  /\ UNCHANGED <<wallet, links, marker, call, ended, exposed>>

-----------------------------------------------------------------------------
(* Lightning.                                                              *)

\* handleLightningChallenge for anyone, handleLightningLinkChallenge for a user.
generateLightningChallenge(c, b, u) ==
  /\ Open(c, [Unopened EXCEPT !.st = "pending", !.by = b, !.user = u,
                              !.kind = IF u = NoUser THEN "login" ELSE "link"])
  /\ UNCHANGED <<wallet, links, marker, call, ended, exposed>>

\* The wallet calls back with a signature.  The row is read whatever its status.
handleLNURLAuthCallback(p, c, w) ==
  /\ Live(c) /\ Lightning(c) /\ call[p] = Free
  /\ Proceed(p, [FreeAt(c) EXCEPT !.key = w, !.at = IF chal[c].kind = "link" THEN "link" ELSE "lookup",
                                  !.user = IF chal[c].kind = "link" THEN chal[c].user ELSE NoUser])
  /\ UNCHANGED <<chal, wallet, links, marker, ended, exposed>>

\* First the key, unique over all accounts, then the claim.
CreateLightningKey(p) ==
  LET w == call[p].key IN
  /\ Runs(p, "link")
  /\ \/ /\ wallet[w] = Unlinked /\ links < MaxLinks /\ links' = links + 1
        /\ wallet' = [wallet EXCEPT ![w] = [owner |-> call[p].user, id |-> links + 1]]
        /\ Proceed(p, [call[p] EXCEPT !.at = "claim", !.key = NoWallet])
     \/ /\ wallet[w] # Unlinked /\ UNCHANGED <<wallet, links>>
        /\ IF wallet[w].owner = call[p].user
           THEN Proceed(p, [call[p] EXCEPT !.at = "claim", !.key = NoWallet]) ELSE Ends(p)
  /\ UNCHANGED <<chal, marker, ended, exposed>>

GetLightningKeyByLinkingKey(p) ==
  LET w == call[p].key IN
  /\ Runs(p, "lookup")
  /\ IF wallet[w] = Unlinked THEN Ends(p)
     ELSE Proceed(p, [call[p] EXCEPT !.at = "claim", !.user = wallet[w].owner, !.id = wallet[w].id])
  /\ UNCHANGED <<chal, wallet, links, marker, ended, exposed>>

\* One conditional UPDATE of a pending row.
claimLightningChallenge(p) ==
  LET c == call[p].of IN
  /\ Runs(p, "claim") /\ Ends(p)
  /\ chal' = IF chal[c].st = "pending"
             THEN [chal EXCEPT ![c].st = "authenticated", ![c].user = call[p].user,
                               ![c].key = call[p].key, ![c].id = call[p].id]
             ELSE chal
  /\ UNCHANGED <<wallet, links, marker, ended, exposed>>

lightningKeyNeedsConfirmOnce(c) ==
  /\ chal[c].key # NoWallet
  /\ wallet[chal[c].key] # Unlinked /\ wallet[chal[c].key].owner = chal[c].user
  /\ \A b \in Browsers : <<b, wallet[chal[c].key].id>> \notin marker

\* The key that signed is still this user's, and this browser has no marker
\* for it.
lightningKeyNeedsConfirm(c) ==
  /\ chal[c].key # NoWallet
  /\ wallet[chal[c].key] # Unlinked /\ wallet[chal[c].key].owner = chal[c].user
  /\ <<chal[c].by, wallet[chal[c].key].id>> \notin marker

\* The browser polls.  When it must confirm it is told so, and nothing changes.
\* A key that could not be looked up, whatever the error, needs no confirmation.
handleLightningStatus(p, c) ==
  /\ Lightning(c) /\ chal[c].st = "authenticated"
  /\ \/ (chal[c].kind = "link" \/ ~lightningKeyNeedsConfirm(c)) /\ Calls(p, c, "complete")
     \/ chal[c].kind = "login" /\ Calls(p, c, "unseen")
  /\ UNCHANGED <<chal, wallet, links, marker, ended, exposed>>

\* "Yes, this is my account", or not.
handleLightningConfirm(p, c, confirm) ==
  /\ chal[c].kind = "login" /\ chal[c].st = "authenticated" /\ lightningKeyNeedsConfirm(c)
  /\ call[p] = Free
  /\ Proceed(p, [FreeAt(c) EXCEPT !.at = confirm, !.key = chal[c].key, !.id = wallet[chal[c].key].id])
  /\ UNCHANGED <<chal, wallet, links, marker, ended, exposed>>

\* The row of that id; another one for the same wallet key does not count.
ConfirmLightningKey(p) ==
  /\ Runs(p, "confirm") /\ EndsOrProceeds(p, wallet[call[p].key].id = call[p].id, "complete")
  /\ UNCHANGED <<chal, wallet, links, marker, ended, exposed>>

ConsumeTwice(c) == chal[c].st \in {"authenticated", "gone"} /\ chal' = [chal EXCEPT ![c].st = "gone"]

\* One DELETE ... RETURNING of an authenticated row.
ConsumeLightningChallenge(c) ==
  chal[c].st = "authenticated" /\ chal' = [chal EXCEPT ![c].st = "gone"]

\* The session, and the marker that a confirmation earns.
completeLightningLogin(p) ==
  LET c == call[p].of IN
  /\ call[p].at \in Completing /\ Ends(p)
  /\ \/ /\ ConsumeLightningChallenge(c) /\ Leads(c)
        /\ marker' = IF call[p].id # 0 THEN marker \cup {<<chal[c].by, call[p].id>>} ELSE marker
     \/ chal[c].st # "authenticated" /\ UNCHANGED <<chal, ended, marker>>
  /\ UNCHANGED <<wallet, links, exposed>>

\* Consumed first, so that this login cannot be completed afterwards.
rejectLogin(p) ==
  LET c == call[p].of IN
  /\ Runs(p, "reject")
  /\ \/ ConsumeLightningChallenge(c) /\ Leads(c) /\ Proceed(p, [call[p] EXCEPT !.at = "unlink"])
     \/ chal[c].st # "authenticated" /\ UNCHANGED <<chal, ended>> /\ Ends(p)
  /\ UNCHANGED <<wallet, links, marker, exposed>>

\* By id.
DeleteLightningKey(w, id) ==
  wallet' = IF wallet[w].id = id THEN [wallet EXCEPT ![w] = Unlinked] ELSE wallet

unlinkRejected(p) ==
  /\ Runs(p, "unlink") /\ DeleteLightningKey(call[p].key, call[p].id) /\ Ends(p)
  /\ UNCHANGED <<chal, links, marker, ended, exposed>>

handleLightningKeyByID(u, w) ==
  /\ wallet[w].owner = u /\ DeleteLightningKey(w, wallet[w].id)
  /\ UNCHANGED <<chal, links, marker, call, ended, exposed>>

-----------------------------------------------------------------------------
(* WebAuthn.  A registration's row has the user's id: there is one of them. *)

Slot(c) ==
  IF chal[c].kind = "register" THEN {d \in Nonces : chal[d].kind = "register" /\ chal[d].user = chal[c].user}
  ELSE {c}

handlePasskeyRegisterBegin(c, u) ==
  /\ chal[c].st = "none"
  /\ chal' = [d \in Nonces |->
       IF d = c THEN [Unopened EXCEPT !.st = "pending", !.kind = "register", !.user = u]
       ELSE IF chal[d].kind = "register" /\ chal[d].user = u THEN [chal[d] EXCEPT !.st = "gone"] ELSE chal[d]]
  /\ UNCHANGED <<wallet, links, marker, call, ended, exposed>>

handlePasskeyLoginBegin(c) ==
  /\ Open(c, [Unopened EXCEPT !.st = "pending", !.kind = "passkey"])
  /\ UNCHANGED <<wallet, links, marker, call, ended, exposed>>

\* handlePasskeyRegisterFinish, handlePasskeyLoginFinish: the session is read
\* first and deleted when the handler returns.
GetWebAuthnSession(p, c) ==
  /\ chal[c].kind \in {"passkey", "register"} /\ chal[c].st = "pending" /\ Calls(p, c, "validate")
  /\ exposed' = IF \E q \in Callers : call[q].of = c THEN exposed \cup {c} ELSE exposed
  /\ UNCHANGED <<chal, wallet, links, marker, ended>>

\* The authenticator's answer is good, or not.
validateCredential(p) ==
  /\ Runs(p, "validate") /\ Proceed(p, [call[p] EXCEPT !.at = "cleanup"])
  /\ Leads(call[p].of) \/ UNCHANGED ended
  /\ UNCHANGED <<chal, wallet, links, marker, exposed>>

DeleteNothing(p) ==
  /\ Runs(p, "cleanup") /\ Ends(p) /\ UNCHANGED <<chal, wallet, links, marker, ended, exposed>>

\* The deferred call deletes whatever session has that id.
DeleteWebAuthnSession(p) ==
  /\ Runs(p, "cleanup") /\ Ends(p)
  /\ chal' = [d \in Nonces |-> IF d \in Slot(call[p].of) /\ chal[d].st # "none"
                               THEN [chal[d] EXCEPT !.st = "gone"] ELSE chal[d]]
  /\ UNCHANGED <<wallet, links, marker, ended, exposed>>

-----------------------------------------------------------------------------
(* Recovery.                                                               *)

\* For an unknown account the answer looks the same and no row is written.
handleRecoveryChallenge(c, u) ==
  /\ Open(c, [Unopened EXCEPT !.st = "pending", !.kind = "recovery", !.user = u])
  /\ UNCHANGED <<wallet, links, marker, call, ended, exposed>>

\* One conditional UPDATE: the attempt spends the nonce, whether or not the
\* proof is good.  What a good one does is AccountCustody's.
ConsumeRecoveryChallenge(c) ==
  /\ chal[c].kind = "recovery" /\ chal[c].st = "pending"
  /\ chal' = [chal EXCEPT ![c].st = "gone"] /\ Leads(c)
  /\ UNCHANGED <<wallet, links, marker, call, exposed>>

-----------------------------------------------------------------------------

ChallengeNext ==
  \/ \E c \in Nonces :
       \/ Expire(c) \/ handlePasskeyLoginBegin(c) \/ ConsumeRecoveryChallenge(c)
       \/ \E u \in Users :
            \/ handlePasskeyRegisterBegin(c, u) \/ handleRecoveryChallenge(c, u)
            \/ \E b \in Browsers : generateLightningChallenge(c, b, u)
       \/ \E b \in Browsers : generateLightningChallenge(c, b, NoUser)
       \/ \E p \in Callers :
            \/ handleLightningStatus(p, c) \/ GetWebAuthnSession(p, c)
            \/ \E confirm \in {"confirm", "reject"} : handleLightningConfirm(p, c, confirm)
            \/ \E w \in Wallets : handleLNURLAuthCallback(p, c, w)
  \/ \E p \in Callers :
       \/ CreateLightningKey(p) \/ GetLightningKeyByLinkingKey(p) \/ claimLightningChallenge(p)
       \/ ConfirmLightningKey(p) \/ completeLightningLogin(p) \/ rejectLogin(p) \/ unlinkRejected(p)
       \/ validateCredential(p) \/ DeleteWebAuthnSession(p) \/ Abandon(p)
  \/ \E u \in Users, w \in Wallets : handleLightningKeyByID(u, w)

-----------------------------------------------------------------------------

\* A row leads to one sign-in, rejection, credential or reset at most, however
\* callbacks, polls, confirmations and retries overlap: it is one-time as
\* OneTime says.  WebAuthn's sessions are, unless two requests read the row
\* before the first deleted it, or the deletion failed.
SingleUse == INSTANCE OneTime WITH
  Items <- Nonces,
  taken <- [c \in Nonces |-> IF c \in exposed /\ ended[c] > 1 THEN 1 ELSE ended[c]]
ChallengeIsOneTime == SingleUse!Spec

\* Request p turns the login of row c into a session, and the linking-key row
\* that signed is still there.
LogsIn(p, c) ==
  /\ call[p].of = c /\ call'[p] = Free /\ ended'[c] > ended[c]
  /\ chal[c].kind = "login" /\ wallet[chal[c].key].id = chal[c].id

Marked(c) == <<chal[c].by, chal[c].id>> \in marker'

\* With ConfirmFirstLogin no login ends in a session unless its browser has the
\* marker of the linking-key row that signed, earlier or from this very answer,
\* however polls, confirmations, rejections, unlinking and linking again
\* overlap; as long as that row is still there and the status poll could read it.
SeenLoginConfirmed ==
  [][\A c \in Nonces, p \in Callers :
       Runs(p, "complete") /\ LogsIn(p, c) => Marked(c)]_challengeVars

-----------------------------------------------------------------------------
(* What the comments say of the code.                                      *)

\* "When confirmation is on, a key's first login in each browser shows which
\* account it opens and waits for POST /lightning/confirm"
\* (handleLightningStatus): also when the poll could not look up the key.
FirstLoginConfirmed ==
  [][\A c \in Nonces, p \in Callers :
       call[p].at \in Completing /\ LogsIn(p, c) => Marked(c)]_challengeVars

-----------------------------------------------------------------------------
(* What makes them inductive.                                              *)

WebAuthn(c) == chal[c].kind \in {"passkey", "register"}

\* A row that can still be used has led to nothing yet, but for WebAuthn's.
RowInv ==
  \A c \in Nonces :
    /\ chal[c].st = "none" => chal[c] = Unopened /\ ended[c] = 0
    /\ Live(c) /\ ~WebAuthn(c) => ended[c] = 0
    /\ chal[c].st = "authenticated" => Lightning(c)
    /\ chal[c].st # "none" /\ Lightning(c) => chal[c].by \in Browsers
    /\ c \notin exposed => ended[c] <= 1

\* A request works on a row of its own kind that has been opened.
CallInv ==
  \A p \in Callers : call[p].at # "free" =>
    /\ call[p].of \in Nonces /\ chal[call[p].of].st # "none"
    /\ IF call[p].at \in {"validate", "cleanup"} THEN WebAuthn(call[p].of) ELSE Lightning(call[p].of)
    /\ call[p].at \in OfWallet => call[p].key \in Wallets
    /\ call[p].at = "link" => chal[call[p].of].kind = "link"
    /\ call[p].at \in Completing \cup {"confirm", "reject", "unlink"}
       => chal[call[p].of].st \in {"authenticated", "gone"}

\* One request at a time has a session that is not exposed, and who used it is
\* about to delete it.
SessionInv ==
  /\ \A p, q \in Callers :
       call[p].at \in {"validate", "cleanup"} /\ call[p].of \notin exposed =>
         /\ call[p].at = "validate" => ended[call[p].of] = 0
         /\ call[q].at # "free" /\ call[q].of = call[p].of => q = p
  /\ \A c \in Nonces \ exposed :
       WebAuthn(c) /\ chal[c].st = "pending" /\ ended[c] = 1 =>
         \E p \in Callers : call[p].at = "cleanup" /\ call[p].of = c

\* An id is issued once, so it names one account for good.
Named(r) ==
  r.key \in Wallets /\ r.id \in 1..links /\ (wallet[r.key].id = r.id => wallet[r.key].owner = r.user)

WalletInv ==
  /\ \A w \in Wallets : wallet[w].id <= links /\ (wallet[w].id = 0 => wallet[w] = Unlinked)
  /\ \A c \in Nonces : chal[c].st = "authenticated" /\ chal[c].kind = "login" => Named(chal[c])
  /\ \A p \in Callers : call[p].at = "claim" /\ chal[call[p].of].kind = "login" => Named(call[p])

\* A login that may be completed with its key seen was confirmed by this request or, for this
\* browser, by an earlier one.
ConfirmInv ==
  \A p \in Callers :
    LET c == call[p].of IN
    /\ call[p].at \in {"confirm", "complete"} /\ chal[c].kind = "login" /\ chal[c].st = "authenticated"
    /\ wallet[chal[c].key].id = chal[c].id
    => IF call[p].at = "complete" /\ call[p].id = 0 THEN <<chal[c].by, chal[c].id>> \in marker
       ELSE call[p].id = chal[c].id

ChallengeInv == ChallengeTypeOK /\ RowInv /\ CallInv /\ SessionInv /\ WalletInv /\ ConfirmInv
=============================================================================
