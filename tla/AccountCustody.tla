--------------------------- MODULE AccountCustody ---------------------------
(***************************************************************************)
(* One account and what its password opens: the account's row, its signing *)
(* keys, each wrapped under the password, by the user's transit key in     *)
(* Vault or by the server's key, and the Vault login, whose password must  *)
(* follow the account's.  Registration, sign-in, password change, recovery *)
(* by key, MFA and deletion are handlers of several writes each.  Every    *)
(* write of the row writes all of its columns from what the handler read.  *)
(*                                                                         *)
(* Passwords are numbered as they are chosen.  A handler's storage calls   *)
(* use the request's context: once the client has gone they all fail.      *)
(* Goroutines that a sign-in leaves behind have a context of their own.    *)
(***************************************************************************)
EXTENDS Naturals, FiniteSets

CONSTANTS
  Keys, NoKey,
  Handlers,        \* bound: the requests that run at a time,
  MaxHandled,      \* and how many are handled in all
  MaxPassword,     \* bound: the passwords that are ever chosen
  MaxCustodyFaults \* bound: failed writes, crashes and clients that leave

ASSUME CustodyAssumption == NoKey \notin Keys /\ {MaxHandled, MaxPassword, MaxCustodyFaults} \subseteq Nat

VARIABLES
  row,         \* the account's row: its password (0: no account) and MFA columns
  vault,       \* the password of the Vault login (0: none), the policy, the transit key,
               \* and whether the signer's own policy may delete transit keys
  wrap,        \* how each key's row is wrapped
  primary,     \* the key with is_primary
  retained,    \* the transit key is on the list of deletions to retry
  req,         \* the requests in progress
  begun,       \* history: how many requests there were,
  passwords,   \* how many passwords were chosen,
  committed,   \* the last one that a change or a recovery wrote,
  stranded,    \* the keys a recovery has reported as lost,
  overlapped,  \* two requests, one of them setting the password, ran at the same time,
  broken,      \* a roll-back failed, or was never reached,
  behind,      \* the Vault login did not follow the last change,
  lost,        \* the transit key's deletion failed and was not recorded
  custodyFaults

rowVars == <<row, vault, wrap, primary, retained>>
histVars == <<committed, stranded, overlapped, broken, behind, lost>>
custodyVars == <<rowVars, req, begun, passwords, histVars, custodyFaults>>

Passwords == 0..MaxPassword
NoAccount == [pw |-> 0, mfa |-> "off"]
Rows == [pw : Passwords, mfa : {"off", "setup", "on"}]

Missing == [by |-> "nothing", pw |-> 0]
Server == [by |-> "server", pw |-> 0]
Transit == [by |-> "vault", pw |-> 0]
Under(p) == [by |-> "password", pw |-> p]
Wraps == {Missing, Server, Transit} \cup {Under(p) : p \in Passwords}

Owned == {k \in Keys : wrap[k] # Missing}
PassphraseEncrypted == {k \in Keys : wrap[k].by = "password"}

Idle == [op |-> "idle", at |-> "done", snap |-> NoAccount, new |-> 0, key |-> NoKey,
         todo |-> {}, written |-> {}, gone |-> FALSE, touch |-> FALSE]

\* A request in progress: what it read, what it will write, and how far it is.
Handling ==
  [op : {"idle", "register", "change", "recover", "login", "mfa", "delete"},
   at : {"done", "provision", "key", "primary", "list", "read", "write", "restore", "vault",
         "setup", "on", "off", "login", "policy", "keys", "transit", "record"},
   snap : Rows, new : Passwords, key : Keys \cup {NoKey}, todo : SUBSET Keys, written : SUBSET Keys,
   gone : BOOLEAN, touch : BOOLEAN]

CustodyTypeOK ==
  /\ row \in Rows /\ wrap \in [Keys -> Wraps] /\ primary \in Keys \cup {NoKey}
  /\ vault \in [login : Passwords, policy : BOOLEAN, transit : BOOLEAN, mayDelete : BOOLEAN]
  /\ req \in [Handlers -> Handling]
  /\ {retained, overlapped, broken, behind, lost} \subseteq BOOLEAN
  /\ begun \in 0..MaxHandled /\ passwords \in Passwords /\ committed \in Passwords /\ stranded \subseteq Keys
  /\ custodyFaults \in 0..MaxCustodyFaults

CustodyInit ==
  /\ row = NoAccount
  /\ \E may \in BOOLEAN :
       vault = [login |-> 0, policy |-> FALSE, transit |-> FALSE, mayDelete |-> may]
  /\ wrap = [k \in Keys |-> Missing] /\ primary = NoKey
  /\ retained = FALSE
  /\ req = [h \in Handlers |-> Idle] /\ begun = 0 /\ passwords = 0
  /\ committed = 0 /\ stranded = {} /\ overlapped = FALSE /\ broken = FALSE
  /\ behind = FALSE /\ lost = FALSE /\ custodyFaults = 0

-----------------------------------------------------------------------------
(* Requests.                                                               *)

Starts(op, at, new) ==
  [Idle EXCEPT !.op = op, !.at = at, !.snap = row, !.new = new]

SetsPassword(op) == op \in {"change", "recover"}

Handled == begun < MaxHandled /\ begun' = begun + 1

Begin(h, c) ==
  /\ req[h] = Idle /\ req' = [req EXCEPT ![h] = c] /\ Handled
  /\ overlapped' = (overlapped \/ \E g \in Handlers :
                      req[g] # Idle /\ (SetsPassword(c.op) \/ SetsPassword(req[g].op)))

Become(h, c) == req' = [req EXCEPT ![h] = c] /\ UNCHANGED begun
Goto(h, at) == Become(h, [req[h] EXCEPT !.at = at])
Return(h) == Become(h, Idle)
At(h, op, at) == req[h].op = op /\ req[h].at = at

\* A write with the context of request h: it may fail, and must once the
\* client has gone.
Succeeds(h) == ~req[h].gone /\ UNCHANGED custodyFaults
Fails(h) ==
  \/ req[h].gone /\ UNCHANGED custodyFaults
  \/ ~req[h].gone /\ custodyFaults < MaxCustodyFaults /\ custodyFaults' = custodyFaults + 1

NewPassword == passwords < MaxPassword /\ passwords' = passwords + 1

\* The client closes the connection: the context of the request is cancelled.
Disconnect(h) ==
  /\ req[h] # Idle /\ req[h].op # "login" /\ ~req[h].gone
  /\ custodyFaults < MaxCustodyFaults /\ custodyFaults' = custodyFaults + 1
  /\ Become(h, [req[h] EXCEPT !.gone = TRUE])
  /\ UNCHANGED <<rowVars, passwords, histVars>>

HalfWritten(h) == req[h].written # {} /\ req[h].at \in {"write", "commit", "restore"}

\* The replica dies.
Crash(h) ==
  /\ req[h] # Idle /\ Return(h)
  /\ custodyFaults < MaxCustodyFaults /\ custodyFaults' = custodyFaults + 1
  /\ broken' = (broken \/ HalfWritten(h))
  /\ behind' = (behind \/ req[h].at = "vault")
  /\ lost' = (lost \/ (req[h].op = "delete" /\ req[h].at \in {"transit", "record"}))
  /\ UNCHANGED <<rowVars, passwords, committed, stranded, overlapped>>

-----------------------------------------------------------------------------
(* Registration: every step after the row is best effort.                  *)

handleUserRegister(h) ==
  /\ passwords = 0 /\ NewPassword /\ Begin(h, Starts("register", "provision", 1))
  /\ row' = [NoAccount EXCEPT !.pw = 1] /\ committed' = 1
  /\ UNCHANGED <<vault, wrap, primary, retained, stranded, broken, behind, lost, custodyFaults>>

CreateTransitKey(v) == [v EXCEPT !.transit = TRUE]
CreatePolicy(v) == [v EXCEPT !.policy = TRUE]
CreateUserpassAccount(v, pw) == [v EXCEPT !.login = pw]

\* Transit key, policy, login, in that order, up to the first that fails.
ProvisionUser(h) ==
  /\ At(h, "register", "provision") /\ Goto(h, "key")
  /\ \/ Succeeds(h) /\ vault' = CreateUserpassAccount(CreatePolicy(CreateTransitKey(vault)), req[h].new)
     \/ Fails(h) /\ vault' \in {vault, CreateTransitKey(vault), CreatePolicy(CreateTransitKey(vault))}
  /\ UNCHANGED <<row, wrap, primary, retained, passwords, histVars>>

createInitialSigningKey(h, k) ==
  /\ At(h, "register", "key")
  /\ \/ Succeeds(h) /\ wrap' = [wrap EXCEPT ![k] = Under(req[h].new)]
        /\ Become(h, [req[h] EXCEPT !.at = "primary", !.todo = {k}])
     \/ Fails(h) /\ UNCHANGED wrap /\ Return(h)
  /\ UNCHANGED <<row, vault, primary, retained, passwords, histVars>>

SetInitialPrimary(h) ==
  /\ At(h, "register", "primary") /\ Return(h)
  /\ \/ Succeeds(h) /\ primary' \in req[h].todo
     \/ Fails(h) /\ UNCHANGED primary
  /\ UNCHANGED <<row, vault, wrap, retained, passwords, histVars>>

\* Bound: the account is used once registration has answered.
Registered == row.pw # 0 /\ \A h \in Handlers : req[h] = Idle \/ req[h].op # "register"

-----------------------------------------------------------------------------
(* Keys.                                                                   *)

\* ListKeys and IsPrimary; without a primary key the oldest one, here any.
resolveSigningPubkey == IF primary \in Owned THEN {primary} ELSE Owned

\* A session has a Vault token only if the Vault login worked.
getUserVaultEncryptor == IF vault.login # 0 THEN {Server, Transit} ELSE {Server}

handleCreateKey(k) ==
  /\ Registered /\ Handled /\ wrap[k] = Missing
  /\ wrap' \in {[wrap EXCEPT ![k] = w] : w \in getUserVaultEncryptor}
  /\ stranded' = stranded \ {k}
  /\ UNCHANGED <<row, vault, primary, retained, req, passwords,
                 committed, overlapped, broken, behind, lost, custodyFaults>>

handleDeleteKey(k) ==
  /\ Registered /\ Handled /\ wrap[k] # Missing /\ wrap' = [wrap EXCEPT ![k] = Missing]
  /\ primary' = IF primary = k THEN NoKey ELSE primary
  /\ UNCHANGED <<row, vault, retained, req, passwords, histVars, custodyFaults>>

handleSetPrimaryKey(k) ==
  /\ Registered /\ Handled /\ k \in Owned /\ primary # k /\ primary' = k
  /\ UNCHANGED <<row, vault, wrap, retained, req, passwords, histVars, custodyFaults>>

\* decryptOwnedKey, from the stored ciphertext, with the account's password.
Opens(k, pw) ==
  CASE wrap[k].by = "password" -> wrap[k].pw = pw
    [] wrap[k].by = "vault" -> vault.login = pw
    [] OTHER -> TRUE

\* One row; it is an error when there is none.
UpdateKeyEncryption(h, k, w) ==
  Succeeds(h) /\ wrap[k] # Missing /\ wrap' = [wrap EXCEPT ![k] = w]

UpdateFails(h, k) ==
  UNCHANGED wrap /\ (Fails(h) \/ (wrap[k] = Missing /\ Succeeds(h)))

-----------------------------------------------------------------------------
(* Sign-in.  Its goroutines: the row is written back with the time of the  *)
(* sign-in, and keys under the server's key are re-wrapped.                *)

handleUserLogin(h) ==
  /\ Registered
  /\ Begin(h, [Starts("login", "list", row.pw) EXCEPT !.touch = TRUE])
  /\ UNCHANGED <<rowVars, passwords, committed, stranded, broken, behind, lost, custodyFaults>>

\* UpdateUser writes every column.
UpdateUser(r) == row.pw # 0 /\ row' = r

lastLogin(h) ==
  /\ req[h].touch /\ Become(h, [req[h] EXCEPT !.touch = FALSE])
  /\ \/ Succeeds(h) /\ UpdateUser(req[h].snap)
     \/ UNCHANGED row /\ (Fails(h) \/ (row.pw = 0 /\ Succeeds(h)))
  /\ UNCHANGED <<vault, wrap, primary, retained, passwords, histVars>>

ListLegacy(h) ==
  /\ At(h, "login", "list")
  /\ Become(h, [req[h] EXCEPT !.at = "write", !.todo = {k \in Keys : wrap[k].by = "server"}])
  /\ UNCHANGED <<rowVars, passwords, histVars, custodyFaults>>

rewrapLegacyLocalKeys(h, k) ==
  /\ At(h, "login", "write") /\ k \in req[h].todo
  /\ Become(h, [req[h] EXCEPT !.todo = @ \ {k}])
  /\ UpdateKeyEncryption(h, k, Under(req[h].new)) \/ UpdateFails(h, k)
  /\ UNCHANGED <<row, vault, primary, retained, passwords, histVars>>

LoginEnds(h) ==
  /\ At(h, "login", "write") /\ req[h].todo = {} /\ ~req[h].touch /\ Return(h)
  /\ UNCHANGED <<rowVars, passwords, histVars, custodyFaults>>

-----------------------------------------------------------------------------
(* Password change: first the keys, then the row, then Vault.              *)

handleUserChangePassword(h) ==
  /\ Registered /\ NewPassword /\ Begin(h, Starts("change", "list", passwords + 1))
  /\ UNCHANGED <<rowVars, committed, stranded, broken, behind, lost, custodyFaults>>

\* Every re-wrap is computed before any is written: one key that the old
\* password does not open ends the request.
ReWrap(h) ==
  /\ At(h, "change", "list")
  /\ IF \A k \in PassphraseEncrypted : Opens(k, req[h].snap.pw)
     THEN Succeeds(h) /\ Become(h, [req[h] EXCEPT !.at = "write", !.todo = PassphraseEncrypted])
     ELSE Succeeds(h) /\ Return(h)
  /\ UNCHANGED <<rowVars, passwords, histVars>>

ListFails(h) ==
  /\ At(h, "change", "list") /\ Fails(h) /\ Return(h)
  /\ UNCHANGED <<rowVars, passwords, histVars>>

rewrapPassphraseKeys(h, k) ==
  /\ At(h, "change", "write") /\ k \in req[h].todo
  /\ \/ /\ UpdateKeyEncryption(h, k, Under(req[h].new))
        /\ Become(h, [req[h] EXCEPT !.todo = @ \ {k}, !.written = @ \cup {k}])
     \/ UpdateFails(h, k) /\ Goto(h, "restore")
  /\ UNCHANGED <<row, vault, primary, retained, passwords, histVars>>

commitPassword(h) ==
  /\ At(h, "change", "write") /\ req[h].todo = {}
  /\ \/ /\ Succeeds(h) /\ UpdateUser([req[h].snap EXCEPT !.pw = req[h].new])
        /\ committed' = req[h].new /\ Goto(h, "vault")
     \/ /\ UNCHANGED <<row, committed>> /\ Goto(h, "restore")
        /\ Fails(h) \/ (row.pw = 0 /\ Succeeds(h))
  /\ UNCHANGED <<vault, wrap, primary, retained, passwords,
                 stranded, overlapped, broken, behind, lost>>

restoreNothing(h, k) ==
  /\ At(h, "change", "restore") /\ k \in req[h].written
  /\ Become(h, [req[h] EXCEPT !.written = @ \ {k}])
  /\ UNCHANGED <<rowVars, passwords, histVars, custodyFaults>>

\* The old ciphertext goes back, key by key; an error does not stop it.
restore(h, k) ==
  /\ At(h, "change", "restore") /\ k \in req[h].written
  /\ Become(h, [req[h] EXCEPT !.written = @ \ {k}])
  /\ \/ UpdateKeyEncryption(h, k, Under(req[h].snap.pw)) /\ UNCHANGED broken
     \/ UpdateFails(h, k) /\ broken' = (broken \/ wrap[k] # Missing)
  /\ UNCHANGED <<row, vault, primary, retained, passwords,
                 committed, stranded, overlapped, behind, lost>>

ChangeFailed(h) ==
  /\ At(h, "change", "restore") /\ req[h].written = {} /\ Return(h)
  /\ UNCHANGED <<rowVars, passwords, histVars, custodyFaults>>

resetVaultCredentialSkipped(h) ==
  /\ req[h].at = "vault" /\ Return(h)
  /\ UNCHANGED <<rowVars, passwords, histVars, custodyFaults>>

UpdateUserpassPassword(pw) == vault.login # 0 /\ vault' = [vault EXCEPT !.login = pw]

\* Vault refuses a login it does not have.  The request answers whatever
\* Vault said.
resetVaultCredential(h) ==
  /\ req[h].at = "vault" /\ Return(h)
  /\ \/ Succeeds(h) /\ UpdateUserpassPassword(req[h].new) /\ behind' = FALSE
     \/ Succeeds(h) /\ vault.login = 0 /\ UNCHANGED <<vault, behind>>
     \/ Fails(h) /\ UNCHANGED vault /\ behind' = TRUE
  /\ UNCHANGED <<row, wrap, primary, retained, passwords,
                 committed, stranded, overlapped, broken, lost>>

-----------------------------------------------------------------------------
(* Recovery by a signature of the identity key.                            *)

\* An open challenge was spent (Challenges), the account has not opted out, and
\* the proof is the identity key's.  todo: the keys that were under a password
\* when the rows were listed.
handleRecoveryComplete(h, k) ==
  /\ Registered /\ NewPassword /\ k \in resolveSigningPubkey
  /\ Begin(h, [Starts("recover", "read", passwords + 1) EXCEPT !.key = k, !.todo = PassphraseEncrypted])
  /\ UNCHANGED <<row, vault, wrap, primary, retained,
                 committed, stranded, broken, behind, lost, custodyFaults>>

GetUser(h) ==
  /\ At(h, "recover", "read")
  /\ IF row.pw = 0 \/ req[h].gone THEN Return(h)
     ELSE Become(h, [req[h] EXCEPT !.at = "write", !.snap = row])
  /\ UNCHANGED <<rowVars, passwords, histVars, custodyFaults>>

\* With the nsec in the request; without it the next step is the commit.
rewrapKeyUnderPassphrase(h) ==
  /\ At(h, "recover", "write") /\ req[h].written = {}
  /\ \/ /\ UpdateKeyEncryption(h, req[h].key, Under(req[h].new))
        /\ Become(h, [req[h] EXCEPT !.written = {req[h].key}])
        /\ stranded' = stranded \ {req[h].key}
     \/ UpdateFails(h, req[h].key) /\ Return(h) /\ UNCHANGED stranded
  /\ UNCHANGED <<row, vault, primary, retained, passwords,
                 committed, overlapped, broken, behind, lost>>

\* The answer names the keys that were found under the old password.
commitRecovery(h) ==
  /\ At(h, "recover", "write")
  /\ \/ /\ Succeeds(h) /\ UpdateUser([req[h].snap EXCEPT !.pw = req[h].new])
        /\ committed' = req[h].new /\ Goto(h, "vault") /\ UNCHANGED broken
        /\ stranded' = stranded \cup (req[h].todo \ req[h].written)
     \/ /\ UNCHANGED <<row, committed, stranded>> /\ Return(h)
        /\ Fails(h) \/ (row.pw = 0 /\ Succeeds(h))
        /\ broken' = (broken \/ req[h].written # {})
  /\ UNCHANGED <<vault, wrap, primary, retained, passwords,
                 overlapped, behind, lost>>

-----------------------------------------------------------------------------
(* MFA.                                                                    *)

\* What a request about MFA will write back, from the row it read.
MFA(h, from, to) ==
  /\ Registered /\ row.mfa \in from /\ Begin(h, Starts("mfa", to, 0))
  /\ UNCHANGED <<rowVars, passwords, committed, stranded, broken, behind, lost, custodyFaults>>

handleMFASetup(h) == MFA(h, {"off", "setup"}, "setup")
handleMFAVerify(h) == MFA(h, {"setup", "on"}, "on")
handleMFADisable(h) == MFA(h, {"on"}, "off")

saveMFA(h) ==
  /\ req[h].op = "mfa" /\ Return(h)
  /\ \/ Succeeds(h) /\ UpdateUser([req[h].snap EXCEPT !.mfa = req[h].at])
     \/ UNCHANGED row /\ (Fails(h) \/ (row.pw = 0 /\ Succeeds(h)))
  /\ UNCHANGED <<vault, wrap, primary, retained, passwords, histVars>>

-----------------------------------------------------------------------------
(* Deletion: an error ends the request, and the user asks again.           *)

handleSelfDelete(h) ==
  /\ Registered /\ Begin(h, Starts("delete", "list", 0))
  /\ UNCHANGED <<rowVars, passwords, committed, stranded, broken, behind, lost, custodyFaults>>

\* Sessions, seals, grants and consents, which other modules have.
revokeAll(h) ==
  /\ At(h, "delete", "list")
  /\ \/ Succeeds(h) /\ Become(h, [req[h] EXCEPT !.at = "login", !.todo = Owned])
     \/ Fails(h) /\ Return(h)
  /\ UNCHANGED <<rowVars, passwords, histVars>>

deleteStep(h, at, next) ==
  /\ At(h, "delete", at)
  /\ \/ Succeeds(h) /\ Goto(h, next)
     \/ Fails(h) /\ Return(h)

\* A failed step leaves its object as it was.
Deleted(h, old, new) == IF req'[h] = Idle THEN old ELSE new

DeleteUserpassAccount(h) ==
  /\ deleteStep(h, "login", "policy")
  /\ vault' = Deleted(h, vault, [vault EXCEPT !.login = 0])
  /\ UNCHANGED <<row, wrap, primary, retained, passwords, histVars>>

DeletePolicy(h) ==
  /\ deleteStep(h, "policy", "keys")
  /\ vault' = Deleted(h, vault, [vault EXCEPT !.policy = FALSE])
  /\ UNCHANGED <<row, wrap, primary, retained, passwords, histVars>>

DeleteKey(h, k) ==
  /\ At(h, "delete", "keys") /\ k \in req[h].todo
  /\ \/ /\ Succeeds(h) /\ Become(h, [req[h] EXCEPT !.todo = @ \ {k}])
        /\ wrap' = [wrap EXCEPT ![k] = Missing] /\ primary' = IF primary = k THEN NoKey ELSE primary
     \/ Fails(h) /\ Return(h) /\ UNCHANGED <<wrap, primary>>
  /\ UNCHANGED <<row, vault, retained, passwords, histVars>>

DeleteUserEarly(h) ==
  /\ At(h, "delete", "login") /\ Succeeds(h) /\ Goto(h, "transit")
  /\ row' = NoAccount /\ wrap' = [k \in Keys |-> Missing] /\ primary' = NoKey
  /\ UNCHANGED <<vault, retained, passwords, histVars>>

\* Keys that were made meanwhile go by the foreign key.
DeleteUser(h) ==
  /\ At(h, "delete", "keys") /\ req[h].todo = {}
  /\ \/ /\ Succeeds(h) /\ Goto(h, "transit")
        /\ row' = NoAccount /\ wrap' = [k \in Keys |-> Missing] /\ primary' = NoKey
     \/ Fails(h) /\ Return(h) /\ UNCHANGED <<row, wrap, primary>>
  /\ UNCHANGED <<vault, retained, passwords, histVars>>

\* Mutant: a refused deletion is logged and not written down.
DeleteTransitKeyLogged(h) ==
  /\ At(h, "delete", "transit") /\ Return(h)
  /\ \/ /\ Succeeds(h) /\ vault.mayDelete
        /\ vault' = [vault EXCEPT !.transit = FALSE] /\ retained' \in {FALSE, retained}
     \/ /\ Fails(h) \/ (Succeeds(h) /\ ~vault.mayDelete)
        /\ UNCHANGED <<vault, retained>>
  /\ UNCHANGED <<row, wrap, primary, passwords, histVars>>

\* The row is gone: Vault's refusal or a failure is written down for the sweep.
DeleteTransitKey(h) ==
  /\ At(h, "delete", "transit")
  /\ \/ /\ Succeeds(h) /\ vault.mayDelete /\ Return(h)
        /\ vault' = [vault EXCEPT !.transit = FALSE] /\ retained' \in {FALSE, retained}
     \/ /\ Fails(h) \/ (Succeeds(h) /\ ~vault.mayDelete)
        /\ Goto(h, "record") /\ UNCHANGED <<vault, retained>>
  /\ UNCHANGED <<row, wrap, primary, passwords, histVars>>

RecordRetainedDeletion(h) ==
  /\ At(h, "delete", "record") /\ Return(h)
  /\ \/ Succeeds(h) /\ retained' = TRUE /\ UNCHANGED lost
     \/ Fails(h) /\ UNCHANGED retained /\ lost' = TRUE
  /\ UNCHANGED <<row, vault, wrap, primary, passwords,
                 committed, stranded, overlapped, broken, behind>>

\* Mutant: the record is cleared whatever Vault answered.
sweepRetainedDeletionsOnce ==
  /\ retained /\ retained' = FALSE
  /\ vault' \in {vault, [vault EXCEPT !.transit = FALSE]}
  /\ UNCHANGED <<row, wrap, primary, req, begun, passwords, histVars, custodyFaults>>

\* Every hour.  While Vault refuses or fails, the deletion is recorded again;
\* once Vault has answered the record is cleared, or again later if that fails.
sweepRetainedDeletions ==
  /\ retained
  /\ \/ /\ vault.mayDelete /\ vault' = [vault EXCEPT !.transit = FALSE]
        /\ \/ retained' = FALSE /\ UNCHANGED custodyFaults
           \/ /\ custodyFaults < MaxCustodyFaults /\ custodyFaults' = custodyFaults + 1
              /\ UNCHANGED retained
     \/ /\ UNCHANGED <<vault, retained>>
        /\ \/ ~vault.mayDelete /\ UNCHANGED custodyFaults
           \/ custodyFaults < MaxCustodyFaults /\ custodyFaults' = custodyFaults + 1
  /\ UNCHANGED <<row, wrap, primary, req, begun, passwords, histVars>>

\* The operator grants or withdraws the right to delete transit keys.
changeSignerPolicy ==
  /\ vault' = [vault EXCEPT !.mayDelete = ~@]
  /\ UNCHANGED <<row, wrap, primary, retained, req, begun, passwords, histVars, custodyFaults>>

-----------------------------------------------------------------------------

CustodyNext ==
  \/ \E h \in Handlers :
       \/ Disconnect(h) \/ Crash(h)
       \/ handleUserRegister(h) \/ ProvisionUser(h) \/ SetInitialPrimary(h)
       \/ handleUserLogin(h) \/ lastLogin(h) \/ ListLegacy(h) \/ LoginEnds(h)
       \/ handleUserChangePassword(h) \/ ReWrap(h) \/ ListFails(h) \/ commitPassword(h)
       \/ ChangeFailed(h) \/ resetVaultCredential(h)
       \/ GetUser(h) \/ rewrapKeyUnderPassphrase(h) \/ commitRecovery(h)
       \/ handleMFASetup(h) \/ handleMFAVerify(h) \/ handleMFADisable(h) \/ saveMFA(h)
       \/ handleSelfDelete(h) \/ revokeAll(h) \/ DeleteUserpassAccount(h) \/ DeletePolicy(h)
       \/ DeleteUser(h) \/ DeleteTransitKey(h) \/ RecordRetainedDeletion(h)
       \/ \E k \in Keys :
            \/ createInitialSigningKey(h, k) \/ rewrapLegacyLocalKeys(h, k)
            \/ rewrapPassphraseKeys(h, k) \/ restore(h, k)
            \/ handleRecoveryComplete(h, k) \/ DeleteKey(h, k)
  \/ \E k \in Keys : handleCreateKey(k) \/ handleDeleteKey(k) \/ handleSetPrimaryKey(k)
  \/ sweepRetainedDeletions \/ changeSignerPolicy

\* The sweep's ticker fires, whatever Vault answers; a request that deletes ends.
CustodyFairness ==
  /\ WF_custodyVars(sweepRetainedDeletions)
  /\ WF_custodyVars(\E h \in Handlers : DeleteTransitKey(h) \/ RecordRetainedDeletion(h))

-----------------------------------------------------------------------------

AllIdle == \A h \in Handlers : req[h] = Idle

\* Whatever fails in a password change, a recovery or a registration, and
\* whatever happens to keys meanwhile, every key under a password is under the
\* account's, or a recovery has named it: as long as no two requests overlap of
\* which one sets the password, and no roll-back was cut off.
KeysFollowPassword ==
  AllIdle /\ ~overlapped /\ ~broken => \A k \in PassphraseEncrypted : Opens(k, row.pw) \/ k \in stranded

\* The Vault login has the account's password unless Vault refused the last
\* change: otherwise no key that Vault wraps would load at the next sign-in.
VaultFollowsPassword == AllIdle /\ ~overlapped /\ ~behind => vault.login \in {0, row.pw}

\* A deletion that fails part-way leaves no credential without its account:
\* once the row is gone there is no key, no Vault login and no policy.
NothingOutlivesAccount ==
  row.pw = 0 /\ passwords > 0 => Owned = {} /\ vault.login = 0 /\ ~vault.policy

\* While the transit key of a deleted account is still in Vault, which may refuse
\* its deletion for good, it is on record for the sweep, or a deletion is about
\* to delete or record it: no refused sweep, failed call or second deletion drops
\* it, except one whose failure could not be recorded ("the key is recorded as
\* retained by user ID and the sweep finishes it later").
TransitKeyOnRecord ==
  row.pw = 0 /\ passwords > 0 /\ vault.transit =>
    retained \/ lost \/ \E h \in Handlers : req[h].at \in {"transit", "record"}

\* Once the signer's policy lets it delete transit keys and keeps doing so, the
\* key of a deleted account goes, however often it was refused before.
TransitKeyGoes ==
  <>[](vault.mayDelete) => (row.pw = 0 /\ passwords > 0 ~> ~vault.transit \/ lost)

\* A password that a change or a recovery has set stays until the next one:
\* what ending every other sign-in is for (handleUserChangePassword).
ChangedPasswordSticks == row.pw # 0 => row.pw = committed
-----------------------------------------------------------------------------
(* What makes the first four inductive (proved in Accounts_proofs).       *)

\* Registration comes first, and alone; every other request has read a row.
StartInv ==
  /\ passwords = 0 => row.pw = 0 /\ vault.login = 0 /\ Owned = {} /\ AllIdle
  /\ \A h \in Handlers :
       /\ req[h].op = "idle" => req[h] = Idle
       /\ req[h].op = "register" =>
            /\ row.pw = req[h].new /\ row.pw # 0
            /\ \A g \in Handlers \ {h} : req[g] = Idle
       /\ req[h].op \in {"login", "mfa", "change", "recover"} => req[h].snap.pw # 0
       /\ SetsPassword(req[h].op) => req[h].new # 0
       /\ req[h].at = "vault" => SetsPassword(req[h].op)
       /\ req[h].touch => req[h].op = "login"
       /\ req[h].op = "mfa" => req[h].at \in {"setup", "on", "off"}
       /\ req[h].op = "recover" => req[h].key \in Keys

\* What a deletion has taken from Vault does not come back.
GoneInv ==
  /\ NothingOutlivesAccount
  /\ \A h \in Handlers : req[h].op = "delete" =>
       /\ req[h].at \in {"policy", "keys", "transit", "record"} => vault.login = 0
       /\ req[h].at \in {"keys", "transit", "record"} => ~vault.policy

\* While nothing overlaps a request that sets the password, every request has
\* read the password that the account has.
SnapInv ==
  ~overlapped =>
    \A h \in Handlers :
      /\ SetsPassword(req[h].op) => \A g \in Handlers \ {h} : req[g] = Idle
      /\ req[h].op \in {"login", "mfa", "change", "recover"} /\ req[h].at # "vault" /\ row.pw # 0
           => req[h].snap.pw = row.pw
      /\ req[h].op = "login" => req[h].new = req[h].snap.pw
      /\ req[h].at = "vault" => row.pw = req[h].new

VaultInv ==
  ~overlapped /\ ~behind =>
    vault.login \in {0, row.pw} \/ \E h \in Handlers : req[h].at = "vault"

\* A change and a recovery know every key that is under a password, and which
\* of them they have put under the new one.
KeysKnown(h) ==
  /\ req[h].at \in {"list", "read"} => req[h].written = {}
  /\ req[h].at = "write" \/ (req[h].op = "recover" /\ req[h].at = "read") =>
       \A k \in PassphraseEncrypted :
         IF k \in req[h].written THEN wrap[k].pw = req[h].new ELSE k \in req[h].todo

KeyInv ==
  ~overlapped /\ ~broken =>
    /\ \A h \in Handlers : SetsPassword(req[h].op) => KeysKnown(h)
    /\ \A k \in PassphraseEncrypted :
         \/ wrap[k].pw = row.pw \/ k \in stranded
         \/ \E h \in Handlers :
              SetsPassword(req[h].op) /\ req[h].at \in {"write", "restore"} /\ k \in req[h].written

\* Only a deletion that has removed the row deletes or records the transit key.
RecordInv ==
  /\ \A h \in Handlers : req[h].at \in {"transit", "record"} => req[h].op = "delete"
  /\ TransitKeyOnRecord

CustodyInv == CustodyTypeOK /\ StartInv /\ GoneInv /\ RecordInv /\ SnapInv /\ VaultInv /\ KeyInv
=============================================================================
