----------------------------- MODULE LoginGuard -----------------------------
(***************************************************************************)
(* Password checks on one account: sign-in, the web UI's sign-in, and the   *)
(* renewed check before a deletion or an export.  Each attempt reserves a  *)
(* unit of a budget kept in Redis and gives it back unless it fails;       *)
(* failures count towards a lockout in the account's row; a backup code is *)
(* consumed there.  Attempts run concurrently on any replica, every call to *)
(* Redis or the database is a step, and sign-in leaves two writes to the    *)
(* row to goroutines that outlive it.                                      *)
(*                                                                         *)
(* The budget is the account's.  The address's works alike, but for the    *)
(* rotation of its key, and is left out, as are the row's other columns.   *)
(***************************************************************************)
EXTENDS Integers, FiniteSets

CONSTANTS
  Attempts,      \* password checks in flight
  Codes, NoCode, \* backup codes
  Budget,        \* AttemptsPerAccount
  MaxFailed,     \* MaxFailedAttempts
  MaxStarts, MaxWindows, MaxUpdates, MaxErrors   \* bounds

ASSUME AttemptAssumption == IsFiniteSet(Attempts) /\ Attempts # {} /\ NoCode \notin Codes
ASSUME BudgetAssumption ==
  /\ Budget \in Nat /\ MaxFailed \in Nat \ {0}
  /\ MaxStarts \in Nat /\ MaxWindows \in Nat /\ MaxUpdates \in Nat /\ MaxErrors \in Nat

VARIABLES
  count, window,          \* the Redis counter, and which life of it this is
  failed, locked, codes,  \* the account's row
  att,                    \* attempts
  resets, updates,        \* goroutines that will reset the counter, write the row back
  starts, errors,
  failures, strays,       \* history, this window: its units spent on failures; refunds of others
  uses, restored,         \* history: how often a code was accepted, written back
  engaged, raised         \* history, since the last reset: lockout decided; counter written back up

vars == <<count, window, failed, locked, codes, att, resets, updates, starts, errors, failures,
          strays, uses, restored, engaged, raised>>
limiterVars == <<count, window, failures, strays>>
codeVars == <<codes, uses, restored>>
lockVars == <<failed, locked, engaged, raised>>
asyncVars == <<resets, updates>>
boundVars == <<starts, errors>>

Row == [failed : Nat, locked : BOOLEAN, codes : SUBSET Codes]
NoRow == [failed |-> 0, locked |-> FALSE, codes |-> {}]
Attempt == [pc : {"idle", "begin", "refund", "read", "check", "consume", "fail", "lock", "ok",
                  "end"},
            kind : {"login", "web", "reauth"}, unit : Nat, user : Row, code : Codes \cup {NoCode}]
Idle == [pc |-> "idle", kind |-> "login", unit |-> 0, user |-> NoRow, code |-> NoCode]

TypeOK ==
  /\ count \in Nat /\ window \in Nat \ {0} /\ failures \in Nat /\ strays \in Nat
  /\ failed \in Nat /\ locked \in BOOLEAN /\ codes \subseteq Codes
  /\ att \in [Attempts -> Attempt]
  /\ resets \in Nat /\ updates \subseteq Row
  /\ starts \in Nat /\ errors \in Nat
  /\ uses \in [Codes -> Nat] /\ restored \in [Codes -> Nat]
  /\ engaged \in BOOLEAN /\ raised \in BOOLEAN

Init ==
  /\ count = 0 /\ window = 1 /\ failures = 0 /\ strays = 0
  /\ failed = 0 /\ locked = FALSE /\ codes = Codes
  /\ att = [a \in Attempts |-> Idle]
  /\ resets = 0 /\ updates = {} /\ starts = 0 /\ errors = 0
  /\ uses = [c \in Codes |-> 0] /\ restored = [c \in Codes |-> 0]
  /\ engaged = FALSE /\ raised = FALSE

row == [failed |-> failed, locked |-> locked, codes |-> codes]

-----------------------------------------------------------------------------
(* The limiter.                                                            *)

Set(a, f) == att' = [att EXCEPT ![a] = f]

\* What is left of an attempt that only has to give its unit back, or to lock.
Unit(a) == [Idle EXCEPT !.pc = "end", !.unit = att[a].unit]

\* Mutant: the counter is compared, and not raised before the attempt runs.
AllowNoReserve(a, f, next) ==
  \/ /\ Set(a, [f EXCEPT !.unit = window, !.pc = IF count < Budget THEN next ELSE "refund"])
     /\ UNCHANGED <<count, errors>>
  \/ /\ errors < MaxErrors /\ errors' = errors + 1
     /\ Set(a, [f EXCEPT !.unit = 0, !.pc = next])
     /\ count' \in {count, count + 1}

\* Allow: INCR and compare.  A backend error, before or after the INCR, lets the
\* attempt through as if it held a unit (0), which it will give back.
Allow(a, f, next) ==
  \/ /\ count' = count + 1
     /\ Set(a, [f EXCEPT !.unit = window, !.pc = IF count + 1 <= Budget THEN next ELSE "refund"])
     /\ UNCHANGED errors
  \/ /\ errors < MaxErrors /\ errors' = errors + 1
     /\ Set(a, [f EXCEPT !.unit = 0, !.pc = next])
     /\ count' \in {count, count + 1}

\* Release: never below zero.
Release(u) ==
  /\ count' = IF count > 0 THEN count - 1 ELSE 0
  /\ strays' = IF count > 0 /\ u # window THEN strays + 1 ELSE strays

\* The counter expires; the next INCR starts another.
WindowEnds ==
  /\ window < MaxWindows
  /\ window' = window + 1 /\ count' = 0 /\ failures' = 0 /\ strays' = 0
  /\ UNCHANGED <<lockVars, codeVars, att, asyncVars, boundVars>>

-----------------------------------------------------------------------------
(* An attempt.                                                             *)

\* Sign-in reserves its unit first ...
Begin(a, k) ==
  /\ att[a].pc = "idle" /\ starts < MaxStarts /\ starts' = starts + 1
  /\ Allow(a, [Idle EXCEPT !.kind = k], "read")
  /\ UNCHANGED <<window, failures, strays, lockVars, codeVars, asyncVars>>

GetUserByUsername(a) ==
  /\ att[a].pc = "read"
  /\ Set(a, [att[a] EXCEPT !.pc = "check", !.user = row])
  /\ UNCHANGED <<limiterVars, lockVars, codeVars, asyncVars, boundVars>>

\* ... reauthenticate reads the row before it does.
Reauthenticate(a) ==
  /\ att[a].pc = "idle" /\ starts < MaxStarts /\ starts' = starts + 1
  /\ Set(a, [Idle EXCEPT !.pc = "begin", !.kind = "reauth", !.user = row])
  /\ UNCHANGED <<limiterVars, lockVars, codeVars, asyncVars, errors>>

ReauthBegin(a) ==
  /\ att[a].pc = "begin" /\ Allow(a, att[a], "check")
  /\ UNCHANGED <<window, failures, strays, lockVars, codeVars, asyncVars, starts>>

\* A locked account refuses.  Otherwise the password, and with MFA a TOTP code,
\* decide; without a code the attempt ends; one of the backup codes that the row
\* had when it was read goes on to be consumed.
CheckCredentials(a) ==
  /\ att[a].pc = "check"
  /\ \/ Set(a, Unit(a))
     \/ /\ ~att[a].user.locked
        /\ \/ \E s \in {"fail", "ok"} : Set(a, [att[a] EXCEPT !.pc = s])
           \/ \E c \in att[a].user.codes : Set(a, [att[a] EXCEPT !.pc = "consume", !.code = c])
  /\ UNCHANGED <<limiterVars, lockVars, codeVars, asyncVars, boundVars>>

\* One statement that matches only a row which still has the code.  An error,
\* before or after it took effect, refuses the code.
ConsumeBackupCode(a) ==
  LET c == att[a].code
  IN  /\ att[a].pc = "consume"
      /\ \/ /\ c \in codes
            /\ codes' = codes \ {c} /\ uses' = [uses EXCEPT ![c] = @ + 1]
            /\ Set(a, [att[a] EXCEPT !.pc = "ok", !.code = NoCode, !.user.codes = @ \ {c}])
            /\ UNCHANGED errors
         \/ /\ c \notin codes
            /\ Set(a, [att[a] EXCEPT !.pc = "fail", !.code = NoCode])
            /\ UNCHANGED <<codes, uses, errors>>
         \/ /\ errors < MaxErrors /\ errors' = errors + 1
            /\ codes' \in {codes, codes \ {c}}
            /\ Set(a, [att[a] EXCEPT !.pc = "fail", !.code = NoCode])
            /\ UNCHANGED uses
      /\ UNCHANGED <<limiterVars, lockVars, restored, asyncVars, starts>>

\* Mutant: off by one.
MustLockLate(user) == user.failed >= MaxFailed

MustLock(user) == user.failed + 1 >= MaxFailed

\* Fail: the unit is kept; the row's counter is raised, or the error logged, and
\* compared as it was when the row was read.
Fail(a) ==
  /\ att[a].pc = "fail" /\ UNCHANGED starts
  /\ \/ failed' = failed + 1 /\ UNCHANGED errors
     \/ errors < MaxErrors /\ errors' = errors + 1 /\ UNCHANGED failed
  /\ failures' = IF att[a].unit = window THEN failures + 1 ELSE failures
  /\ Set(a, IF MustLock(att[a].user) THEN [Idle EXCEPT !.pc = "lock"] ELSE Idle)
  /\ engaged' = (engaged \/ MustLock(att[a].user))
  /\ UNCHANGED <<count, window, strays, locked, raised, codeVars, asyncVars>>

LockUser(a) ==
  /\ att[a].pc = "lock" /\ locked' = TRUE /\ Set(a, Idle)
  /\ UNCHANGED <<limiterVars, failed, engaged, raised, codeVars, asyncVars, boundVars>>

ResetFailedLogins ==
  failed' = 0 /\ engaged' = FALSE /\ raised' = FALSE /\ UNCHANGED locked

\* The web UI resets the counter before it goes on; sign-in leaves that and the
\* write of the whole row (for last_login_at) to goroutines.
Succeed(a) ==
  /\ att[a].pc = "ok" /\ Set(a, Unit(a))
  /\ \/ /\ att[a].kind = "login"
        /\ resets' = resets + 1 /\ updates' = updates \cup {att[a].user}
        /\ UNCHANGED lockVars
     \/ att[a].kind = "web" /\ ResetFailedLogins /\ UNCHANGED asyncVars
     \/ att[a].kind = "reauth" /\ UNCHANGED <<lockVars, asyncVars>>
  /\ UNCHANGED <<limiterVars, codeVars, boundVars>>

\* Begin's refusal and End give the unit back.
End(a) ==
  /\ att[a].pc \in {"refund", "end"} /\ Release(att[a].unit) /\ Set(a, Idle)
  /\ UNCHANGED <<window, failures, lockVars, codeVars, asyncVars, boundVars>>

\* The replica dies, or the calls fail: the unit is not given back.
Die(a) ==
  /\ att[a].pc # "idle" /\ Set(a, Idle)
  /\ UNCHANGED <<limiterVars, lockVars, codeVars, asyncVars, boundVars>>

-----------------------------------------------------------------------------
(* Other writes to the row.                                                *)

AsyncReset ==
  /\ resets > 0 /\ resets' = resets - 1 /\ ResetFailedLogins
  /\ UNCHANGED <<limiterVars, codeVars, att, updates, boundVars>>

\* Passkey and lightning sign-in, a new password or pubkey, a recovery and the end
\* of MFA also read the row and write all of it back later; a recovery ends the
\* lockout, the end of MFA drops the codes.
ReadForUpdate ==
  /\ Cardinality(updates) < MaxUpdates
  /\ \E u \in {row, [row EXCEPT !.failed = 0, !.locked = FALSE], [row EXCEPT !.codes = {}]} :
       updates' = updates \cup {u}
  /\ UNCHANGED <<limiterVars, lockVars, codeVars, att, resets, boundVars>>

UpdateUser(u) ==
  /\ updates' = updates \ {u}
  /\ failed' = u.failed /\ locked' = u.locked /\ codes' = u.codes
  /\ restored' = [c \in Codes |-> IF c \in u.codes \ codes THEN restored[c] + 1 ELSE restored[c]]
  /\ raised' = (raised \/ u.failed > failed)
  /\ UNCHANGED <<limiterVars, uses, engaged, att, resets, boundVars>>

LockExpires ==
  /\ locked /\ locked' = FALSE
  /\ UNCHANGED <<limiterVars, failed, engaged, raised, codeVars, att, asyncVars, boundVars>>

Next ==
  \/ \E a \in Attempts :
       \/ \E k \in {"login", "web"} : Begin(a, k)
       \/ GetUserByUsername(a) \/ Reauthenticate(a) \/ ReauthBegin(a) \/ CheckCredentials(a)
       \/ ConsumeBackupCode(a) \/ Fail(a) \/ LockUser(a) \/ Succeed(a) \/ End(a) \/ Die(a)
  \/ WindowEnds \/ AsyncReset \/ ReadForUpdate \/ LockExpires
  \/ \E u \in updates : UpdateUser(u)

Spec == Init /\ [][Next]_vars

-----------------------------------------------------------------------------
(* Properties.                                                             *)

\* authguard.go: "Reserving up front is atomic, so a parallel burst cannot
\* overshoot".  In the life of a counter no more than Budget of its units are
\* spent on failures, plus one for each refund of a unit that was not taken from
\* it: one taken before it began, or never.
WindowBudget == failures <= Budget + strays

\* CheckMFA: attempts that race for a backup code do not both get it.  A code is
\* accepted again only after some whole-row write has put it back.
BackupCodeSpent == \A c \in Codes : uses[c] <= 1 + restored[c]

\* Fail: the lockout is decided from a copy of the counter, so attempts that read
\* it together may pass the maximum; but it is decided at the latest when
\* they all have, unless a whole-row write has put a higher count back.
LockoutEngages ==
  ~raised /\ failed > MaxFailed - 2 + Cardinality(Attempts) => engaged

\* What the proofs need besides.  A code is in the row or has been used, once
\* more for each time it was written back.
CodeInv ==
  \A c \in Codes : uses[c] + (IF c \in codes THEN 1 ELSE 0) <= 1 + restored[c]

\* Attempts that hold a unit of this window's counter, and those of them that may
\* still spend it.
Holders == {a \in Attempts : att[a].unit = window}
Spenders == {a \in Holders : att[a].pc # "refund"}
UnitInv ==
  /\ \A a \in Attempts : att[a].unit <= window
  /\ \A a \in Attempts : att[a].pc \in {"idle", "begin"} => att[a].unit = 0
WindowInv ==
  /\ Cardinality(Holders) + failures <= count + strays
  /\ Cardinality(Spenders) + failures <= Budget + strays

\* Attempts that may count a failure and not decide on the lockout.
Low == {a \in Attempts : /\ att[a].pc \in {"begin", "check", "consume", "fail"}
                         /\ ~MustLock(att[a].user)}
LockInv ==
  ~raised /\ ~engaged => failed + Cardinality(Low) <= MaxFailed - 2 + Cardinality(Attempts)

ConsumersInv ==
  \A a \in Attempts : att[a].pc = "consume" => att[a].code \in Codes

IInv == TypeOK /\ ConsumersInv /\ CodeInv /\ UnitInv /\ WindowInv /\ LockInv
=============================================================================
