--------------------------- MODULE SignIn_proofs ---------------------------
(***************************************************************************)
(* Proofs about signing in.  LoginGuard: the budget of failures, single use *)
(* of backup codes and the lockout, for any number of concurrent attempts. *)
(* StaySignedIn: types, and that a key restored from a seal is under a     *)
(* lease, for any number of replicas and sessions and any deployment.      *)
(***************************************************************************)
EXTENDS LoginGuard, StaySignedIn, FiniteSetTheorems, SequenceTheorems, TLAPS


\* Adding an element to a finite set, or taking it away.
LEMMA AddRemove ==
  ASSUME NEW S, NEW a, IsFiniteSet(S)
  PROVE  /\ IsFiniteSet(S \cup {a}) /\ IsFiniteSet(S \ {a})
         /\ Cardinality(S) \in Nat
         /\ Cardinality(S \cup {a}) \in Nat /\ Cardinality(S \ {a}) \in Nat
         /\ a \notin S => Cardinality(S \cup {a}) = Cardinality(S) + 1
         /\ a \in S => Cardinality(S \ {a}) = Cardinality(S) - 1
         /\ a \in S => S \cup {a} = S
         /\ a \notin S => S \ {a} = S
<1>1. IsFiniteSet(S \cup {a}) /\ IsFiniteSet(S \ {a})
  BY FS_AddElement, FS_RemoveElement
<1> QED
  BY <1>1, FS_AddElement, FS_RemoveElement, FS_CardinalityType

\* The sets that the invariant counts are finite, and so are their successors.
LEMMA CountedFinite ==
  /\ IsFiniteSet(Holders) /\ Cardinality(Holders) \in Nat
  /\ IsFiniteSet(Spenders) /\ Cardinality(Spenders) \in Nat
  /\ Cardinality(Spenders) <= Cardinality(Holders)
  /\ IsFiniteSet(Low) /\ Cardinality(Low) \in Nat
  /\ Cardinality(Low) <= Cardinality(Attempts)
  /\ Cardinality(Attempts) \in Nat \ {0}
<1>1. Holders \subseteq Attempts /\ Spenders \subseteq Holders /\ Low \subseteq Attempts
  BY DEF Holders, Spenders, Low
<1>2. Cardinality(Attempts) \in Nat \ {0}
  BY AttemptAssumption, FS_CardinalityType, FS_EmptySet
<1> QED
  BY <1>1, <1>2, AttemptAssumption, FS_Subset, FS_CardinalityType

\* The same counts after a step: finite, and no larger than what they are drawn from.
LEMMA CountedFiniteNext ==
  /\ Cardinality(Holders') \in Nat
  /\ Cardinality(Spenders') \in Nat
  /\ Cardinality(Spenders') <= Cardinality(Holders')
  /\ Cardinality(Low') \in Nat
  /\ Cardinality(Low') <= Cardinality(Attempts)
<1>1. Holders' \subseteq Attempts /\ Spenders' \subseteq Holders' /\ Low' \subseteq Attempts
  BY DEF Holders, Spenders, Low
<1> QED
  BY <1>1, AttemptAssumption, FS_Subset, FS_CardinalityType

\* The row, an idle attempt and the rest of a finished one are what they should be.
LEMMA RecordTypes ==
  ASSUME TypeOK
  PROVE  /\ row \in Row /\ NoRow \in Row /\ Idle \in Attempt
         /\ \A a \in Attempts : att[a] \in Attempt /\ Unit(a) \in Attempt
<1>1. row \in Row /\ NoRow \in Row
  BY DEF TypeOK, row, Row, NoRow
<1>2. Idle \in Attempt
  BY <1>1 DEF Idle, Attempt
<1>3. \A a \in Attempts : att[a] \in Attempt
  BY DEF TypeOK
<1>4. \A a \in Attempts : Unit(a) \in Attempt
  BY <1>2, <1>3 DEF Unit, Attempt
<1> QED
  BY <1>1, <1>2, <1>3, <1>4

\* Whether an attempt may count a failure without deciding on the lockout.
Undecided(f) == f.pc \in {"begin", "check", "consume", "fail"} /\ ~MustLock(f.user)

\* What a step of one attempt does to the sets.
LEMMA AttemptStep ==
  ASSUME att \in [Attempts -> Attempt], NEW a \in Attempts, NEW f \in Attempt, Set(a, f)
  PROVE  /\ att' \in [Attempts -> Attempt]
         /\ att'[a] = f /\ \A b \in Attempts : b # a => att'[b] = att[b]
         /\ window' = window =>
              /\ Holders' = IF f.unit = window THEN Holders \cup {a} ELSE Holders \ {a}
              /\ Spenders' = IF f.unit = window /\ f.pc # "refund"
                               THEN Spenders \cup {a} ELSE Spenders \ {a}
         /\ Low' = IF Undecided(f) THEN Low \cup {a} ELSE Low \ {a}
<1>1. /\ att' \in [Attempts -> Attempt]
      /\ att'[a] = f /\ \A b \in Attempts : b # a => att'[b] = att[b]
  BY DEF Set
<1>2. ASSUME window' = window
      PROVE  Holders' = IF f.unit = window THEN Holders \cup {a} ELSE Holders \ {a}
  BY <1>1, <1>2 DEF Holders
<1>3. ASSUME window' = window
      PROVE  Spenders' = IF f.unit = window /\ f.pc # "refund"
                           THEN Spenders \cup {a} ELSE Spenders \ {a}
  BY <1>1, <1>3 DEF Spenders, Holders
<1>4. \A b \in Attempts : b \in Low' <=> Undecided(att'[b])
  BY DEF Low, Undecided, MustLock
<1>5. \A b \in Attempts : b \in Low <=> Undecided(att[b])
  BY DEF Low, Undecided
<1>6. Low \subseteq Attempts /\ Low' \subseteq Attempts
  BY DEF Low
<1>7. Low' = IF Undecided(f) THEN Low \cup {a} ELSE Low \ {a}
  BY <1>1, <1>4, <1>5, <1>6
<1> QED
  BY <1>1, <1>2, <1>3, <1>7
\* What Allow leaves an attempt with.
LEMMA AllowEffect ==
  ASSUME TypeOK, NEW a \in Attempts, NEW g \in Attempt, NEW n \in {"read", "check"},
         Allow(a, g, n)
  PROVE  /\ count' \in Nat /\ errors' \in Nat /\ count <= count'
         /\ \E f \in Attempt :
              /\ Set(a, f) /\ f.user = g.user
              /\ f.pc \in {n, "refund"}
              /\ \/ f.unit = 0
                 \/ /\ f.unit = window /\ count' = count + 1
                    /\ f.pc = n => count + 1 <= Budget
<1>1. CASE /\ count' = count + 1 /\ UNCHANGED errors
           /\ Set(a, [g EXCEPT !.unit = window,
                               !.pc = IF count + 1 <= Budget THEN n ELSE "refund"])
  <2> DEFINE f == [g EXCEPT !.unit = window, !.pc = IF count + 1 <= Budget THEN n ELSE "refund"]
  <2>1. /\ f \in Attempt /\ f.user = g.user /\ f.unit = window /\ f.pc \in {n, "refund"}
        /\ f.pc = n => count + 1 <= Budget
    BY DEF Attempt, TypeOK
  <2>2. Set(a, f) /\ count' = count + 1 /\ errors' = errors
    BY <1>1
  <2>3. count' \in Nat /\ errors' \in Nat /\ count <= count'
    BY <2>2 DEF TypeOK
  <2> HIDE DEF f
  <2> QED
    BY <2>1, <2>2, <2>3
<1>2. CASE /\ errors' = errors + 1 /\ count' \in {count, count + 1}
           /\ Set(a, [g EXCEPT !.unit = 0, !.pc = n])
  <2> DEFINE f == [g EXCEPT !.unit = 0, !.pc = n]
  <2>1. f \in Attempt /\ f.user = g.user /\ f.unit = 0 /\ f.pc = n
    BY DEF Attempt
  <2>2. Set(a, f)
    BY <1>2
  <2>3. count' \in Nat /\ errors' \in Nat /\ count <= count'
    BY <1>2 DEF TypeOK
  <2> HIDE DEF f
  <2> QED
    BY <2>1, <2>2, <2>3
<1> QED
  BY <1>1, <1>2 DEF Allow

\* The steps of an attempt that touch neither its unit nor the limiter: where
\* they take it, and with which copy of the row.
LEMMA MoveEffect ==
  ASSUME TypeOK, ConsumersInv, NEW a \in Attempts,
         GetUserByUsername(a) \/ CheckCredentials(a) \/ ConsumeBackupCode(a) \/ Succeed(a)
  PROVE  \E f \in Attempt :
           /\ Set(a, f) /\ f.unit = att[a].unit
           /\ f.pc \notin {"idle", "begin", "refund"}
           /\ att[a].pc \notin {"idle", "begin", "refund"}
           /\ f.pc = "consume" => f.code \in Codes
           /\ Undecided(f) => Undecided(att[a]) \/ (f.user = row /\ GetUserByUsername(a))
<1>0. att[a] \in Attempt /\ Unit(a) \in Attempt /\ row \in Row
  BY RecordTypes
<1>u. Unit(a).pc = "end" /\ Unit(a).unit = att[a].unit
  BY <1>0 DEF Unit, Idle, Attempt
<1>1. CASE GetUserByUsername(a)
  <2> DEFINE f == [att[a] EXCEPT !.pc = "check", !.user = row]
  <2>1. f \in Attempt /\ f.unit = att[a].unit /\ f.pc = "check" /\ f.user = row
    BY <1>0 DEF Attempt
  <2> QED
    BY <1>1, <2>1 DEF GetUserByUsername
<1>2. CASE CheckCredentials(a)
  <2>1. CASE Set(a, Unit(a))
    BY <1>2, <1>0, <1>u, <2>1 DEF CheckCredentials, Undecided
  <2>2. ASSUME NEW s \in {"fail", "ok"}, Set(a, [att[a] EXCEPT !.pc = s])
        PROVE  \E f \in Attempt :
                 /\ Set(a, f) /\ f.unit = att[a].unit /\ f.pc \in {"fail", "ok"}
                 /\ f.user = att[a].user
    <3> DEFINE f == [att[a] EXCEPT !.pc = s]
    <3>1. f \in Attempt /\ f.unit = att[a].unit /\ f.pc = s /\ f.user = att[a].user
      BY <1>0 DEF Attempt
    <3> QED
      BY <2>2, <3>1
  <2>3. ASSUME NEW c \in att[a].user.codes,
               Set(a, [att[a] EXCEPT !.pc = "consume", !.code = c])
        PROVE  \E f \in Attempt :
                 /\ Set(a, f) /\ f.unit = att[a].unit /\ f.pc = "consume" /\ f.code \in Codes
                 /\ f.user = att[a].user
    <3> DEFINE f == [att[a] EXCEPT !.pc = "consume", !.code = c]
    <3>0. c \in Codes
      BY <1>0, <2>3 DEF Attempt, Row
    <3>1. /\ f \in Attempt /\ f.unit = att[a].unit /\ f.pc = "consume" /\ f.code = c
          /\ f.user = att[a].user
      BY <1>0, <3>0 DEF Attempt
    <3> QED
      BY <2>3, <3>0, <3>1
  <2>4. att[a].pc = "check"
    BY <1>2 DEF CheckCredentials
  <2> QED
    BY <1>2, <2>1, <2>2, <2>3, <2>4 DEF CheckCredentials, Undecided
<1>3. CASE ConsumeBackupCode(a)
  <2> DEFINE c == att[a].code
             good == [att[a] EXCEPT !.pc = "ok", !.code = NoCode, !.user.codes = @ \ {c}]
             bad == [att[a] EXCEPT !.pc = "fail", !.code = NoCode]
  <2>1. bad \in Attempt /\ bad.unit = att[a].unit /\ bad.pc = "fail" /\ bad.user = att[a].user
    BY <1>0 DEF Attempt
  <2>2. good \in Attempt /\ good.unit = att[a].unit /\ good.pc = "ok"
    <3>1. [att[a].user EXCEPT !.codes = @ \ {c}] \in Row
      BY <1>0 DEF Attempt, Row
    <3> QED
      BY <1>0, <3>1 DEF Attempt
  <2>3. att[a].pc = "consume" /\ (Set(a, good) \/ Set(a, bad))
    BY <1>3 DEF ConsumeBackupCode
  <2> QED
    BY <2>1, <2>2, <2>3 DEF Undecided
<1>4. CASE Succeed(a)
  BY <1>4, <1>0, <1>u DEF Succeed, Undecided
<1> QED
  BY <1>1, <1>2, <1>3, <1>4
\* Sign-in starts, or re-authentication reserves its unit.
LEMMA ReserveEffect ==
  ASSUME TypeOK, UnitInv, NEW a \in Attempts,
         (\E k \in {"login", "web"} : Begin(a, k)) \/ ReauthBegin(a)
  PROVE  /\ count' \in Nat /\ errors' \in Nat /\ count <= count'
         /\ att[a].unit = 0
         /\ \E f \in Attempt :
              /\ Set(a, f) /\ f.pc \in {"read", "check", "refund"}
              /\ Undecided(f) => Undecided(att[a])
              /\ \/ f.unit = 0
                 \/ /\ f.unit = window /\ count' = count + 1
                    /\ f.pc # "refund" => count + 1 <= Budget
<1>1. ASSUME NEW k \in {"login", "web"}, Begin(a, k)
      PROVE  /\ count' \in Nat /\ errors' \in Nat /\ count <= count' /\ att[a].unit = 0
             /\ \E f \in Attempt :
                  /\ Set(a, f) /\ f.pc \in {"read", "refund"}
                  /\ \/ f.unit = 0
                     \/ /\ f.unit = window /\ count' = count + 1
                        /\ f.pc = "read" => count + 1 <= Budget
  <2> DEFINE g == [Idle EXCEPT !.kind = k]
  <2>1. g \in Attempt
    BY RecordTypes DEF Attempt
  <2>2. Allow(a, g, "read") /\ att[a].unit = 0
    BY <1>1 DEF Begin, UnitInv
  <2> HIDE DEF g
  <2> QED
    BY <2>1, <2>2, AllowEffect
<1>2. ASSUME ReauthBegin(a)
      PROVE  /\ count' \in Nat /\ errors' \in Nat /\ count <= count' /\ att[a].unit = 0
             /\ att[a].pc = "begin"
             /\ \E f \in Attempt :
                  /\ Set(a, f) /\ f.pc \in {"check", "refund"} /\ f.user = att[a].user
                  /\ \/ f.unit = 0
                     \/ /\ f.unit = window /\ count' = count + 1
                        /\ f.pc = "check" => count + 1 <= Budget
  <2>1. att[a] \in Attempt
    BY RecordTypes
  <2>2. Allow(a, att[a], "check") /\ att[a].unit = 0 /\ att[a].pc = "begin"
    BY <1>2 DEF ReauthBegin, UnitInv
  <2> QED
    BY <2>1, <2>2, AllowEffect
<1>3. CASE \E k \in {"login", "web"} : Begin(a, k)
  BY <1>1, <1>3 DEF Undecided
<1>4. CASE ReauthBegin(a)
  BY <1>2, <1>4 DEF Undecided
<1> QED
  BY <1>3, <1>4

\* Re-authentication reads the row.
LEMMA ReauthenticateEffect ==
  ASSUME TypeOK, UnitInv, NEW a \in Attempts, Reauthenticate(a)
  PROVE  /\ att[a].unit = 0
         /\ \E f \in Attempt : Set(a, f) /\ f.pc = "begin" /\ f.unit = 0 /\ f.user = row
<1> DEFINE f == [Idle EXCEPT !.pc = "begin", !.kind = "reauth", !.user = row]
<1>1. f \in Attempt /\ f.pc = "begin" /\ f.unit = 0 /\ f.user = row
  BY RecordTypes DEF Attempt, Idle
<1>2. Set(a, f) /\ att[a].unit = 0
  BY DEF Reauthenticate, UnitInv
<1> HIDE DEF f
<1> QED
  BY <1>1, <1>2

\* The steps after which an attempt has no unit any more.
LEMMA LeaveEffect ==
  ASSUME TypeOK, NEW a \in Attempts, Fail(a) \/ LockUser(a) \/ End(a) \/ Die(a)
  PROVE  \E f \in Attempt : Set(a, f) /\ f.pc \in {"idle", "lock"} /\ f.unit = 0
<1>1. Idle \in Attempt /\ Idle.pc = "idle" /\ Idle.unit = 0
  BY RecordTypes DEF Idle
<1> DEFINE f == [Idle EXCEPT !.pc = "lock"]
<1>2. f \in Attempt /\ f.pc = "lock" /\ f.unit = 0
  BY <1>1 DEF Attempt
<1>3. Set(a, Idle) \/ Set(a, f)
  BY DEF Fail, LockUser, End, Die
<1> HIDE DEF f
<1> QED
  BY <1>1, <1>2, <1>3

\* The steps of attempts.
Step(a) ==
  \/ \E k \in {"login", "web"} : Begin(a, k)
  \/ ReauthBegin(a) \/ Reauthenticate(a)
  \/ GetUserByUsername(a) \/ CheckCredentials(a) \/ ConsumeBackupCode(a) \/ Succeed(a)
  \/ Fail(a) \/ LockUser(a) \/ End(a) \/ Die(a)

\* All steps.
LEMMA NextCases ==
  ASSUME [Next]_vars
  PROVE  \/ \E a \in Attempts : Step(a)
         \/ WindowEnds \/ AsyncReset \/ ReadForUpdate \/ LockExpires
         \/ \E u \in updates : UpdateUser(u)
         \/ UNCHANGED vars
BY DEF Next, Step

\* Attempts keep their type, and one that is about to consume names its code.
LEMMA AttemptTypes ==
  ASSUME IInv, [Next]_vars
  PROVE  att' \in [Attempts -> Attempt] /\ ConsumersInv'
<1> USE DEF IInv
<1>0. att \in [Attempts -> Attempt]
  BY DEF TypeOK
<1>1. ASSUME NEW a \in Attempts, NEW f \in Attempt, Set(a, f),
             f.pc = "consume" => f.code \in Codes
      PROVE  att' \in [Attempts -> Attempt] /\ ConsumersInv'
  BY <1>0, <1>1, AttemptStep DEF ConsumersInv
<1>2. ASSUME NEW a \in Attempts, Step(a)
      PROVE  \E f \in Attempt : Set(a, f) /\ (f.pc = "consume" => f.code \in Codes)
  BY <1>2, ReserveEffect, ReauthenticateEffect, MoveEffect, LeaveEffect DEF Step
<1>3. CASE UNCHANGED att
  BY <1>0, <1>3 DEF ConsumersInv
<1>4. CASE WindowEnds \/ AsyncReset \/ ReadForUpdate \/ LockExpires
           \/ (\E u \in updates : UpdateUser(u)) \/ UNCHANGED vars
  BY <1>3, <1>4 DEF WindowEnds, AsyncReset, ReadForUpdate, LockExpires, UpdateUser, vars
<1> QED
  BY <1>1, <1>2, <1>4, NextCases
\* Every step keeps the types.
LEMMA TypesStep == IInv /\ [Next]_vars => TypeOK'
<1> SUFFICES ASSUME IInv, [Next]_vars PROVE TypeOK'
  OBVIOUS
<1> USE DEF IInv
<1>0. att' \in [Attempts -> Attempt]
  BY AttemptTypes
<1>1. ASSUME NEW a \in Attempts, Step(a) PROVE TypeOK'
  <2>1. CASE (\E k \in {"login", "web"} : Begin(a, k)) \/ ReauthBegin(a)
    <3>1. count' \in Nat /\ errors' \in Nat
      BY <2>1, ReserveEffect
    <3> QED
      BY <1>0, <2>1, <3>1 DEF TypeOK, Begin, ReauthBegin, lockVars, codeVars, asyncVars
  <2>2. CASE Reauthenticate(a)
    BY <1>0, <2>2 DEF TypeOK, Reauthenticate, limiterVars, lockVars, codeVars, asyncVars
  <2>3. CASE GetUserByUsername(a) \/ CheckCredentials(a) \/ Die(a)
    BY <1>0, <2>3 DEF TypeOK, GetUserByUsername, CheckCredentials, Die, limiterVars, lockVars,
       codeVars, asyncVars, boundVars
  <2>4. CASE ConsumeBackupCode(a)
    <3>1. att[a].code \in Codes
      BY <2>4 DEF ConsumeBackupCode, ConsumersInv
    <3>2. codes' \subseteq Codes /\ uses' \in [Codes -> Nat] /\ errors' \in Nat
      BY <2>4, <3>1 DEF TypeOK, ConsumeBackupCode, boundVars
    <3> QED
      BY <1>0, <2>4, <3>2 DEF TypeOK, ConsumeBackupCode, limiterVars, lockVars, asyncVars
  <2>5. CASE Succeed(a)
    <3>1. att[a].user \in Row
      BY RecordTypes DEF Attempt
    <3>2. resets' \in Nat /\ updates' \subseteq Row /\ failed' \in Nat
      BY <2>5, <3>1 DEF TypeOK, Succeed, ResetFailedLogins, lockVars, asyncVars
    <3>3. engaged' \in BOOLEAN /\ raised' \in BOOLEAN /\ locked' \in BOOLEAN
      BY <2>5 DEF TypeOK, Succeed, ResetFailedLogins, lockVars
    <3> QED
      BY <1>0, <2>5, <3>2, <3>3 DEF TypeOK, Succeed, limiterVars, codeVars, boundVars
  <2>6. CASE Fail(a)
    <3>1. engaged' \in BOOLEAN
      BY <2>6 DEF TypeOK, Fail, MustLock
    <3>2. failed' \in Nat /\ failures' \in Nat /\ errors' \in Nat
      BY <2>6 DEF TypeOK, Fail
    <3> QED
      BY <1>0, <2>6, <3>1, <3>2 DEF TypeOK, Fail, codeVars, asyncVars
  <2>7. CASE LockUser(a)
    BY <1>0, <2>7 DEF TypeOK, LockUser, limiterVars, codeVars, asyncVars, boundVars
  <2>8. CASE End(a)
    BY <1>0, <2>8 DEF TypeOK, End, Release, lockVars, codeVars, asyncVars, boundVars
  <2> QED
    BY <1>1, <2>1, <2>2, <2>3, <2>4, <2>5, <2>6, <2>7, <2>8 DEF Step
<1>2. CASE WindowEnds
  BY <1>2 DEF TypeOK, WindowEnds, lockVars, codeVars, asyncVars, boundVars
<1>3. CASE AsyncReset
  <2>1. resets' \in Nat /\ failed' \in Nat
    BY <1>3 DEF TypeOK, AsyncReset, ResetFailedLogins
  <2>2. engaged' \in BOOLEAN /\ raised' \in BOOLEAN /\ locked' \in BOOLEAN
    BY <1>3 DEF TypeOK, AsyncReset, ResetFailedLogins
  <2> QED
    BY <1>3, <2>1, <2>2 DEF TypeOK, AsyncReset, limiterVars, codeVars, boundVars
<1>4. CASE ReadForUpdate
  <2>0. row \in Row
    BY RecordTypes
  <2>1. [row EXCEPT !.failed = 0, !.locked = FALSE] \in Row /\ [row EXCEPT !.codes = {}] \in Row
    BY <2>0 DEF Row
  <2>2. updates' \subseteq Row
    BY <1>4, <2>0, <2>1 DEF TypeOK, ReadForUpdate
  <2> QED
    BY <1>4, <2>2 DEF TypeOK, ReadForUpdate, limiterVars, lockVars, codeVars, boundVars
<1>5. CASE LockExpires
  BY <1>5 DEF TypeOK, LockExpires, limiterVars, codeVars, asyncVars, boundVars
<1>6. ASSUME NEW u \in updates, UpdateUser(u) PROVE TypeOK'
  <2>1. u \in Row /\ u.failed \in Nat /\ u.locked \in BOOLEAN /\ u.codes \subseteq Codes
    BY DEF TypeOK, Row
  <2>2. restored' \in [Codes -> Nat]
    BY <1>6 DEF TypeOK, UpdateUser
  <2>3. raised' \in BOOLEAN
    BY <1>6 DEF TypeOK, UpdateUser
  <2> QED
    BY <1>6, <2>1, <2>2, <2>3 DEF TypeOK, UpdateUser, limiterVars, boundVars
<1>7. CASE UNCHANGED vars
  BY <1>7 DEF TypeOK, vars
<1> QED
  BY <1>1, <1>2, <1>3, <1>4, <1>5, <1>6, <1>7, NextCases

\* Only a consumption and a whole-row write touch the codes, and both keep the
\* account of their uses.
LEMMA CodesStep == IInv /\ [Next]_vars => CodeInv'
<1> SUFFICES ASSUME IInv, [Next]_vars PROVE CodeInv'
  OBVIOUS
<1> USE DEF IInv
<1>1. CASE UNCHANGED codeVars
  BY <1>1 DEF CodeInv, codeVars
<1>2. ASSUME NEW a \in Attempts, ConsumeBackupCode(a) PROVE CodeInv'
  <2>1. att[a].code \in Codes
    BY <1>2 DEF ConsumeBackupCode, ConsumersInv
  <2>2. restored' = restored
    BY <1>2 DEF ConsumeBackupCode
  <2>3. CASE /\ att[a].code \in codes /\ codes' = codes \ {att[a].code}
             /\ uses' = [uses EXCEPT ![att[a].code] = @ + 1]
    BY <2>1, <2>2, <2>3 DEF CodeInv, TypeOK
  <2>4. CASE uses' = uses /\ codes' \subseteq codes
    BY <2>2, <2>4 DEF CodeInv, TypeOK
  <2> QED
    BY <1>2, <2>3, <2>4 DEF ConsumeBackupCode
<1>3. ASSUME NEW u \in updates, UpdateUser(u) PROVE CodeInv'
  BY <1>3 DEF UpdateUser, CodeInv, TypeOK
<1>4. ASSUME NEW a \in Attempts, Step(a) PROVE CodeInv'
  BY <1>1, <1>2, <1>4 DEF Step, Begin, ReauthBegin, Reauthenticate, GetUserByUsername,
     CheckCredentials, Succeed, Fail, LockUser, End, Die
<1>5. CASE WindowEnds \/ AsyncReset \/ ReadForUpdate \/ LockExpires \/ UNCHANGED vars
  BY <1>1, <1>5 DEF WindowEnds, AsyncReset, ReadForUpdate, LockExpires, vars, codeVars
<1> QED
  BY <1>3, <1>4, <1>5, NextCases
\* Units come from this window or an earlier one.
LEMMA UnitsStep == IInv /\ [Next]_vars => UnitInv'
<1> SUFFICES ASSUME IInv, [Next]_vars PROVE UnitInv'
  OBVIOUS
<1> USE DEF IInv
<1>0. att \in [Attempts -> Attempt] /\ window \in Nat \ {0}
  BY DEF TypeOK
<1>1. ASSUME NEW a \in Attempts, NEW f \in Attempt, Set(a, f), window' = window,
             f.unit = 0 \/ f.unit = window \/ f.unit = att[a].unit,
             f.pc \in {"idle", "begin"} => f.unit = 0
      PROVE  UnitInv'
  BY <1>0, <1>1, AttemptStep DEF UnitInv
<1>2. ASSUME NEW a \in Attempts, Step(a)
      PROVE  \E f \in Attempt :
               /\ Set(a, f) /\ (f.unit = 0 \/ f.unit = window \/ f.unit = att[a].unit)
               /\ f.pc \in {"idle", "begin"} => f.unit = 0
  BY <1>2, ReserveEffect, ReauthenticateEffect, MoveEffect, LeaveEffect DEF Step
<1>3. ASSUME NEW a \in Attempts, Step(a) PROVE window' = window
  BY <1>3 DEF Step, Begin, ReauthBegin, Reauthenticate, GetUserByUsername, CheckCredentials,
     ConsumeBackupCode, Succeed, Fail, LockUser, End, Die, limiterVars
<1>4. CASE UNCHANGED <<att, window>>
  BY <1>4 DEF UnitInv
<1>5. CASE WindowEnds
  <2>1. \A a \in Attempts : att[a].unit \in Nat
    BY <1>0 DEF Attempt
  <2> QED
    BY <1>0, <1>5, <2>1 DEF WindowEnds, UnitInv
<1>6. CASE AsyncReset \/ ReadForUpdate \/ LockExpires \/ (\E u \in updates : UpdateUser(u))
           \/ UNCHANGED vars
  BY <1>4, <1>6 DEF AsyncReset, ReadForUpdate, LockExpires, UpdateUser, vars, limiterVars
<1> QED
  BY <1>1, <1>2, <1>3, <1>5, <1>6, NextCases

\* The counter covers the units held and spent, and those that may still be
\* spent fit the budget.
LEMMA WindowStep == IInv /\ [Next]_vars => WindowInv'
<1> SUFFICES ASSUME IInv, [Next]_vars PROVE WindowInv'
  OBVIOUS
<1> USE DEF IInv
<1>0. /\ att \in [Attempts -> Attempt] /\ window \in Nat \ {0}
      /\ count \in Nat /\ failures \in Nat /\ strays \in Nat /\ Budget \in Nat
  BY BudgetAssumption DEF TypeOK
<1>f. /\ IsFiniteSet(Holders) /\ Cardinality(Holders) \in Nat
      /\ IsFiniteSet(Spenders) /\ Cardinality(Spenders) \in Nat
  BY CountedFinite
<1>n. /\ Cardinality(Holders') \in Nat /\ Cardinality(Spenders') \in Nat
      /\ Cardinality(Spenders') <= Cardinality(Holders')
  BY CountedFiniteNext
<1>1. CASE UNCHANGED <<att, window, count, failures, strays>>
  <2>1. Holders' = Holders /\ Spenders' = Spenders
    BY <1>1 DEF Holders, Spenders
  <2> QED
    BY <1>1, <2>1 DEF WindowInv
<1>2. ASSUME NEW a \in Attempts,
             (\E k \in {"login", "web"} : Begin(a, k)) \/ ReauthBegin(a)
      PROVE  WindowInv'
  <2>1. /\ count' \in Nat /\ count <= count' /\ att[a].unit = 0
        /\ window' = window /\ failures' = failures /\ strays' = strays
    BY <1>2, ReserveEffect DEF Begin, ReauthBegin
  <2>2. PICK f \in Attempt :
          /\ Set(a, f)
          /\ \/ f.unit = 0
             \/ /\ f.unit = window /\ count' = count + 1
                /\ f.pc # "refund" => count + 1 <= Budget
    BY <1>2, ReserveEffect
  <2>3. a \notin Holders /\ a \notin Spenders
    BY <1>0, <2>1 DEF Holders, Spenders
  <2>4. CASE f.unit = 0
    <3>1. Holders' = Holders \ {a} /\ Spenders' = Spenders \ {a}
      BY <1>0, <2>1, <2>2, <2>4, AttemptStep
    <3>2. Holders' = Holders /\ Spenders' = Spenders
      BY <2>3, <3>1
    <3> QED
      BY <1>0, <1>f, <2>1, <3>2 DEF WindowInv
  <2>5. CASE f.unit = window /\ count' = count + 1 /\ (f.pc # "refund" => count + 1 <= Budget)
    <3>1. Holders' = Holders \cup {a}
      BY <1>0, <2>1, <2>2, <2>5, AttemptStep
    <3>2. Cardinality(Holders') = Cardinality(Holders) + 1
      BY <1>f, <2>3, <3>1, AddRemove
    <3>3. Cardinality(Holders') + failures' <= count' + strays'
      BY <1>0, <1>f, <2>1, <2>5, <3>2 DEF WindowInv
    <3>4. CASE f.pc = "refund"
      <4>0. Spenders' = Spenders \ {a}
        BY <1>0, <2>1, <2>2, <3>4, AttemptStep
      <4>1. Spenders' = Spenders
        BY <2>3, <4>0
      <4> QED
        BY <2>1, <3>3, <4>1 DEF WindowInv
    <3>5. CASE f.pc # "refund"
      BY <1>0, <1>n, <2>1, <2>5, <3>3, <3>5 DEF WindowInv
    <3> QED
      BY <3>4, <3>5
  <2> QED
    BY <2>2, <2>4, <2>5
<1>3. ASSUME NEW a \in Attempts, Reauthenticate(a) PROVE WindowInv'
  <2>1. UNCHANGED <<window, count, failures, strays>> /\ att[a].unit = 0
    BY <1>3, ReauthenticateEffect DEF Reauthenticate, limiterVars
  <2>2. PICK f \in Attempt : Set(a, f) /\ f.unit = 0
    BY <1>3, ReauthenticateEffect
  <2>3. Holders' = Holders \ {a} /\ Spenders' = Spenders \ {a}
    BY <1>0, <2>1, <2>2, AttemptStep
  <2>4. a \notin Holders /\ a \notin Spenders
    BY <1>0, <2>1 DEF Holders, Spenders
  <2>5. Holders' = Holders /\ Spenders' = Spenders
    BY <2>3, <2>4
  <2> QED
    BY <2>1, <2>5 DEF WindowInv
<1>4. ASSUME NEW a \in Attempts,
             GetUserByUsername(a) \/ CheckCredentials(a) \/ ConsumeBackupCode(a) \/ Succeed(a)
      PROVE  WindowInv'
  <2>1. UNCHANGED <<window, count, failures, strays>>
    BY <1>4 DEF GetUserByUsername, CheckCredentials, ConsumeBackupCode, Succeed, limiterVars
  <2>2. PICK f \in Attempt :
          Set(a, f) /\ f.unit = att[a].unit /\ f.pc # "refund" /\ att[a].pc # "refund"
    BY <1>4, MoveEffect
  <2>3. Holders' = Holders
    BY <1>0, <2>1, <2>2, AttemptStep DEF Holders
  <2>4. Spenders' = Spenders
    BY <1>0, <2>1, <2>2, AttemptStep DEF Spenders, Holders
  <2> QED
    BY <2>1, <2>3, <2>4 DEF WindowInv
<1>5. ASSUME NEW a \in Attempts, Fail(a) \/ LockUser(a) \/ End(a) \/ Die(a) PROVE WindowInv'
  <2>1. window' = window
    BY <1>5 DEF Fail, LockUser, End, Die, limiterVars
  <2>2. PICK f \in Attempt : Set(a, f) /\ f.unit = 0
    BY <1>5, LeaveEffect
  <2>3. Holders' = Holders \ {a} /\ Spenders' = Spenders \ {a}
    BY <1>0, <2>1, <2>2, AttemptStep
  <2>4. /\ a \in Holders => Cardinality(Holders') = Cardinality(Holders) - 1
        /\ a \notin Holders => Cardinality(Holders') = Cardinality(Holders)
        /\ a \in Spenders => Cardinality(Spenders') = Cardinality(Spenders) - 1
        /\ a \notin Spenders => Cardinality(Spenders') = Cardinality(Spenders)
    BY <1>f, <2>3, AddRemove
  <2>5. a \in Holders <=> att[a].unit = window
    BY DEF Holders
  <2>6. CASE Fail(a)
    <3>1. a \in Spenders <=> att[a].unit = window
      BY <2>6 DEF Spenders, Holders, Fail
    <3>2. /\ count' = count /\ strays' = strays
          /\ failures' = IF att[a].unit = window THEN failures + 1 ELSE failures
      BY <2>6 DEF Fail
    <3> QED
      BY <1>0, <1>f, <2>4, <2>5, <3>1, <3>2 DEF WindowInv
  <2>7. CASE LockUser(a) \/ Die(a)
    <3>1. UNCHANGED <<count, failures, strays>>
      BY <2>7 DEF LockUser, Die, limiterVars
    <3> QED
      BY <1>0, <1>f, <2>4, <3>1 DEF WindowInv
  <2>8. CASE End(a)
    <3>1. /\ failures' = failures
          /\ count' = IF count > 0 THEN count - 1 ELSE 0
          /\ strays' = IF count > 0 /\ att[a].unit # window THEN strays + 1 ELSE strays
      BY <2>8 DEF End, Release
    <3> QED
      BY <1>0, <1>f, <2>4, <2>5, <3>1 DEF WindowInv
  <2> QED
    BY <1>5, <2>6, <2>7, <2>8
<1>6. CASE WindowEnds
  <2>1. Holders' = {} /\ Spenders' = {}
    <3>1. \A a \in Attempts : att[a].unit \in Nat
      BY <1>0 DEF Attempt
    <3> QED
      BY <1>0, <1>6, <3>1 DEF WindowEnds, Holders, Spenders, UnitInv
  <2>2. Cardinality(Holders') = 0 /\ Cardinality(Spenders') = 0
    BY <2>1, FS_EmptySet
  <2> QED
    BY <1>0, <1>6, <2>2 DEF WindowEnds, WindowInv
<1>7. CASE AsyncReset \/ ReadForUpdate \/ LockExpires \/ (\E u \in updates : UpdateUser(u))
           \/ UNCHANGED vars
  BY <1>1, <1>7 DEF AsyncReset, ReadForUpdate, LockExpires, UpdateUser, vars, limiterVars
<1> QED
  BY <1>2, <1>3, <1>4, <1>5, <1>6, <1>7, NextCases DEF Step
\* Until the lockout is decided the counter leaves room for every attempt that
\* may still count without deciding on it.
LEMMA LockStep == IInv /\ [Next]_vars => LockInv'
<1> SUFFICES ASSUME IInv, [Next]_vars, ~raised', ~engaged'
             PROVE  failed' + Cardinality(Low') <= MaxFailed - 2 + Cardinality(Attempts)
  BY DEF LockInv
<1> USE DEF IInv
<1>0. /\ att \in [Attempts -> Attempt] /\ failed \in Nat /\ MaxFailed \in Nat \ {0}
      /\ raised \in BOOLEAN /\ engaged \in BOOLEAN
  BY BudgetAssumption DEF TypeOK
<1>f. /\ IsFiniteSet(Low) /\ Cardinality(Low) \in Nat /\ Cardinality(Attempts) \in Nat \ {0}
      /\ Cardinality(Low) <= Cardinality(Attempts)
      /\ Cardinality(Low') \in Nat /\ Cardinality(Low') <= Cardinality(Attempts)
  BY CountedFinite, CountedFiniteNext
<1>1. ASSUME ~raised, ~engaged, failed' \in Nat, failed' <= failed,
             Cardinality(Low') <= Cardinality(Low)
      PROVE  failed' + Cardinality(Low') <= MaxFailed - 2 + Cardinality(Attempts)
  <2>1. failed + Cardinality(Low) <= MaxFailed - 2 + Cardinality(Attempts)
    BY <1>1 DEF LockInv
  <2> QED
    BY <1>0, <1>1, <1>f, <2>1
<1>2. ASSUME NEW a \in Attempts, NEW f \in Attempt, Set(a, f), Undecided(f) => Undecided(att[a])
      PROVE  Low' \subseteq Low /\ Cardinality(Low') <= Cardinality(Low)
  <2>1. Low' = IF Undecided(f) THEN Low \cup {a} ELSE Low \ {a}
    BY <1>0, <1>2, AttemptStep
  <2>2. Undecided(att[a]) => a \in Low
    BY DEF Undecided, Low
  <2>3. Low' \subseteq Low
    BY <1>2, <2>1, <2>2
  <2> QED
    BY <1>f, <2>3, FS_Subset
\* A reset: with a maximum of one nobody counts without deciding.
<1>3. ASSUME failed' = 0
      PROVE  failed' + Cardinality(Low') <= MaxFailed - 2 + Cardinality(Attempts)
  <2>1. CASE MaxFailed = 1
    <3>1. \A a \in Attempts : att'[a].user.failed \in Nat
      BY AttemptTypes DEF Attempt, Row
    <3>2. Low' = {}
      BY <2>1, <3>1 DEF Low, MustLock
    <3>3. Cardinality(Low') = 0
      BY <3>2, FS_EmptySet
    <3> QED
      BY <1>0, <1>3, <1>f, <2>1, <3>3
  <2>2. CASE MaxFailed # 1
    BY <1>0, <1>3, <1>f, <2>2
  <2> QED
    BY <2>1, <2>2
\* A copy of the row is taken.
<1>4. ASSUME NEW a \in Attempts, NEW f \in Attempt, Set(a, f), f.user = row, Undecided(f),
             failed' = failed
      PROVE  failed' + Cardinality(Low') <= MaxFailed - 2 + Cardinality(Attempts)
  <2>1. failed + 1 < MaxFailed
    BY <1>0, <1>4 DEF Undecided, MustLock, row
  <2> QED
    BY <1>0, <1>4, <1>f, <2>1
<1>5. ASSUME NEW a \in Attempts, Step(a), UNCHANGED lockVars
      PROVE  failed' + Cardinality(Low') <= MaxFailed - 2 + Cardinality(Attempts)
  <2>1. ~raised /\ ~engaged /\ failed' = failed
    BY <1>5 DEF lockVars
  <2>2. ~Fail(a) => \E f \in Attempt :
          Set(a, f) /\ (Undecided(f) => Undecided(att[a]) \/ f.user = row)
    <3>1. CASE LockUser(a) \/ End(a) \/ Die(a)
      BY <3>1, LeaveEffect DEF Undecided
    <3>2. CASE (\E k \in {"login", "web"} : Begin(a, k)) \/ ReauthBegin(a)
      BY <3>2, ReserveEffect
    <3>3. CASE Reauthenticate(a)
      BY <3>3, ReauthenticateEffect
    <3>4. CASE GetUserByUsername(a) \/ CheckCredentials(a) \/ ConsumeBackupCode(a) \/ Succeed(a)
      BY <3>4, MoveEffect
    <3> QED
      BY <1>5, <3>1, <3>2, <3>3, <3>4 DEF Step
  <2>3. Fail(a) => \E f \in Attempt : Set(a, f) /\ (Undecided(f) => Undecided(att[a]))
    BY LeaveEffect DEF Undecided
  <2> QED
    BY <1>0, <1>1, <1>2, <1>4, <2>1, <2>2, <2>3
\* A failure either decides on the lockout or takes the place of an attempt in Low.
<1>6. ASSUME NEW a \in Attempts, Fail(a)
      PROVE  failed' + Cardinality(Low') <= MaxFailed - 2 + Cardinality(Attempts)
  <2>1. ~raised /\ ~engaged /\ ~MustLock(att[a].user) /\ failed' \in {failed, failed + 1}
    BY <1>6 DEF Fail
  <2>2. a \in Low
    BY <1>6, <2>1 DEF Low, Fail
  <2>3. Low' = Low \ {a}
    <3>1. PICK f \in Attempt : Set(a, f) /\ f.pc \in {"idle", "lock"}
      BY <1>6, LeaveEffect
    <3>2. ~Undecided(f)
      BY <3>1 DEF Undecided
    <3> QED
      BY <1>0, <3>1, <3>2, AttemptStep
  <2>4. Cardinality(Low') = Cardinality(Low) - 1
    BY <1>f, <2>2, <2>3, AddRemove
  <2>5. failed + Cardinality(Low) <= MaxFailed - 2 + Cardinality(Attempts)
    BY <2>1 DEF LockInv
  <2> QED
    BY <1>0, <1>f, <2>1, <2>4, <2>5
<1>7. ASSUME NEW a \in Attempts, LockUser(a) \/ Succeed(a)
      PROVE  failed' + Cardinality(Low') <= MaxFailed - 2 + Cardinality(Attempts)
  <2>1. CASE LockUser(a)
    <3>1. ~raised /\ ~engaged /\ failed' = failed
      BY <2>1 DEF LockUser
    <3>2. \E f \in Attempt : Set(a, f) /\ ~Undecided(f)
      BY <2>1, LeaveEffect DEF Undecided
    <3> QED
      BY <1>0, <1>1, <1>2, <3>1, <3>2
  <2>2. CASE Succeed(a)
    <3>1. failed' = 0 \/ UNCHANGED lockVars
      BY <2>2 DEF Succeed, ResetFailedLogins
    <3> QED
      BY <1>3, <1>5, <2>2, <3>1 DEF Step
  <2> QED
    BY <1>7, <2>1, <2>2
<1>8. CASE AsyncReset
  BY <1>3, <1>8 DEF AsyncReset, ResetFailedLogins
<1>9. CASE UNCHANGED att /\ (WindowEnds \/ ReadForUpdate \/ LockExpires
                             \/ (\E u \in updates : UpdateUser(u)) \/ UNCHANGED vars)
  <2>1. Low' = Low
    BY <1>9 DEF Low, MustLock
  <2>2. CASE WindowEnds \/ ReadForUpdate \/ LockExpires \/ UNCHANGED vars
    <3>1. ~raised /\ ~engaged /\ failed' = failed
      BY <2>2 DEF WindowEnds, ReadForUpdate, LockExpires, vars, lockVars
    <3> QED
      BY <1>0, <1>1, <1>f, <2>1, <3>1
  <2>3. ASSUME NEW u \in updates, UpdateUser(u)
        PROVE  failed' + Cardinality(Low') <= MaxFailed - 2 + Cardinality(Attempts)
    <3>1. u.failed \in Nat
      BY DEF TypeOK, Row
    <3>2. ~raised /\ ~engaged /\ failed' = u.failed /\ ~(u.failed > failed)
      BY <2>3 DEF UpdateUser
    <3> QED
      BY <1>0, <1>1, <1>f, <2>1, <3>1, <3>2
  <2> QED
    BY <1>9, <2>2, <2>3
<1>10. WindowEnds \/ ReadForUpdate \/ LockExpires \/ (\E u \in updates : UpdateUser(u))
       \/ UNCHANGED vars => UNCHANGED att
  BY DEF WindowEnds, ReadForUpdate, LockExpires, UpdateUser, vars
<1>11. ASSUME NEW a \in Attempts, Step(a), ~Fail(a), ~LockUser(a), ~Succeed(a)
       PROVE  UNCHANGED lockVars
  BY <1>11 DEF Step, Begin, ReauthBegin, Reauthenticate, GetUserByUsername, CheckCredentials,
     ConsumeBackupCode, End, Die
<1> QED
  BY <1>5, <1>6, <1>7, <1>8, <1>9, <1>10, <1>11, NextCases

-----------------------------------------------------------------------------

\* A fresh account with nobody signing in satisfies the inductive invariant.
LEMMA InitInv == Init => IInv
<1> SUFFICES ASSUME Init PROVE IInv
  OBVIOUS
<1>1. TypeOK
  <2>1. Idle \in Attempt
    BY DEF Idle, Attempt, NoRow, Row
  <2>2. att \in [Attempts -> Attempt] /\ uses \in [Codes -> Nat] /\ restored \in [Codes -> Nat]
    BY <2>1 DEF Init
  <2>3. locked \in BOOLEAN /\ engaged \in BOOLEAN /\ raised \in BOOLEAN
    BY DEF Init
  <2>4. /\ count \in Nat /\ window \in Nat \ {0} /\ failures \in Nat /\ strays \in Nat
        /\ failed \in Nat /\ resets \in Nat /\ starts \in Nat /\ errors \in Nat
    BY DEF Init
  <2>5. codes \subseteq Codes /\ updates \subseteq Row
    BY DEF Init
  <2> QED
    BY <2>2, <2>3, <2>4, <2>5 DEF TypeOK
<1>2. Idle.pc = "idle" /\ Idle.unit = 0
  BY DEF Idle
<1>3. Holders = {} /\ Spenders = {} /\ Low = {}
  BY <1>2 DEF Init, Holders, Spenders, Low
<1>4. Cardinality(Holders) = 0 /\ Cardinality(Spenders) = 0 /\ Cardinality(Low) = 0
  BY <1>3, FS_EmptySet
<1>5. ConsumersInv /\ CodeInv /\ UnitInv
  BY <1>2 DEF Init, ConsumersInv, CodeInv, UnitInv
<1>6. WindowInv /\ LockInv
  BY <1>4, CountedFinite, BudgetAssumption DEF Init, WindowInv, LockInv
<1> QED
  BY <1>1, <1>5, <1>6 DEF IInv

\* The inductive invariant holds in every behaviour, for any number of concurrent
\* attempts, any budget and any maximum.
THEOREM GuardInvariant == Spec => []IInv
<1>1. IInv /\ [Next]_vars => IInv'
  BY TypesStep, AttemptTypes, CodesStep, UnitsStep, WindowStep, LockStep DEF IInv
<1> QED
  BY <1>1, InitInv, PTL DEF Spec

\* Begin, Fail, End: the types hold; in particular a refund never leaves a
\* negative counter behind.
THEOREM GuardTypes == Spec => []TypeOK
<1>1. IInv => TypeOK
  BY DEF IInv
<1> QED
  BY <1>1, GuardInvariant, PTL

\* Begin: reserving up front keeps the failures of a window within its budget,
\* but for one for each refund of a unit that was not taken from it.
THEOREM GuardWindowBudget == Spec => []WindowBudget
<1>1. IInv => WindowBudget
  <2> SUFFICES ASSUME IInv PROVE WindowBudget
    OBVIOUS
  <2> QED
    BY CountedFinite, BudgetAssumption DEF IInv, TypeOK, WindowInv, WindowBudget
<1> QED
  BY <1>1, GuardInvariant, PTL

\* CheckMFA: whatever attempts race, a backup code is accepted once, and once more
\* for each whole-row write that puts it back.
THEOREM GuardBackupCodeSpent == Spec => []BackupCodeSpent
<1>1. IInv => BackupCodeSpent
  <2> SUFFICES ASSUME IInv, NEW c \in Codes PROVE uses[c] <= 1 + restored[c]
    BY DEF BackupCodeSpent
  <2>1. uses[c] \in Nat /\ restored[c] \in Nat
    BY DEF IInv, TypeOK
  <2> QED
    BY <2>1 DEF IInv, CodeInv
<1> QED
  BY <1>1, GuardInvariant, PTL

\* Fail: the lockout is decided at the latest when every attempt in flight has
\* passed the maximum on a stale copy, unless a whole-row write raised the count.
THEOREM GuardLockoutEngages == Spec => []LockoutEngages
<1>1. IInv => LockoutEngages
  <2> SUFFICES ASSUME IInv, ~raised, ~engaged
               PROVE  ~(failed > MaxFailed - 2 + Cardinality(Attempts))
    BY DEF LockoutEngages
  <2> QED
    BY CountedFinite, BudgetAssumption DEF IInv, TypeOK, LockInv
<1> QED
  BY <1>1, GuardInvariant, PTL

-----------------------------------------------------------------------------
(* StaySignedIn: the order of a handler's steps.                            *)

\* A handler at "lock" goes on to "unload".
LEMMA AfterLock ==
   ASSUME NEW t \in Seq(Labels), t # <<>>, UnloadFollows(t), Head(t) = "lock" PROVE Len(t) # 1 /\ Tail(t) # <<>> /\ Head(Tail(t)) = "unload"
<1>1. Len(t) \in Nat /\ Len(t) > 0 /\ t[1] = "lock"
  OBVIOUS
<1>2. 1 < Len(t) /\ t[2] = "unload"
  BY <1>1 DEF UnloadFollows
<1>3. Tail(t) \in Seq(Labels) /\ Len(Tail(t)) = Len(t) - 1 /\ \A i \in 1..Len(Tail(t)) : Tail(t)[i] = t[i + 1]
  BY <1>1, HeadTailProperties
<1>4. 1 \in 1..Len(Tail(t))
  BY <1>1, <1>2, <1>3
<1>5. Tail(t)[1] = t[2]
  BY <1>3, <1>4
<1> DEFINE rest == Tail(t)
<1>6. rest \in Seq(Labels) /\ Len(rest) > 0
  BY <1>1, <1>2, <1>3
<1> HIDE DEF rest
<1>7. Head(rest) = rest[1] /\ rest # <<>>
  BY <1>6
<1> QED BY <1>1, <1>2, <1>5, <1>7 DEF rest

\* Steps put together keep the order.
LEMMA Together ==
   ASSUME NEW s \in Seq(Labels), NEW u \in Seq(Labels), UnloadFollows(s), UnloadFollows(u)
  PROVE s \o u \in Seq(Labels) /\ UnloadFollows(s \o u)
<1> DEFINE t == s \o u
<1>1. /\ t \in Seq(Labels) /\ Len(t) = Len(s) + Len(u) /\ Len(s) \in Nat /\ Len(u) \in Nat
      /\ \A i \in 1..Len(s) + Len(u) : t[i] = IF i <= Len(s) THEN s[i] ELSE u[i - Len(s)]
  BY ConcatProperties
<1> HIDE DEF t
<1>2. ASSUME NEW i \in 1..Len(t), t[i] = "lock" PROVE i < Len(t) /\ t[i + 1] = "unload"
  <2>1. CASE i <= Len(s)
    <3>1. s[i] = "lock" /\ i \in 1..Len(s)
      BY <1>1, <1>2, <2>1
    <3>2. i < Len(s) /\ s[i + 1] = "unload"
      BY <3>1 DEF UnloadFollows
    <3> QED BY <1>1, <3>2
  <2>2. CASE ~(i <= Len(s))
    <3> DEFINE j == i - Len(s)
    <3>1. u[j] = "lock" /\ j \in 1..Len(u)
      BY <1>1, <1>2, <2>2
    <3>2. j < Len(u) /\ u[j + 1] = "unload"
      BY <3>1 DEF UnloadFollows
    <3>3. i + 1 \in 1..Len(s) + Len(u) /\ ~(i + 1 <= Len(s)) /\ i + 1 - Len(s) = j + 1
      BY <1>1, <2>2, <3>2
    <3> QED BY <1>1, <3>2, <3>3
  <2> QED BY <2>1, <2>2
<1> QED BY <1>1, <1>2 DEF UnloadFollows, t

\* The steps that lock the keys of a user.
LEMMA RevokeAll ==
  /\ revokeUserSeals \in Seq(Labels) /\ UnloadFollows(revokeUserSeals)
  /\ <<"unloadVault">> \o revokeUserSeals \in Seq(Labels)
  /\ UnloadFollows(<<"unloadVault">> \o revokeUserSeals)
<1>1. revokeUserSeals \in Seq(Labels) /\ UnloadFollows(revokeUserSeals)
  BY DEF revokeUserSeals, Labels, UnloadFollows
<1>2. <<"unloadVault">> \in Seq(Labels) /\ UnloadFollows(<<"unloadVault">>)
  BY DEF UnloadFollows, Labels
<1> QED BY <1>1, <1>2, Together

\* The steps of every way to sign out.
LEMMA Programs ==
   ASSUME NEW kind \in {"logout", "session", "sessions", "seals", "password"}
  PROVE Program(kind) \in Seq(Labels) /\ UnloadFollows(Program(kind))
<1>1. revokeUserSeals \in Seq(Labels) /\ UnloadFollows(revokeUserSeals)
  BY RevokeAll
<1>2. \A l \in {"unloadVault", "endAll", "endOthers", "again"} : <<l>> \in Seq(Labels) /\ UnloadFollows(<<l>>)
  BY DEF UnloadFollows, Labels
<1>3. /\ <<"unloadVault">> \o revokeUserSeals \in Seq(Labels) /\ UnloadFollows(<<"unloadVault">> \o revokeUserSeals)
      /\ <<"endOthers">> \o revokeUserSeals \in Seq(Labels) /\ UnloadFollows(<<"endOthers">> \o revokeUserSeals)
      /\ revokeUserSeals \o <<"endAll">> \in Seq(Labels) /\ UnloadFollows(revokeUserSeals \o <<"endAll">>)
  BY <1>1, <1>2, Together
<1>4. (<<"unloadVault">> \o revokeUserSeals) \o <<"endAll">> \in Seq(Labels) /\ UnloadFollows((<<"unloadVault">> \o revokeUserSeals) \o <<"endAll">>)
  BY <1>2, <1>3, Together
<1>5. (<<"endOthers">> \o revokeUserSeals) \o <<"again">> \in Seq(Labels) /\ UnloadFollows((<<"endOthers">> \o revokeUserSeals) \o <<"again">>)
  BY <1>2, <1>3, Together
<1>6. <<"sealsOf", "endThis", "last">> \in Seq(Labels) /\ UnloadFollows(<<"sealsOf", "endThis", "last">>)
  BY DEF Labels, UnloadFollows
<1> QED BY <1>1, <1>3, <1>4, <1>5, <1>6 DEF Program

-----------------------------------------------------------------------------
(* Types.                                                                  *)

\* Steps of a handler that go on, or end.
LEMMA RestTypes ==
  ASSUME SessionTypeOK, UnloadFollows(hd.todo), hd.todo # <<>>
  PROVE  /\ Rest \in [todo : Seq(Labels), rep : Replicas \cup {NoReplica},
                      me : Sessions \cup {NoSession}, found : BOOLEAN, reseal : BOOLEAN]
         /\ UnloadFollows(Rest.todo)
         /\ Rest.todo # <<>> => Rest = [hd EXCEPT !.todo = Tail(@)]
<1>1. hd.todo \in Seq(Labels)
  BY DEF SessionTypeOK
<1>2. Tail(hd.todo) \in Seq(Labels) /\ UnloadFollows(Tail(hd.todo))
  BY <1>1 DEF UnloadFollows
<1>3. NoHandler.todo = <<>> /\ UnloadFollows(<<>>) /\ <<>> \in Seq(Labels)
  BY DEF NoHandler, UnloadFollows
<1>4. CASE Rest = NoHandler
  BY <1>3, <1>4 DEF NoHandler
<1>5. CASE Rest = [hd EXCEPT !.todo = Tail(@)]
  BY <1>2, <1>5 DEF SessionTypeOK
<1> QED BY <1>4, <1>5 DEF Rest

\* The initial states.
LEMMA SessionInitInv == SessionInit => SessionInv
<1> SUFFICES ASSUME SessionInit PROVE SessionInv
  OBVIOUS
<1>1. SessionTypeOK
  <2>1. NoHandler \in [todo : Seq(Labels), rep : Replicas \cup {NoReplica},
             me : Sessions \cup {NoSession}, found : BOOLEAN, reseal : BOOLEAN]
    BY DEF NoHandler
  <2>2. Resting \in [pc : {"idle", "check", "unload", "restore", "lease"}, rows : SUBSET Sessions]
    BY DEF Resting
  <2>3. NoRequest \in [pc : {"idle", "check", "restore", "lease"}, rows : SUBSET Sessions,
              rep : Replicas \cup {NoReplica}]
    BY DEF NoRequest
  <2>4. revokes \in 0..MaxRevokes /\ faults \in 0..dep.faults
    BY BoundAssumption, DeploymentAssumption DEF SessionInit
  <2> QED BY <2>1, <2>2, <2>3, <2>4 DEF SessionInit, SessionTypeOK
<1>2. UnloadFollows(hd.todo)
  BY DEF SessionInit, NoHandler, UnloadFollows
<1>3. SealedKeyIsLeased
  BY IdAssumption DEF SessionInit, SealedKeyIsLeased
<1> QED BY <1>1, <1>2, <1>3 DEF SessionInv
\* Every step keeps the types, and a handler's steps in order.
LEMMA SessionTypes ==
  ASSUME SessionTypeOK, UnloadFollows(hd.todo), [SessionNext]_sessionVars
  PROVE  SessionTypeOK' /\ UnloadFollows(hd.todo)'
<1> DEFINE PassSet == [pc : {"idle", "check", "unload", "restore", "lease"}, rows : SUBSET Sessions]
           ReqSet == [pc : {"idle", "check", "restore", "lease"}, rows : SUBSET Sessions,
                      rep : Replicas \cup {NoReplica}]
           HdSet == [todo : Seq(Labels), rep : Replicas \cup {NoReplica},
                     me : Sessions \cup {NoSession}, found : BOOLEAN, reseal : BOOLEAN]
           MemOK == mem \in [Replicas -> {"none", "unlocked", "sealed"}]
           LeaseOK == lease \in [Replicas -> BOOLEAN] /\ fresh \in [Replicas -> BOOLEAN]
           SessOK == sess \in [Sessions -> {"new", "live", "expired", "deleted"}]
           RowOK == SessOK /\ token \subseteq Sessions /\ renewal \subseteq Sessions
           ChoiceOK == /\ dep \in Deployments
                       /\ mode \in [Sessions -> {"none", "session", "sealer", "split"}]
                       /\ home \in [Sessions -> Replicas \cup {NoReplica}]
                       /\ revokes \in 0..MaxRevokes
           UnlockOK == unlock \in [Sessions -> {"none", "load", "reload", "seal", "store", "lease", "done"}]
           VaultOK == vault \in [Sessions -> {"none", "auth", "write", "seal", "store", "lease", "done"}]
           LoadOK == load \in [Sessions -> {"none", "load"}]
           TaskOK == UnlockOK /\ VaultOK /\ LoadOK
           SealedOK == sealed \subseteq Sessions
           PassOK == pass \in [Replicas -> PassSet]
           ReqOK == req \in ReqSet
           HdOK == hd \in HdSet /\ UnloadFollows(hd.todo)
           FaultsOK == faults \in 0..dep.faults
<1>0. /\ MemOK /\ LeaseOK /\ SessOK /\ RowOK /\ ChoiceOK /\ UnlockOK /\ VaultOK /\ LoadOK /\ TaskOK
      /\ SealedOK /\ PassOK /\ ReqOK /\ HdOK /\ FaultsOK
  BY DEF SessionTypeOK
<1>1. ASSUME MemOK', LeaseOK', RowOK', ChoiceOK', TaskOK', SealedOK', PassOK', ReqOK', HdOK', FaultsOK'
      PROVE  SessionTypeOK' /\ UnloadFollows(hd.todo)'
  BY <1>1 DEF SessionTypeOK
<1>k. /\ UNCHANGED choiceVars => ChoiceOK' /\ dep' = dep
      /\ UNCHANGED rowVars => RowOK' /\ UNCHANGED sess
      /\ UNCHANGED sess => SessOK'
      /\ UNCHANGED memVars => MemOK' /\ LeaseOK'
      /\ UNCHANGED mem => MemOK'
      /\ UNCHANGED <<lease, fresh>> => LeaseOK'
      /\ UNCHANGED taskVars => TaskOK'
      /\ UNCHANGED procVars => PassOK' /\ ReqOK'
      /\ UNCHANGED pass => PassOK'
      /\ UNCHANGED req => ReqOK'
      /\ UNCHANGED hd => HdOK'
      /\ UNCHANGED sealed => SealedOK'
      /\ dep' = dep /\ UNCHANGED faults => FaultsOK'
      /\ dep' = dep /\ faults < dep.faults /\ faults' = faults + 1 => FaultsOK'
  <2>1. dep.faults \in Nat
    BY <1>0, DeploymentAssumption
  <2>2. dep' = dep /\ faults < dep.faults /\ faults' = faults + 1 => FaultsOK'
    BY <1>0, <2>1
  <2> QED BY <1>0, <2>2 DEF choiceVars, rowVars, memVars, taskVars, procVars
\* The key map and the leases.
<1>m. /\ \A r \in Replicas \cup {NoReplica}, how \in {"unlocked", "sealed"} : RegisterKey(r, how) => MemOK'
      /\ \A r \in Replicas \cup {NoReplica} : UnregisterKey(r) => MemOK'
      /\ \A r \in Replicas \cup {NoReplica} : Lease(r) => LeaseOK'
  <2>1. /\ \A r \in Replicas \cup {NoReplica}, how \in {"unlocked", "sealed"} : RegisterKey(r, how) => MemOK'
        /\ \A r \in Replicas \cup {NoReplica} : UnregisterKey(r) => MemOK'
    BY <1>0 DEF RegisterKey, UnregisterKey
  <2>2. ASSUME NEW r \in Replicas \cup {NoReplica}, Lease(r)
        PROVE  LeaseOK'
    <3> DEFINE b == pass[r].pc # "idle"
    <3>1. b \in BOOLEAN /\ fresh' = [fresh EXCEPT ![r] = b] /\ lease' = [lease EXCEPT ![r] = TRUE]
      BY <2>2 DEF Lease
    <3> HIDE DEF b
    <3> QED BY <1>0, <3>1
  <2> QED BY <2>1, <2>2
<1>p. \A r \in Replicas, pc \in {"idle", "check", "unload", "restore", "lease"} :
        PassTo(r, pc) => PassOK' /\ fresh' \in [Replicas -> BOOLEAN]
  BY <1>0 DEF PassTo
<1>s. /\ \A s \in Sessions : SetRecord(s) => SessOK'
      /\ \A S : sess' = Ended(S) => SessOK'
  BY <1>0 DEF SetRecord, Ended
<1>h. hd.todo # <<>> => Rest \in HdSet /\ UnloadFollows(Rest.todo)
  BY <1>0, RestTypes
<1> HIDE DEF MemOK, LeaseOK, SessOK, RowOK, ChoiceOK, UnlockOK, VaultOK, LoadOK, TaskOK, SealedOK, PassOK,
             ReqOK, HdOK, FaultsOK
<1>2. ASSUME NEW s \in Sessions, NEW r \in Replicas, NEW m \in dep.modes, Login(s, r, m)
      PROVE  SessionTypeOK' /\ UnloadFollows(hd.todo)'
  <2>1. m \in {"session", "sealer", "split"}
    BY <1>0, DeploymentAssumption DEF ChoiceOK
  <2>2. ChoiceOK'
    BY <1>0, <1>2, <2>1 DEF Login, ChoiceOK
  <2>3. RowOK'
    BY <1>0, <1>2 DEF Login, RowOK, SessOK
  <2>4. TaskOK'
    BY <1>0, <1>2 DEF Login, TaskOK, UnlockOK, VaultOK, LoadOK
  <2> QED BY <1>1, <1>2, <1>k, <2>2, <2>3, <2>4 DEF Login
<1>3. ASSUME NEW s \in Sessions, Expire(s)
      PROVE  SessionTypeOK' /\ UnloadFollows(hd.todo)'
  <2>1. RowOK' /\ SealedOK'
    BY <1>0, <1>3 DEF Expire, RowOK, SessOK, SealedOK
  <2> QED BY <1>1, <1>3, <1>k, <2>1 DEF Expire
<1>4. ASSUME NEW s \in Sessions, slideSession(s) \/ ExtendUserSession(s)
      PROVE  SessionTypeOK' /\ UnloadFollows(hd.todo)'
  <2>1. RowOK'
    BY <1>0, <1>4, <1>k, <1>s DEF slideSession, ExtendUserSession, RowOK
  <2> QED BY <1>1, <1>4, <1>k, <2>1 DEF slideSession, ExtendUserSession
<1>5. ASSUME NEW s \in Sessions, loadUserPassphraseKeys(s) \/ loadUserVaultKeys(s)
      PROVE  SessionTypeOK' /\ UnloadFollows(hd.todo)'
  <2>1. home[s] \in Replicas \cup {NoReplica}
    BY <1>0 DEF ChoiceOK
  <2>2. MemOK'
    BY <1>5, <1>k, <1>m, <2>1 DEF loadUserPassphraseKeys, loadUserVaultKeys
  <2>3. TaskOK'
    BY <1>0, <1>5 DEF loadUserPassphraseKeys, loadUserVaultKeys, TaskOK, UnlockOK, VaultOK, LoadOK
  <2>4. LeaseOK'
    BY <1>5, <1>k DEF loadUserPassphraseKeys, loadUserVaultKeys
  <2> QED BY <1>1, <1>5, <1>k, <2>2, <2>3, <2>4 DEF loadUserPassphraseKeys, loadUserVaultKeys
<1>6. ASSUME NEW s \in Sessions, populateVaultTokenAsync(s) \/ WriteVaultToken(s)
      PROVE  SessionTypeOK' /\ UnloadFollows(hd.todo)'
  <2>1. ChoiceOK' /\ dep' = dep /\ UNCHANGED <<renewal, sealed, memVars, unlock, procVars, hd>>
    BY <1>6, <1>k DEF populateVaultTokenAsync, WriteVaultToken
  <2>2. SessOK' /\ token' \subseteq Sessions
    BY <1>0, <1>6, <1>k, <1>s DEF populateVaultTokenAsync, WriteVaultToken, UpdateUserSessionVaultToken, RowOK
  <2>3. VaultOK' /\ LoadOK'
    BY <1>0, <1>6 DEF populateVaultTokenAsync, WriteVaultToken, VaultOK, LoadOK
  <2>4. RowOK' /\ TaskOK'
    BY <1>0, <2>1, <2>2, <2>3 DEF RowOK, TaskOK, UnlockOK
  <2>5. FaultsOK'
    BY <1>6, <1>k, <2>1 DEF populateVaultTokenAsync, WriteVaultToken
  <2> QED BY <1>1, <1>k, <2>1, <2>4, <2>5
<1>7. ASSUME NEW s \in Sessions, sealUnlocked(s) \/ sealVault(s)
      PROVE  SessionTypeOK' /\ UnloadFollows(hd.todo)'
  <2>1. home[s] \in Replicas \cup {NoReplica}
    BY <1>0 DEF ChoiceOK
  <2>2. \A at : SealEffect(s, at) => SealedOK' /\ LeaseOK'
    BY <1>0, <1>k, <1>m, <2>1 DEF SealEffect, SealedOK
  <2>3. \A at \in {"seal", "store", "lease"} : SealStep(s, at) \in {"store", "lease", "done"}
    BY DEF SealStep
  <2>4. TaskOK'
    BY <1>0, <1>7, <2>3 DEF sealUnlocked, sealVault, TaskOK, UnlockOK, VaultOK, LoadOK
  <2> QED BY <1>1, <1>7, <1>k, <2>2, <2>4 DEF sealUnlocked, sealVault
<1>8. ASSUME NEW r \in Replicas, NEW s \in Sessions, ensureNostrConnectKeyLoaded(r, s)
      PROVE  SessionTypeOK' /\ UnloadFollows(hd.todo)'
  BY <1>1, <1>8, <1>k, <1>m DEF ensureNostrConnectKeyLoaded
<1>9. ASSUME NEW r \in Replicas, NEW s \in Sessions, handleSessionUnseal(r, s)
      PROVE  SessionTypeOK' /\ UnloadFollows(hd.todo)'
  <2>1. ReqOK'
    BY <1>9 DEF handleSessionUnseal, ReqOK, NoRequest
  <2>2. MemOK'
    BY <1>9, <1>k, <1>m DEF handleSessionUnseal
  <2> QED BY <1>1, <1>9, <1>k, <2>1, <2>2 DEF handleSessionUnseal
<1>10. ASSUME NEW r \in Replicas, NEW kind \in dep.kinds, NEW s \in Sessions, Revoke(kind, r, s)
       PROVE  SessionTypeOK' /\ UnloadFollows(hd.todo)'
  <2>1. kind \in {"logout", "session", "sessions", "seals", "password"}
    BY <1>0, DeploymentAssumption DEF ChoiceOK
  <2>2. Program(kind) \in Seq(Labels) /\ UnloadFollows(Program(kind))
    BY <2>1, Programs
  <2>3. HdOK'
    BY <1>10, <2>2 DEF Revoke, HdOK, NoHandler
  <2>4. ChoiceOK' /\ dep' = dep
    BY <1>0, <1>10, BoundAssumption DEF Revoke, ChoiceOK
  <2> QED BY <1>1, <1>10, <1>k, <2>3, <2>4 DEF Revoke
<1>11. ASSUME NEW r \in Replicas, reconcileSeals(r) \/ restoreSealedKey(r)
       PROVE  SessionTypeOK' /\ UnloadFollows(hd.todo)'
  <2>1. PassOK' /\ ReqOK'
    BY <1>0, <1>11, <1>k DEF reconcileSeals, restoreSealedKey, ListLiveSessionSeals, PassOK, ReqOK, SealedOK
  <2> QED BY <1>1, <1>11, <1>k, <2>1 DEF reconcileSeals, restoreSealedKey
<1>12. ASSUME NEW r \in Replicas, CheckPass(r)
       PROVE  SessionTypeOK' /\ UnloadFollows(hd.todo)'
  <2>1. PassOK' /\ fresh' \in [Replicas -> BOOLEAN]
    BY <1>12, <1>p DEF CheckPass
  <2>2. LeaseOK'
    BY <1>0, <1>12, <2>1 DEF CheckPass, LeaseOK
  <2>3. SealedOK' /\ FaultsOK'
    BY <1>0, <1>12, <1>k DEF CheckPass, liveSeals, liveSealsFails, SealedOK
  <2> QED BY <1>1, <1>12, <1>k, <2>1, <2>2, <2>3 DEF CheckPass
<1>13. ASSUME NEW r \in Replicas, unloadSealedKey(r) \/ restoreFromSeals(r) \/ installSealedKey(r)
       PROVE  SessionTypeOK' /\ UnloadFollows(hd.todo)'
  <2>1. PassOK' /\ fresh' \in [Replicas -> BOOLEAN]
    BY <1>13, <1>p DEF unloadSealedKey, restoreFromSeals, installSealedKey
  <2>2. LeaseOK'
    BY <1>0, <1>13, <2>1 DEF unloadSealedKey, restoreFromSeals, installSealedKey, LeaseOK
  <2>3. MemOK'
    BY <1>13, <1>k, <1>m DEF unloadSealedKey, restoreFromSeals, installSealedKey
  <2>4. FaultsOK' /\ ChoiceOK' /\ SealedOK' /\ ReqOK' /\ HdOK' /\ RowOK' /\ TaskOK'
    BY <1>13, <1>k DEF unloadSealedKey, restoreFromSeals, installSealedKey
  <2> QED BY <1>1, <2>1, <2>2, <2>3, <2>4
<1>14. ASSUME Request
       PROVE  SessionTypeOK' /\ UnloadFollows(hd.todo)'
  <2>1. ReqOK'
    <3>1. req \in ReqSet /\ NoRequest \in ReqSet
      BY <1>0 DEF ReqOK, NoRequest
    <3>2. [req EXCEPT !.pc = "restore", !.rows = {}] \in ReqSet /\ [req EXCEPT !.pc = "lease"] \in ReqSet
      BY <3>1
    <3> HIDE DEF ReqSet
    <3>3. CASE CheckRequest
      BY <3>1, <3>2, <3>3 DEF CheckRequest, ReqOK
    <3>4. CASE RequestRestores \/ RequestLeases
      BY <3>1, <3>2, <3>4 DEF RequestRestores, RequestLeases, ReqOK
    <3> QED BY <1>14, <3>3, <3>4 DEF Request
  <2>2. req.rep \in Replicas \cup {NoReplica}
    BY <1>0 DEF ReqOK
  <2>3. MemOK' /\ LeaseOK'
    BY <1>14, <1>k, <1>m, <2>2 DEF Request, CheckRequest, RequestRestores, RequestLeases
  <2>4. SealedOK' /\ FaultsOK'
    BY <1>0, <1>14, <1>k DEF Request, CheckRequest, RequestRestores, RequestLeases, liveSeals, liveSealsFails, SealedOK
  <2>5. ChoiceOK' /\ PassOK' /\ HdOK' /\ RowOK' /\ TaskOK'
    BY <1>14, <1>k DEF Request, CheckRequest, RequestRestores, RequestLeases
  <2> QED BY <1>1, <2>1, <2>3, <2>4, <2>5
<1>15. ASSUME unloadUserVaultKeys \/ UnloadLocked \/ evictRemote
       PROVE  SessionTypeOK' /\ UnloadFollows(hd.todo)'
  <2>1. HdOK'
    BY <1>15, <1>h DEF unloadUserVaultKeys, UnloadLocked, evictRemote, At, HdOK
  <2>2. hd.rep \in Replicas \cup {NoReplica}
    BY <1>0 DEF HdOK
  <2>3. MemOK'
    BY <1>15, <1>k, <1>m, <2>2 DEF unloadUserVaultKeys, UnloadLocked, evictRemote
  <2>4. ChoiceOK' /\ LeaseOK' /\ SealedOK' /\ PassOK' /\ ReqOK' /\ RowOK' /\ TaskOK' /\ FaultsOK'
    BY <1>15, <1>k DEF unloadUserVaultKeys, UnloadLocked, evictRemote
  <2> QED BY <1>1, <2>1, <2>3, <2>4
<1>16. ASSUME DeleteSessionSealsByUser
       PROVE  SessionTypeOK' /\ UnloadFollows(hd.todo)'
  <2>0. (sealed # {} \/ lease[hd.rep]) \in BOOLEAN
    OBVIOUS
  <2>1. HdOK'
    <3>1. Rest \in HdSet /\ UnloadFollows(Rest.todo)
      BY <1>16, <1>h DEF DeleteSessionSealsByUser, At
    <3> QED BY <1>16, <3>1 DEF DeleteSessionSealsByUser, HdOK
  <2>2. SealedOK' /\ FaultsOK'
    BY <1>0, <1>16, <1>k DEF DeleteSessionSealsByUser, SealedOK
  <2> QED BY <1>1, <1>16, <1>k, <2>1, <2>2 DEF DeleteSessionSealsByUser
<1>17. ASSUME lockSealedKey
       PROVE  SessionTypeOK' /\ UnloadFollows(hd.todo)'
  <2>1. HdOK'
    BY <1>17, <1>h DEF lockSealedKey, At, HdOK
  <2>2. LeaseOK'
    BY <1>0, <1>17 DEF lockSealedKey, LeaseOK
  <2> QED BY <1>1, <1>17, <1>k, <2>1, <2>2 DEF lockSealedKey
<1>18. ASSUME DeleteSessionSealsBySession \/ DeleteUserSession \/ DeleteUserSessions \/ endSessions
       PROVE  SessionTypeOK' /\ UnloadFollows(hd.todo)'
  <2>1. HdOK'
    BY <1>18, <1>h DEF DeleteSessionSealsBySession, DeleteUserSession, DeleteUserSessions, endSessions, At, HdOK
  <2>2. RowOK' /\ SealedOK'
    BY <1>0, <1>18, <1>k, <1>s DEF DeleteSessionSealsBySession, DeleteUserSession, DeleteUserSessions, endSessions,
                                  RowOK, SealedOK
  <2>3. ChoiceOK' /\ LeaseOK' /\ MemOK' /\ PassOK' /\ ReqOK' /\ TaskOK' /\ FaultsOK'
    BY <1>18, <1>k DEF DeleteSessionSealsBySession, DeleteUserSession, DeleteUserSessions, endSessions
  <2> QED BY <1>1, <2>1, <2>2, <2>3
<1>19. ASSUME hasLiveSession
       PROVE  SessionTypeOK' /\ UnloadFollows(hd.todo)'
  <2>1. NoHandler \in HdSet /\ UnloadFollows(NoHandler.todo)
    BY DEF NoHandler, UnloadFollows
  <2>2. /\ <<"unloadVault">> \o revokeUserSeals \in Seq(Labels)
        /\ UnloadFollows(<<"unloadVault">> \o revokeUserSeals)
    BY RevokeAll
  <2>3. HdOK'
    BY <1>0, <1>19, <2>1, <2>2 DEF hasLiveSession, HdOK
  <2> QED BY <1>1, <1>19, <1>k, <2>3 DEF hasLiveSession
<1>20. ASSUME UnlockAgain
       PROVE  SessionTypeOK' /\ UnloadFollows(hd.todo)'
  <2>1. HdOK'
    BY <1>20, <1>h DEF UnlockAgain, At, HdOK
  <2>2. ChoiceOK' /\ dep' = dep
    BY <1>0, <1>20 DEF UnlockAgain, ChoiceOK, HdOK
  <2>3. TaskOK'
    BY <1>0, <1>20 DEF UnlockAgain, TaskOK, UnlockOK, VaultOK, LoadOK
  <2> QED BY <1>1, <1>20, <1>k, <2>1, <2>2, <2>3 DEF UnlockAgain
<1>21. ASSUME NEW r \in Replicas, Crash(r)
       PROVE  SessionTypeOK' /\ UnloadFollows(hd.todo)'
  <2>1. MemOK' /\ LeaseOK'
    BY <1>0, <1>21 DEF Crash, MemOK, LeaseOK
  <2>2. TaskOK'
    BY <1>0, <1>21 DEF Crash, TaskOK, UnlockOK, VaultOK, LoadOK
  <2>3. PassOK' /\ ReqOK'
    BY <1>0, <1>21 DEF Crash, PassOK, ReqOK, Resting, NoRequest
  <2>4. NoHandler \in HdSet /\ UnloadFollows(NoHandler.todo)
    BY DEF NoHandler, UnloadFollows
  <2>5. HdOK'
    BY <1>0, <1>21, <2>4 DEF Crash, HdOK
  <2> QED BY <1>1, <1>21, <1>k, <2>1, <2>2, <2>3, <2>5 DEF Crash
<1>22. ASSUME UNCHANGED sessionVars
       PROVE  SessionTypeOK' /\ UnloadFollows(hd.todo)'
  BY <1>1, <1>22, <1>k DEF sessionVars, choiceVars, rowVars, memVars, taskVars, procVars
<1> QED
  BY IdAssumption, <1>2, <1>3, <1>4, <1>5, <1>6, <1>7, <1>8, <1>9, <1>10, <1>11, <1>12, <1>13, <1>14, <1>15, <1>16,
     <1>17, <1>18, <1>19, <1>20, <1>21, <1>22 DEF SessionNext, Tasks, Reconcile, Handle
\* Whatever a step does to a replica's key, lease and processes, a sealed key
\* stays under a lease or on its way to one, or out.
LEMMA LeaseKept ==
  ASSUME SessionInv, SessionTypeOK', [SessionNext]_sessionVars
  PROVE  SealedKeyIsLeased'
<1> DEFINE Kept(q) == \/ lease[q]
                      \/ pass[q].pc \in {"lease", "unload"}
                      \/ req.rep = q /\ req.pc = "lease"
                      \/ hd.rep = q /\ At("unload") /\ hd.found
           Calm == UNCHANGED pass /\ UNCHANGED req /\ UNCHANGED hd
<1> SUFFICES ASSUME NEW q \in Watched, mem'[q] = "sealed" PROVE Kept(q)'
  BY DEF SealedKeyIsLeased, At
<1>0. /\ q \in Replicas /\ q # NoReplica /\ (mem[q] = "sealed" => Kept(q))
      /\ mem \in [Replicas -> {"none", "unlocked", "sealed"}]
      /\ lease \in [Replicas -> BOOLEAN]
      /\ pass \in [Replicas -> [pc : {"idle", "check", "unload", "restore", "lease"}, rows : SUBSET Sessions]]
      /\ req.rep \in Replicas \cup {NoReplica} /\ hd.rep \in Replicas \cup {NoReplica}
  BY IdAssumption DEF SessionInv, SealedKeyIsLeased, SessionTypeOK
<1>1. \A r, how : /\ RegisterKey(r, how) => (how = "sealed" /\ q = r) \/ mem[q] = "sealed"
                  /\ RegisterKey(r, how) /\ q # r => mem[q] = "sealed"
                  /\ UnregisterKey(r) => mem[q] = "sealed" /\ q # r
  BY <1>0 DEF RegisterKey, UnregisterKey
<1>2. \A r : Lease(r) => lease'[r] \/ (r # q /\ lease'[q] = lease[q])
  BY <1>0 DEF Lease
<1>3. \A r, pc : PassTo(r, pc) => pass'[q] = pass[q] \/ (q = r /\ pass'[q].pc = pc)
  BY <1>0 DEF PassTo
<1>4. hd.todo \in Seq(Labels) /\ UnloadFollows(hd.todo)
  BY DEF SessionInv, SessionTypeOK
\* A key that was sealed stays under its lease while nothing else moves.
<1>5. ASSUME mem[q] = "sealed", lease[q] => lease'[q], Calm
      PROVE  Kept(q)'
  BY <1>0, <1>5 DEF At
<1> HIDE DEF Calm
<1>6. ASSUME NEW s \in Sessions, NEW r \in Replicas,
             \/ \E m : Login(s, r, m)
             \/ Expire(s) \/ slideSession(s) \/ ExtendUserSession(s) \/ loadUserPassphraseKeys(s)
             \/ loadUserVaultKeys(s) \/ populateVaultTokenAsync(s) \/ WriteVaultToken(s)
             \/ ensureNostrConnectKeyLoaded(r, s)
      PROVE  Kept(q)'
  <2>1. lease' = lease /\ Calm
    BY <1>6 DEF Login, Expire, slideSession, ExtendUserSession, loadUserPassphraseKeys, loadUserVaultKeys,
       populateVaultTokenAsync, WriteVaultToken, ensureNostrConnectKeyLoaded, memVars, procVars, Calm
  <2>2. mem' = mem \/ \E x : RegisterKey(x, "unlocked")
    BY <1>6 DEF Login, Expire, slideSession, ExtendUserSession, loadUserPassphraseKeys, loadUserVaultKeys,
       populateVaultTokenAsync, WriteVaultToken, ensureNostrConnectKeyLoaded, memVars
  <2>3. mem[q] = "sealed"
    BY <1>1, <2>2
  <2> QED BY <1>5, <2>1, <2>3
<1>7. ASSUME NEW s \in Sessions, sealUnlocked(s) \/ sealVault(s)
      PROVE  Kept(q)'
  <2>1. mem' = mem /\ Calm
    BY <1>7 DEF sealUnlocked, sealVault, procVars, Calm
  <2>2. lease' = lease \/ Lease(home[s])
    BY <1>7 DEF sealUnlocked, sealVault, SealEffect
  <2>3. lease[q] => lease'[q]
    BY <1>0, <2>2 DEF Lease
  <2> QED BY <1>5, <2>1, <2>3
\* What installs a sealed key takes the lease next.
<1>8. ASSUME NEW r \in Replicas, NEW s \in Sessions, handleSessionUnseal(r, s)
      PROVE  Kept(q)'
  <2>1. /\ req.pc = "idle" /\ req'.rep = r /\ req'.pc = "lease"
        /\ UNCHANGED <<lease, pass, hd>> /\ (mem' = mem \/ RegisterKey(r, "sealed"))
    BY <1>8 DEF handleSessionUnseal, NoRequest
  <2> QED BY <1>0, <1>1, <2>1 DEF At
<1>9. ASSUME NEW r \in Replicas, NEW kind, NEW s \in Sessions, Revoke(kind, r, s)
      PROVE  Kept(q)'
  <2>1. UNCHANGED <<mem, lease, pass, req>> /\ ~At("unload")
    BY <1>9 DEF Revoke, memVars, procVars, At, NoHandler
  <2> QED BY <1>0, <2>1
<1>10. ASSUME NEW r \in Replicas, reconcileSeals(r) \/ restoreSealedKey(r)
       PROVE  Kept(q)'
  <2>1. UNCHANGED <<mem, lease, hd>>
    BY <1>10 DEF reconcileSeals, restoreSealedKey, memVars
  <2>2. pass[q].pc \in {"lease", "unload"} => pass'[q] = pass[q]
    BY <1>0, <1>10 DEF reconcileSeals, restoreSealedKey
  <2>3. req.pc = "lease" => req' = req
    BY <1>10 DEF reconcileSeals, restoreSealedKey, NoRequest
  <2> QED BY <1>0, <2>1, <2>2, <2>3 DEF At
\* The lease that a pass drops is followed by the unload.
<1>11. ASSUME NEW r \in Replicas, CheckPass(r)
       PROVE  Kept(q)'
  <2>1. UNCHANGED <<mem, req, hd>> /\ pass[r].pc = "check"
    BY <1>11 DEF CheckPass
  <2>2. q # r => pass'[q] = pass[q] /\ lease'[q] = lease[q]
    BY <1>0, <1>11, <1>3 DEF CheckPass
  <2>3. q = r /\ lease[q] => lease'[q] \/ pass'[q].pc = "unload"
    BY <1>0, <1>11, <1>3 DEF CheckPass, PassTo
  <2> QED BY <1>0, <2>1, <2>2, <2>3 DEF At
<1>12. ASSUME NEW r \in Replicas, unloadSealedKey(r) \/ restoreFromSeals(r) \/ installSealedKey(r)
       PROVE  Kept(q)'
  <2>1. UNCHANGED <<req, hd>>
    BY <1>12 DEF unloadSealedKey, restoreFromSeals, installSealedKey
  <2>2. CASE unloadSealedKey(r)
    BY <1>0, <1>1, <1>3, <2>1, <2>2 DEF unloadSealedKey, At
  <2>3. CASE restoreFromSeals(r)
    BY <1>0, <1>1, <2>1, <2>3 DEF restoreFromSeals, PassTo, At
  <2>4. CASE installSealedKey(r)
    BY <1>0, <1>3, <2>1, <2>4 DEF installSealedKey, At
  <2> QED BY <1>12, <2>2, <2>3, <2>4
<1>13. ASSUME Request
       PROVE  Kept(q)'
  <2>1. UNCHANGED <<pass, hd>>
    BY <1>13 DEF Request, CheckRequest, RequestRestores, RequestLeases
  <2>2. CASE CheckRequest
    BY <1>0, <2>1, <2>2 DEF CheckRequest, memVars, At
  <2>3. CASE RequestRestores
    <3>1. req'.pc = "lease" /\ req'.rep = req.rep
      BY <2>3 DEF RequestRestores, SessionInv, SessionTypeOK
    <3> QED BY <1>0, <1>1, <2>1, <2>3, <3>1 DEF RequestRestores, At
  <2>4. CASE RequestLeases
    BY <1>0, <2>1, <2>4 DEF RequestLeases, Lease, At
  <2> QED BY <1>13, <2>2, <2>3, <2>4 DEF Request
\* A handler that drops a lease unloads the key in its next step.
<1>14. ASSUME lockSealedKey
       PROVE  Kept(q)'
  <2>1. UNCHANGED <<mem, pass, req>> /\ hd.todo # <<>> /\ Head(hd.todo) = "lock" /\ hd' = Rest
    BY <1>14 DEF lockSealedKey, memVars, procVars, At
  <2>2. Len(hd.todo) # 1 /\ Tail(hd.todo) # <<>> /\ Head(Tail(hd.todo)) = "unload"
    BY <1>4, <2>1, AfterLock
  <2>3. At("unload")' /\ hd'.rep = hd.rep /\ hd'.found = hd.found
    BY <2>1, <2>2 DEF Rest, At, SessionInv, SessionTypeOK
  <2>4. q # hd.rep \/ ~hd.found => lease'[q] = lease[q]
    BY <1>0, <1>14 DEF lockSealedKey, SessionInv, SessionTypeOK
  <2>5. ~At("unload")
    BY <2>1 DEF At
  <2> QED BY <1>0, <2>1, <2>3, <2>4, <2>5
<1>15. ASSUME UnloadLocked
       PROVE  Kept(q)'
  <2>1. UNCHANGED <<lease, pass, req>>
    BY <1>15 DEF UnloadLocked, procVars
  <2>2. mem[q] = "sealed" /\ (hd.found => q # hd.rep)
    BY <1>1, <1>15 DEF UnloadLocked
  <2> QED BY <1>0, <2>1, <2>2
<1>16. ASSUME \/ unloadUserVaultKeys \/ DeleteSessionSealsByUser \/ evictRemote \/ DeleteSessionSealsBySession
              \/ DeleteUserSession \/ hasLiveSession \/ DeleteUserSessions \/ endSessions \/ UnlockAgain
       PROVE  Kept(q)'
  <2>1. UNCHANGED <<lease, pass, req>> /\ ~At("unload")
    BY <1>16 DEF unloadUserVaultKeys, DeleteSessionSealsByUser, evictRemote, DeleteSessionSealsBySession,
       DeleteUserSession, hasLiveSession, DeleteUserSessions, endSessions, UnlockAgain, memVars, procVars, At
  <2>2. mem' = mem \/ \E x : UnregisterKey(x)
    BY <1>16 DEF unloadUserVaultKeys, DeleteSessionSealsByUser, evictRemote, DeleteSessionSealsBySession,
       DeleteUserSession, hasLiveSession, DeleteUserSessions, endSessions, UnlockAgain, memVars
  <2>3. mem[q] = "sealed"
    BY <1>1, <2>2
  <2> QED BY <1>0, <2>1, <2>3
<1>17. ASSUME NEW r \in Replicas, Crash(r)
       PROVE  Kept(q)'
  <2>1. q # r /\ mem[q] = "sealed" /\ lease'[q] = lease[q] /\ pass'[q] = pass[q]
    BY <1>0, <1>17 DEF Crash
  <2>2. (req.rep = q => req' = req) /\ (hd.rep = q => hd' = hd)
    BY <1>17, <2>1 DEF Crash
  <2> QED BY <1>0, <2>1, <2>2 DEF At
<1>18. ASSUME UNCHANGED sessionVars
       PROVE  Kept(q)'
  BY <1>5, <1>18 DEF sessionVars, Calm
<1>19. NoReplica \notin Watched /\ Watched \subseteq Replicas
  BY IdAssumption
<1> HIDE DEF Kept
<1> QED
  BY <1>19, <1>6, <1>7, <1>8, <1>9, <1>10, <1>11, <1>12, <1>13, <1>14, <1>15, <1>16, <1>17, <1>18
     DEF SessionNext, Tasks, Reconcile, Handle

\* Types of the sign-in sessions, their seals, leases and processes, for any
\* number of replicas and sessions and any deployment.
THEOREM SessionTypesAlways == SessionSpec => []SessionTypeOK
<1>1. SessionInit => SessionInv
  BY SessionInitInv
<1>2. SessionInv /\ [SessionNext]_sessionVars => SessionInv'
  BY SessionTypes, LeaseKept DEF SessionInv
<1>3. SessionInv => SessionTypeOK
  BY DEF SessionInv
<1> QED BY <1>1, <1>2, <1>3, PTL DEF SessionSpec

\* A key restored from a seal is never in memory without the lease by which
\* the reconciliation passes find and drop it, except between the steps of
\* whoever is about to take the lease or to unload the key.
THEOREM SealedKeysAreLeased == SessionSpec => []SealedKeyIsLeased
<1>1. SessionInit => SessionInv
  BY SessionInitInv
<1>2. SessionInv /\ [SessionNext]_sessionVars => SessionInv'
  BY SessionTypes, LeaseKept DEF SessionInv
<1>3. SessionInv => SealedKeyIsLeased
  BY DEF SessionInv
<1> QED BY <1>1, <1>2, <1>3, PTL DEF SessionSpec
=============================================================================
