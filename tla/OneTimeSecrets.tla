--------------------------- MODULE OneTimeSecrets ---------------------------
(***************************************************************************)
(* One-time access: tokens, redeemed over HTTP for the grant their policy  *)
(* describes, and bunker secrets, presented in a connect request for a     *)
(* grant of everything.  The SQL backends look a secret up and mark it as  *)
(* used in two statements; the memory backend does both under its mutex.   *)
(* A grant made from a policy is then used under the policy's usage limit, *)
(* which is also read in one statement and counted in another.             *)
(*                                                                         *)
(* One key, one policy with one rule.  Displacement between clients is in  *)
(* GrantStore, the rest of request processing in RequestAuth.              *)
(***************************************************************************)
EXTENDS Integers, FiniteSets

CONSTANTS
  Tokens, Secrets,    \* the ids that will be issued; they are random, so never twice
  Clients, NoClient, NoItem,
  Procs,              \* redemptions and connect requests in flight
  Workers,            \* requests under a grant in flight
  Backends,           \* bound: "sql" (Postgres, SQLite), "memory"
  Limits,             \* bound: values of max_usage, 0 is unlimited
  MaxRequests         \* bound on the requests under a grant

Items == Tokens \cup Secrets

ASSUME ItemAssumption ==
  /\ Tokens \cap Secrets = {} /\ NoItem \notin Items /\ NoClient \notin Clients
ASSUME LimitAssumption == Limits \subseteq Nat /\ MaxRequests \in Nat
ASSUME WorkerAssumption == IsFiniteSet(Workers)
ASSUME BackendAssumption == Backends \subseteq {"sql", "memory"}

VARIABLES
  backend,
  item,      \* the rows of signer_tokens and signer_bunker_secrets
  accepted,  \* history: how often each was accepted
  keyExists,
  policy, lapsed, limit,   \* the policy's row, its expires_at has passed, max_usage
  usage,     \* current_usage of its rule
  perm,      \* each client's grant: none, from the policy, or of everything
  hs,        \* redemptions and connect requests
  wk,        \* requests under a grant
  started, answered, uncounted   \* history: those requests; under the rule: answered, not counted

vars == <<backend, item, accepted, keyExists, policy, lapsed, limit, usage, perm, hs, wk,
          started, answered, uncounted>>
itemVars == <<item, accepted>>
policyVars == <<policy, lapsed, limit, usage>>
workVars == <<wk, started, answered, uncounted>>

Handler == [pc : {"idle", "validate", "mark", "policy", "key", "store"},
            client : Clients \cup {NoClient}, item : Items \cup {NoItem},
            before : SUBSET Items]
Idle == [pc |-> "idle", client |-> NoClient, item |-> NoItem, before |-> {}]
Worker == [pc : {"idle", "check", "work", "answer"}, limited : BOOLEAN, rule : BOOLEAN]
Resting == [pc |-> "idle", limited |-> FALSE, rule |-> FALSE]

TypeOK ==
  /\ backend \in Backends
  /\ item \in [Items -> {"none", "open", "used", "expired", "gone"}]
  /\ accepted \in [Items -> Nat]
  /\ keyExists \in BOOLEAN
  /\ policy \in {"none", "live", "deleted"} /\ lapsed \in BOOLEAN /\ limit \in Limits
  /\ usage \in Nat
  /\ perm \in [Clients -> {"none", "policy", "full"}]
  /\ hs \in [Procs -> Handler] /\ wk \in [Workers -> Worker]
  /\ started \in Nat /\ answered \in Nat /\ uncounted \in Nat

Init ==
  /\ backend \in Backends
  /\ item = [i \in Items |-> "none"] /\ accepted = [i \in Items |-> 0]
  /\ keyExists = TRUE
  /\ policy = "none" /\ lapsed = FALSE /\ limit \in Limits /\ usage = 0
  /\ perm = [c \in Clients |-> "none"]
  /\ hs = [p \in Procs |-> Idle] /\ wk = [w \in Workers |-> Resting]
  /\ started = 0 /\ answered = 0 /\ uncounted = 0

-----------------------------------------------------------------------------
(* The owner's operations, and time.                                       *)

CreatePolicy ==
  /\ policy = "none" /\ policy' = "live"
  /\ UNCHANGED <<backend, itemVars, keyExists, lapsed, limit, usage, perm, hs, workVars>>

\* The rules go with it (ON DELETE CASCADE); tokens and grants stay.
DeletePolicy ==
  /\ policy = "live" /\ policy' = "deleted"
  /\ UNCHANGED <<backend, itemVars, keyExists, lapsed, limit, usage, perm, hs, workVars>>

\* The policy's expires_at, which its grants were given too.
PolicyLapses ==
  /\ policy # "none" /\ ~lapsed /\ lapsed' = TRUE
  /\ UNCHANGED <<backend, itemVars, keyExists, policy, limit, usage, perm, hs, workVars>>

GetPolicy == policy = "live" /\ ~lapsed

SetItem(i, s) ==
  /\ item' = [item EXCEPT ![i] = s]
  /\ UNCHANGED <<backend, accepted, keyExists, policyVars, perm, hs, workVars>>

CreateToken(t) == item[t] = "none" /\ GetPolicy /\ keyExists /\ SetItem(t, "open")

DeleteToken(t) == item[t] \in {"open", "used", "expired"} /\ SetItem(t, "gone")

CreateBunkerSecret(s) == item[s] = "none" /\ keyExists /\ SetItem(s, "open")

\* Expiry only matters to a secret that is still open.
ItemExpires(i) == item[i] = "open" /\ SetItem(i, "expired")

\* Grants stay behind on a deleted key: see GrantStore.
DeleteKey ==
  /\ keyExists /\ keyExists' = FALSE
  /\ UNCHANGED <<backend, itemVars, policyVars, perm, hs, workVars>>

DeletePermission(c) ==
  /\ perm[c] # "none" /\ perm' = [perm EXCEPT ![c] = "none"]
  /\ UNCHANGED <<backend, itemVars, keyExists, policyVars, hs, workVars>>

\* A grant made by hand has no policy; an amended live one keeps its own.
handleSetPermission(c) ==
  /\ perm[c] = "none" \/ (perm[c] = "policy" /\ lapsed)
  /\ perm' = [perm EXCEPT ![c] = "full"]
  /\ UNCHANGED <<backend, itemVars, keyExists, policyVars, hs, workVars>>

-----------------------------------------------------------------------------
(* Redeeming a token; connecting with a bunker secret.                     *)

\* What can no longer be accepted by a request that starts now.
Spent == {i \in Items : accepted[i] > 0 \/ item[i] \in {"expired", "gone"}}

To(p, s) == hs' = [hs EXCEPT ![p].pc = s]
Finish(p) == hs' = [hs EXCEPT ![p] = Idle]

\* Mutant: redeemed_at is not written.
MarkUsedNot(i) ==
  /\ accepted' = [accepted EXCEPT ![i] = @ + 1]
  /\ UNCHANGED item

\* The UPDATE names the row by id only, so a deleted one is no error.
MarkUsed(i) ==
  /\ item' = [item EXCEPT ![i] = IF @ = "gone" THEN @ ELSE "used"]
  /\ accepted' = [accepted EXCEPT ![i] = @ + 1]

\* Where a request goes on once its secret is accepted.
Accepted(i) == IF i \in Tokens THEN "policy" ELSE "store"

\* RedeemToken as called by handleRedeemToken: a token that is missing,
\* redeemed or expired is refused and nothing changes.
RedeemToken(p, c, t) ==
  /\ hs[p].pc = "idle" /\ item[t] = "open"
  /\ hs' = [hs EXCEPT ![p] = [pc |-> IF backend = "memory" THEN Accepted(t) ELSE "mark",
                              client |-> c, item |-> t, before |-> Spent]]
  /\ IF backend = "memory" THEN MarkUsed(t) ELSE UNCHANGED itemVars
  /\ UNCHANGED <<backend, keyExists, policyVars, perm, workVars>>

\* A connect request of a client without a grant carries a secret.
Connect(p, c, s) ==
  /\ hs[p].pc = "idle" /\ item[s] # "none" /\ perm[c] = "none"
  /\ hs' = [hs EXCEPT ![p] = [pc |-> "validate", client |-> c, item |-> s, before |-> Spent]]
  /\ UNCHANGED <<backend, itemVars, keyExists, policyVars, perm, workVars>>

\* Mutant: the memory backend reads under a read lock and marks later.
ValidateBunkerSecretUnlocked(p) ==
  LET s == hs[p].item
  IN  /\ hs[p].pc = "validate"
      /\ IF item[s] = "open" THEN To(p, "mark") ELSE Finish(p)
      /\ UNCHANGED itemVars
      /\ UNCHANGED <<backend, keyExists, policyVars, perm, workVars>>

\* An expired row is deleted on sight; an invalid secret leaves the request to
\* the approval flow.
ValidateBunkerSecret(p) ==
  LET s == hs[p].item
  IN  /\ hs[p].pc = "validate"
      /\ \/ /\ item[s] = "open" /\ backend = "memory"
            /\ MarkUsed(s) /\ To(p, Accepted(s))
         \/ /\ item[s] = "open" /\ backend = "sql"
            /\ To(p, "mark") /\ UNCHANGED itemVars
         \/ /\ item[s] # "open"
            /\ item' = [item EXCEPT ![s] = IF @ = "expired" THEN "gone" ELSE @]
            /\ Finish(p) /\ UNCHANGED accepted
      /\ UNCHANGED <<backend, keyExists, policyVars, perm, workVars>>

\* The second statement of RedeemToken and ValidateBunkerSecret.
Mark(p) ==
  /\ hs[p].pc = "mark"
  /\ MarkUsed(hs[p].item) /\ To(p, Accepted(hs[p].item))
  /\ UNCHANGED <<backend, keyExists, policyVars, perm, workVars>>

\* handleRedeemToken goes on: without its policy or its key the token is
\* spent for nothing.
RedeemPolicy(p) ==
  /\ hs[p].pc = "policy"
  /\ IF GetPolicy THEN To(p, "key") ELSE Finish(p)
  /\ UNCHANGED <<backend, itemVars, keyExists, policyVars, perm, workVars>>

RedeemKey(p) ==
  /\ hs[p].pc = "key"
  /\ IF keyExists THEN To(p, "store") ELSE Finish(p)
  /\ UNCHANGED <<backend, itemVars, keyExists, policyVars, perm, workVars>>

\* SetPermission with what the secret is good for.
SetPermission(p) ==
  /\ hs[p].pc = "store"
  /\ perm' = [perm EXCEPT ![hs[p].client] = IF hs[p].item \in Tokens THEN "policy" ELSE "full"]
  /\ Finish(p)
  /\ UNCHANGED <<backend, itemVars, keyExists, policyVars, workVars>>

\* A storage error, a closed connection or the death of the process ends a
\* request between any two of its steps.
Abort(p) ==
  /\ hs[p].pc # "idle" /\ Finish(p)
  /\ UNCHANGED <<backend, itemVars, keyExists, policyVars, perm, workVars>>

-----------------------------------------------------------------------------
(* Requests under a grant.                                                 *)

\* GetPermission: a grant that lapsed with its policy is refused.
StartRequest(w, c) ==
  /\ wk[w].pc = "idle" /\ started < MaxRequests
  /\ perm[c] = "full" \/ (perm[c] = "policy" /\ ~lapsed)
  /\ wk' = [wk EXCEPT ![w] = [pc |-> "check", limited |-> perm[c] = "policy", rule |-> FALSE]]
  /\ started' = started + 1
  /\ UNCHANGED <<backend, itemVars, keyExists, policyVars, perm, hs, answered, uncounted>>

\* Mutant: one more than max_usage.
BelowLimitOrEqual == limit > 0 => usage <= limit

BelowLimit == limit > 0 => usage < limit

\* A policy that cannot be found limits nothing.
checkPolicyUsage(w) ==
  /\ wk[w].pc = "check"
  /\ \/ /\ wk[w].limited /\ GetPolicy /\ BelowLimit
        /\ wk' = [wk EXCEPT ![w].pc = "work", ![w].rule = TRUE]
     \/ /\ wk[w].limited /\ GetPolicy /\ ~BelowLimit
        /\ wk' = [wk EXCEPT ![w] = Resting]
     \/ /\ ~wk[w].limited \/ ~GetPolicy
        /\ wk' = [wk EXCEPT ![w].pc = "answer"]
  /\ UNCHANGED <<backend, itemVars, keyExists, policyVars, perm, hs, started, answered, uncounted>>

\* The method runs, then the deferred IncrementRuleUsage; its failure is
\* logged only, and it does fail when the rule is gone.
IncrementRuleUsage(w) ==
  /\ wk[w].pc = "work"
  /\ wk' = [wk EXCEPT ![w].pc = "answer"]
  /\ \/ policy = "live" /\ usage' = usage + 1 /\ UNCHANGED uncounted
     \/ uncounted' = uncounted + 1 /\ UNCHANGED usage
  /\ UNCHANGED <<backend, itemVars, keyExists, policy, lapsed, limit, perm, hs, started, answered>>

sendResult(w) ==
  /\ wk[w].pc = "answer"
  /\ wk' = [wk EXCEPT ![w] = Resting]
  /\ answered' = IF wk[w].rule THEN answered + 1 ELSE answered
  /\ UNCHANGED <<backend, itemVars, keyExists, policyVars, perm, hs, started, uncounted>>

RequestDies(w) ==
  /\ wk[w].pc # "idle"
  /\ wk' = [wk EXCEPT ![w] = Resting]
  /\ UNCHANGED <<backend, itemVars, keyExists, policyVars, perm, hs, started, answered, uncounted>>

-----------------------------------------------------------------------------
Owner ==
  \/ CreatePolicy \/ DeletePolicy \/ PolicyLapses \/ DeleteKey
  \/ \E t \in Tokens : CreateToken(t) \/ DeleteToken(t)
  \/ \E s \in Secrets : CreateBunkerSecret(s)
  \/ \E i \in Items : ItemExpires(i)
  \/ \E c \in Clients : DeletePermission(c) \/ handleSetPermission(c)

Redemption ==
  \E p \in Procs :
    \/ \E c \in Clients, t \in Tokens : RedeemToken(p, c, t)
    \/ \E c \in Clients, s \in Secrets : Connect(p, c, s)
    \/ ValidateBunkerSecret(p) \/ Mark(p) \/ RedeemPolicy(p) \/ RedeemKey(p)
    \/ SetPermission(p) \/ Abort(p)

Work ==
  \E w \in Workers :
    \/ \E c \in Clients : StartRequest(w, c)
    \/ checkPolicyUsage(w) \/ IncrementRuleUsage(w) \/ sendResult(w) \/ RequestDies(w)

Next == Owner \/ Redemption \/ Work

Spec == Init /\ [][Next]_vars

-----------------------------------------------------------------------------
(* Properties.                                                             *)

\* RedeemToken, ValidateBunkerSecret: a request that started after the secret
\* had been accepted once, had expired or had been deleted is not let past the
\* check, however the two statements of the others interleave with its own.
NoLateAcceptance ==
  \A p \in Procs : hs[p].pc \in {"mark", "policy", "key", "store"} => hs[p].item \notin hs[p].before

\* The memory backend's secrets are one-time as OneTime says: look-up and mark
\* are one step.  (The SQL backends promise only NoLateAcceptance.)
Once == INSTANCE OneTime WITH
  taken <- [i \in Items |-> IF backend = "memory" THEN accepted[i] ELSE 0]
MemoryIsOneTime == Once!Spec

\* checkPolicyUsage: the limit may be overrun by requests that read the counter
\* together, but never by more than all of them but one, and by the uses
\* whose count was lost.
UsageLimitHolds ==
  limit > 0 => answered <= limit + Cardinality(Workers) - 1 + uncounted

\* What the proofs need besides: an accepted secret is never open again, nor is
\* one that was spent when a request started; a request past its start names
\* its client and its secret; the memory backend has no half-done check.
SpentStays ==
  /\ \A i \in Items : accepted[i] > 0 => item[i] \in {"used", "gone"}
  /\ \A p \in Procs : \A i \in hs[p].before : item[i] \in {"used", "expired", "gone"}
HandlersNamed ==
  \A p \in Procs : hs[p].pc # "idle" => hs[p].client \in Clients /\ hs[p].item \in Items
MemoryMarks ==
  backend = "memory" => \A p \in Procs : hs[p].pc # "mark"

\* Requests between check and count, and between count and answer.
Working == {w \in Workers : wk[w].pc = "work"}
Answering == {w \in Workers : wk[w].pc = "answer" /\ wk[w].rule}
UsageInv ==
  /\ \A w \in Workers : wk[w].pc = "check" => ~wk[w].rule
  /\ limit > 0 => usage + Cardinality(Working) <= limit + Cardinality(Workers) - 1
  /\ answered + Cardinality(Answering) <= usage + uncounted

IInv == TypeOK /\ SpentStays /\ HandlersNamed /\ NoLateAcceptance /\ MemoryMarks /\ UsageInv
=============================================================================
