---------------------------- MODULE RequestAuth -----------------------------
(***************************************************************************)
(* What happens to a NIP-46 request after its replica has claimed it: the  *)
(* grant is read, the request is served, refused, or parked until the key's *)
(* owner decides.  A parked request has a row in the shared database and a *)
(* context in the memory of ONE replica; the decision is made by an HTTP or *)
(* DM handler on ANY replica, which touches the two in separate steps.     *)
(*                                                                         *)
(* Grants are reduced to what a request sees of them (GrantStore has the   *)
(* rest): none, live or expired, and a set of methods.  Time is one bit    *)
(* per parked request: its ExpiresAt has passed.  A call of the storage    *)
(* may fail, and where the code goes on regardless so does the model.      *)
(***************************************************************************)
EXTENDS Integers

CONSTANTS
  Reqs,            \* requests
  Clients,
  Methods, Connect,
  ClientOf, MethodOf,   \* who asks for what
  WithSecret,      \* connect requests that carry a bunker secret
  Replicas, NoReplica,
  Deciders,        \* approve and deny handlers in flight
  NoReq,
  GlobalApproval,  \* config.Auth.RequireApproval
  MethodSets,      \* bound: the method lists an approval or an edit names
  MaxFaults        \* bound: crashes and steps in which the storage fails

ASSUME RequestAssumption ==
  /\ ClientOf \in [Reqs -> Clients] /\ MethodOf \in [Reqs -> Methods]
  /\ Connect \in Methods /\ NoReq \notin Reqs /\ NoReplica \notin Replicas
  /\ WithSecret \subseteq {r \in Reqs : MethodOf[r] = Connect}
ASSUME ConfigAssumption ==
  GlobalApproval \in BOOLEAN /\ MethodSets \subseteq SUBSET Methods /\ MaxFaults \in Nat

VARIABLES
  keyExists, keyApproval,  \* the signer_keys row: exists, require_approval
  deleting,    \* the account is being deleted: its grants were revoked
  loaded,      \* replicas that hold the key in memory
  grant,       \* the client's grant as GetPermission sees it
  pc, home,    \* where each request is, and on which replica
  snap,        \* the grant as read before processRequest was started
  rows,        \* signer_pending_requests
  late,        \* parked requests whose ExpiresAt has passed
  ctx,         \* pendingCtx of the request's replica
  chan,        \* its resultChan: empty or one verdict
  first,       \* history: the first verdict that reached the channel
  verdict,     \* what waitForAuthorization returned
  served,      \* requests that reached handleRequest
  refused,     \* requests answered with an error before it
  dec,         \* handlers in flight
  covered,     \* history: requests whose client had a live grant while they were
               \* here, or that brought a valid bunker secret
  faults

vars == <<keyExists, keyApproval, deleting, loaded, grant, pc, home, snap, rows, late, ctx, chan, first,
          verdict, served, refused, dec, covered, faults>>

keyVars == <<keyExists, keyApproval, deleting, loaded>>
reqVars == <<pc, home, snap, verdict, served, refused>>
pendVars == <<rows, late, ctx, chan, first>>

GrantRow == [state : {"none", "live", "expired"}, methods : SUBSET Methods]
NoGrant == [state |-> "none", methods |-> {}]
ExpiredGrant == [state |-> "expired", methods |-> {}]

Handler == [pc : {"idle", "store", "delete", "notify"}, req : Reqs \cup {NoReq},
            at : Replicas \cup {NoReplica}, approve : BOOLEAN, methods : SUBSET Methods]
IdleHandler == [pc |-> "idle", req |-> NoReq, at |-> NoReplica, approve |-> FALSE,
                methods |-> {}]

Verdicts == {"empty", "approve", "deny"}

TypeOK ==
  /\ keyExists \in BOOLEAN /\ keyApproval \in BOOLEAN /\ deleting \in BOOLEAN
  /\ loaded \subseteq Replicas
  /\ grant \in [Clients -> GrantRow]
  /\ pc \in [Reqs -> {"new", "processing", "park", "context", "waiting", "leaving",
                      "done", "lost"}]
  /\ home \in [Reqs -> Replicas \cup {NoReplica}] /\ snap \in [Reqs -> GrantRow]
  /\ rows \subseteq Reqs /\ late \subseteq Reqs /\ ctx \subseteq Reqs
  /\ chan \in [Reqs -> Verdicts] /\ first \in [Reqs -> Verdicts]
  /\ verdict \in [Reqs -> {"none", "approve", "deny", "timeout"}]
  /\ served \subseteq Reqs /\ refused \subseteq Reqs
  /\ dec \in [Deciders -> Handler]
  /\ covered \subseteq Reqs
  /\ faults \in Nat

Init ==
  /\ keyExists = TRUE /\ keyApproval \in BOOLEAN /\ deleting = FALSE /\ loaded = Replicas
  /\ grant = [c \in Clients |-> NoGrant]
  /\ pc = [r \in Reqs |-> "new"] /\ home = [r \in Reqs |-> NoReplica]
  /\ snap = [r \in Reqs |-> NoGrant]
  /\ rows = {} /\ late = {} /\ ctx = {}
  /\ chan = [r \in Reqs |-> "empty"] /\ first = chan /\ verdict = [r \in Reqs |-> "none"]
  /\ served = {} /\ refused = {}
  /\ dec = [d \in Deciders |-> IdleHandler]
  /\ covered = {} /\ faults = 0

-----------------------------------------------------------------------------
(* The signer.                                                             *)

Goto(r, s) == pc' = [pc EXCEPT ![r] = s]
Serve(r) == Goto(r, "done") /\ served' = served \cup {r} /\ UNCHANGED refused
Refuse(r) == Goto(r, "done") /\ refused' = refused \cup {r} /\ UNCHANGED served

\* Whether a call of the storage failed in this step.
Storage(failed) ==
  \/ ~failed /\ UNCHANGED faults
  \/ failed /\ faults < MaxFaults /\ faults' = faults + 1

\* The request has been taken up and not answered.
InFlight(r) == pc[r] \notin {"new", "done", "lost"}

\* A stored grant.  On a single-grant key the other clients of the slot are
\* displaced in the same transaction.
SetPermission(c, ms, displaced) ==
  /\ grant' = [d \in Clients |-> IF d = c THEN [state |-> "live", methods |-> ms]
                                 ELSE IF d \in displaced THEN NoGrant ELSE grant[d]]
  /\ covered' = covered \cup {r \in Reqs : InFlight(r) /\ ClientOf[r] = c}

\* Read the grant; a missing one on a deleted key evicts the key instead.  A
\* grant that could not be read counts as none, a key that could not be looked
\* up as existing.
decryptAndDispatch(r, rep, unread, unknown) ==
  LET held == grant[ClientOf[r]]
      g == IF unread THEN NoGrant ELSE held
      gone == g.state # "live" /\ ~keyExists /\ ~unknown
  IN  /\ pc[r] = "new" /\ rep \in loaded
      /\ Storage(unread \/ unknown)
      /\ home' = [home EXCEPT ![r] = rep]
      /\ snap' = [snap EXCEPT ![r] = g]
      /\ Goto(r, IF gone THEN "lost" ELSE "processing")
      /\ loaded' = IF gone THEN loaded \ {rep} ELSE loaded
      /\ covered' = IF held.state = "live" THEN covered \cup {r} ELSE covered
      /\ UNCHANGED <<keyExists, keyApproval, deleting, grant, verdict, served, refused, pendVars,
                     dec>>

\* "*" is stored as every method.
isMethodAllowed(g, m) == m \in g.methods

\* Only new clients are asked for: no handler sets a grant's own flag.
\* When the key cannot be looked up, the global setting decides.
shouldRequireApproval(failed) == (~failed /\ keyExists /\ keyApproval) \/ GlobalApproval

\* Decided on the grant as it was read.  UpdatePermissionLastUsed is
\* GrantStore's TouchGrant.
processRequest(r, failed) ==
  /\ pc[r] = "processing" /\ Storage(failed)
  /\ \/ /\ snap[r].state = "live"
        /\ IF isMethodAllowed(snap[r], MethodOf[r]) THEN Serve(r) ELSE Refuse(r)
     \/ /\ snap[r].state = "expired"
        /\ Refuse(r)
     \/ /\ snap[r].state = "none"      \* no secret, or one that is not valid
        /\ IF shouldRequireApproval(failed)
             THEN Goto(r, "park") /\ UNCHANGED <<served, refused>>
             ELSE Refuse(r)
  /\ UNCHANGED <<keyVars, grant, home, snap, verdict, covered, pendVars, dec>>

\* A connect with a valid bunker secret is granted every method and served,
\* served too when the grant could not be stored.
connectWithSecret(r, displaced, failed) ==
  /\ pc[r] = "processing" /\ snap[r].state = "none" /\ r \in WithSecret
  /\ Storage(failed)
  /\ \/ ~failed /\ SetPermission(ClientOf[r], Methods, displaced)
     \/ failed /\ covered' = covered \cup {r} /\ UNCHANGED grant
  /\ Serve(r)
  /\ UNCHANGED <<keyVars, home, snap, verdict, pendVars, dec>>

\* waitForAuthorization: the row first, visible to every replica (without it
\* the request is refused) ...
CreatePendingRequest(r, failed) ==
  /\ pc[r] = "park" /\ Storage(failed)
  /\ \/ ~failed /\ rows' = rows \cup {r} /\ Goto(r, "context") /\ UNCHANGED <<served, refused>>
     \/ failed /\ Refuse(r) /\ UNCHANGED rows
  /\ UNCHANGED <<keyVars, grant, home, snap, verdict, covered, late, ctx, chan, first, dec>>

\* ... then the channel and the context, in this replica's memory.
storePendingContext(r) ==
  /\ pc[r] = "context"
  /\ ctx' = ctx \cup {r}
  /\ Goto(r, "waiting")
  /\ UNCHANGED <<keyVars, grant, home, snap, verdict, served, refused, covered, faults,
                 rows, late, chan, first, dec>>

\* The loop's select: a verdict in the channel, a poll that finds a live grant
\* of the client (whatever its methods), or the deadline, which is later than
\* the row's ExpiresAt.  With several ready, Go picks any.
Leave(r, v) ==
  /\ pc[r] = "waiting"
  /\ verdict' = [verdict EXCEPT ![r] = v]
  /\ Goto(r, "leaving")
  /\ UNCHANGED <<keyVars, grant, home, snap, served, refused, covered, faults, rows, late, ctx,
                 first, dec>>

receiveVerdict(r) ==
  /\ chan[r] # "empty" /\ Leave(r, chan[r])
  /\ chan' = [chan EXCEPT ![r] = "empty"]

pollGrant(r) == grant[ClientOf[r]].state = "live" /\ Leave(r, "approve") /\ UNCHANGED chan

\* Mutant: the deadline hangs on the row that a handler may have deleted.
deadlineOfRow(r) == r \in rows /\ r \in late /\ Leave(r, "timeout") /\ UNCHANGED chan
deadline(r) == r \in late /\ Leave(r, "timeout") /\ UNCHANGED chan

\* The deferred clean-up (the channel goes with the context, the clock with the
\* row, and a row that cannot be deleted stays), then the answer; the approved
\* permission is not tested against the method again.
handlePendingApproval(r, failed) ==
  /\ pc[r] = "leaving" /\ Storage(failed)
  /\ ctx' = ctx \ {r} /\ chan' = [chan EXCEPT ![r] = "empty"]
  /\ IF failed THEN UNCHANGED <<rows, late>> ELSE rows' = rows \ {r} /\ late' = late \ {r}
  /\ IF verdict[r] = "approve" THEN Serve(r) ELSE Refuse(r)
  /\ UNCHANGED <<keyVars, grant, home, snap, verdict, first, covered, dec>>

-----------------------------------------------------------------------------
(* The owner's decision: handlers of the API, the web UI and the admin DM. *)

Decide(d, f) == dec' = [dec EXCEPT ![d] = f]

\* GetPendingRequest: the row exists and has not expired.
GetPendingRequest(r) == r \in rows /\ r \notin late

\* The API tests ownership of the key first; the web UI and the DM command
\* do not read the key.  methods = {} stands for "do not remember".
handleApproveRequest(d, r, at, ms) ==
  /\ dec[d].pc = "idle" /\ GetPendingRequest(r)
  /\ Decide(d, [pc |-> IF ms = {} THEN "delete" ELSE "store", req |-> r, at |-> at,
                approve |-> TRUE, methods |-> ms])
  /\ UNCHANGED <<keyVars, grant, reqVars, pendVars, covered, faults>>

handleDenyRequest(d, r, at) ==
  /\ dec[d].pc = "idle" /\ GetPendingRequest(r)
  /\ Decide(d, [pc |-> "delete", req |-> r, at |-> at, approve |-> FALSE, methods |-> {}])
  /\ UNCHANGED <<keyVars, grant, reqVars, pendVars, covered, faults>>

\* "remember": the grant, before the row is deleted.  When it cannot be stored
\* the API's handler gives up and the web UI's goes on.
approveStore(d, displaced, failed) ==
  /\ dec[d].pc = "store" /\ Storage(failed)
  /\ \/ ~failed /\ SetPermission(ClientOf[dec[d].req], dec[d].methods, displaced)
     \/ failed /\ UNCHANGED <<grant, covered>>
  /\ \/ Decide(d, [dec[d] EXCEPT !.pc = "delete"])
     \/ failed /\ Decide(d, IdleHandler)
  /\ UNCHANGED <<keyVars, reqVars, pendVars>>

\* A row that cannot be deleted stays; the signer is told all the same.
DeletePendingRequest(d, failed) ==
  /\ dec[d].pc = "delete" /\ Storage(failed)
  /\ rows' = IF failed THEN rows ELSE rows \ {dec[d].req}
  /\ Decide(d, [dec[d] EXCEPT !.pc = "notify"])
  /\ UNCHANGED <<keyVars, grant, reqVars, late, ctx, chan, first, covered>>

VerdictOf(d) == IF dec[d].approve THEN "approve" ELSE "deny"

\* What a verdict does to the channel and to the record of the first one.
Deliver(r, v) ==
  /\ chan' = [chan EXCEPT ![r] = v]
  /\ first' = IF first[r] = "empty" THEN [first EXCEPT ![r] = v] ELSE first

\* Mutant: a later verdict replaces the one in the channel.
SignalOverwrites(d) ==
  LET r == dec[d].req
  IN  IF r \in ctx /\ home[r] = dec[d].at
        THEN Deliver(r, VerdictOf(d))
        ELSE UNCHANGED <<chan, first>>

\* ApproveRequest, DenyRequest: only a context of this replica, only when its
\* channel is empty.
Signal(d) ==
  LET r == dec[d].req
  IN  IF r \in ctx /\ home[r] = dec[d].at /\ chan[r] = "empty"
        THEN Deliver(r, VerdictOf(d))
        ELSE UNCHANGED <<chan, first>>

notifySigner(d) ==
  /\ dec[d].pc = "notify"
  /\ Signal(d)
  /\ Decide(d, IdleHandler)
  /\ UNCHANGED <<keyVars, grant, reqVars, rows, late, ctx, covered, faults>>

-----------------------------------------------------------------------------
(* The rest of the system.                                                 *)

\* A grant made or edited through the API (GrantStore).
handleSetPermission(c, ms, displaced) ==
  /\ keyExists /\ ms # {}
  /\ SetPermission(c, ms, displaced)
  /\ UNCHANGED <<keyVars, reqVars, pendVars, dec, faults>>

GrantExpires(c) ==
  /\ grant[c].state = "live"
  /\ grant' = [grant EXCEPT ![c] = ExpiredGrant]
  /\ UNCHANGED <<keyVars, reqVars, pendVars, dec, covered, faults>>

handleDeletePermission(c) ==
  /\ keyExists /\ grant[c].state # "none"
  /\ grant' = [grant EXCEPT ![c] = NoGrant]
  /\ UNCHANGED <<keyVars, reqVars, pendVars, dec, covered, faults>>

handleUpdateKey ==
  /\ keyExists
  /\ keyApproval' = ~keyApproval
  /\ UNCHANGED <<keyExists, deleting, loaded, grant, reqVars, pendVars, dec, covered, faults>>

\* deleteAccount, on one replica: the grants, the key in memory here and (best
\* effort) on the others; the vault; the key row in a later call.
deleteAccountGrants(reached) ==
  /\ keyExists /\ ~deleting
  /\ deleting' = TRUE
  /\ grant' = [c \in Clients |-> NoGrant]
  /\ loaded' = loaded \ reached
  /\ UNCHANGED <<keyExists, keyApproval, reqVars, pendVars, dec, covered, faults>>

deleteAccountKey ==
  /\ keyExists /\ deleting
  /\ keyExists' = FALSE /\ keyApproval' = FALSE
  /\ UNCHANGED <<deleting, loaded, grant, reqVars, pendVars, dec, covered,
                 faults>>

\* ExpiresAt passes.
RequestExpires(r) ==
  /\ r \notin late /\ (r \in rows \/ pc[r] = "waiting")
  /\ late' = late \cup {r}
  /\ UNCHANGED <<keyVars, grant, reqVars, rows, ctx, chan, first, dec, covered, faults>>

\* The hourly clean-up of main: rows whose waiter is gone.
CleanExpiredRequests ==
  /\ rows \cap late # {}
  /\ rows' = rows \ late
  /\ UNCHANGED <<keyVars, grant, reqVars, late, ctx, chan, first, dec, covered, faults>>

\* A replica dies with its contexts and the handlers it runs.
Crash(rep) ==
  LET mine == {r \in Reqs : home[r] = rep /\ pc[r] # "done"}
  IN  /\ faults < MaxFaults
      /\ faults' = faults + 1
      /\ pc' = [r \in Reqs |-> IF r \in mine THEN "lost" ELSE pc[r]]
      /\ ctx' = ctx \ mine
      /\ chan' = [r \in Reqs |-> IF r \in mine THEN "empty" ELSE chan[r]]
      /\ dec' = [d \in Deciders |-> IF dec[d].at = rep THEN IdleHandler ELSE dec[d]]
      /\ UNCHANGED <<keyVars, grant, home, snap, verdict, served, refused, rows, late, first,
                     covered>>

-----------------------------------------------------------------------------
Displacements(c) == {{}, Clients \ {c}}

Signer(r) ==
  \/ receiveVerdict(r) \/ pollGrant(r) \/ deadline(r) \/ storePendingContext(r)
  \/ \E rep \in Replicas, unread, unknown \in BOOLEAN : decryptAndDispatch(r, rep, unread, unknown)
  \/ \E failed \in BOOLEAN :
       \/ processRequest(r, failed)
       \/ \E gone \in Displacements(ClientOf[r]) : connectWithSecret(r, gone, failed)
       \/ CreatePendingRequest(r, failed) \/ handlePendingApproval(r, failed)

\* The remembered methods: those named or the requested one, and connect.
Remembered(r) == {{}} \cup {ms \cup {Connect} : ms \in MethodSets \cup {{MethodOf[r]}}}

Owner(d) ==
  \/ \E r \in Reqs, at \in Replicas :
       \/ \E ms \in Remembered(r) : handleApproveRequest(d, r, at, ms)
       \/ handleDenyRequest(d, r, at)
  \/ \E failed \in BOOLEAN :
       \/ /\ dec[d].req # NoReq
          /\ \E gone \in Displacements(ClientOf[dec[d].req]) : approveStore(d, gone, failed)
       \/ DeletePendingRequest(d, failed)
  \/ notifySigner(d)

Environment ==
  \/ \E c \in Clients :
       \/ \E ms \in MethodSets, gone \in Displacements(c) : handleSetPermission(c, ms, gone)
       \/ GrantExpires(c) \/ handleDeletePermission(c)
  \/ handleUpdateKey \/ CleanExpiredRequests
  \/ deleteAccountKey \/ \E reached \in SUBSET Replicas \ {{}} : deleteAccountGrants(reached)
  \/ \E r \in Reqs : RequestExpires(r)
  \/ \E rep \in Replicas : Crash(rep)

Next == (\E r \in Reqs : Signer(r)) \/ (\E d \in Deciders : Owner(d)) \/ Environment

Spec == Init /\ [][Next]_vars

\* A started request's goroutine runs on and its clock with it, whether its
\* calls succeed or fail; the owner, the client and the rest owe nothing.
FairSpec ==
  /\ Spec
  /\ \A r \in Reqs :
       /\ WF_vars(\E failed \in BOOLEAN : processRequest(r, failed))
       /\ WF_vars(\E failed \in BOOLEAN : CreatePendingRequest(r, failed))
       /\ WF_vars(\E failed \in BOOLEAN : handlePendingApproval(r, failed))
       /\ WF_vars(storePendingContext(r)) /\ WF_vars(RequestExpires(r)) /\ WF_vars(deadline(r))

-----------------------------------------------------------------------------
(* What authorization promises.                                            *)

\* A request is served only if its client held a live grant at some moment
\* while the request was here (or brought a valid secret), or the verdict that
\* reached its waiter first was an approval; and it is answered "request denied"
\* only if the first was a denial.  No time-out, poll, verdict on another
\* replica, second handler, grant that was once held and revoked, failed call
\* or deletion of the account stands in for either.
AnsweredByAuthority ==
  \A r \in Reqs :
    /\ r \in served => r \in covered \/ first[r] = "approve"
    /\ verdict[r] = "deny" => first[r] = "deny"

\* "AN EXPIRED GRANT IS A REFUSAL, NEVER A FALL-THROUGH": not even an approval
\* or a grant made later serves the request that met it.
ExpiredGrantRefused == \A r \in served : snap[r].state # "expired"

\* An answered request leaves no context, and no row unless a call failed,
\* whichever handler was at work on it when it ended (waitForAuthorization's
\* deferred clean-up).
NothingLeftBehind ==
  \A r \in Reqs : pc[r] = "done" => r \notin ctx /\ (faults = 0 => r \notin rows)

\* Every started request is answered, whatever the owner does or forgets to
\* do, wherever the verdict gets lost and whichever call fails, unless its
\* replica dies.
EveryRequestAnswered ==
  \A r \in Reqs : pc[r] = "processing" ~> pc[r] \in {"done", "lost"}

-----------------------------------------------------------------------------
(* What makes the invariants inductive.                                    *)

\* Whatever lets a request through is a grant held while it was here or the
\* first verdict.
Authority ==
  /\ \A r \in Reqs : InFlight(r) /\ grant[ClientOf[r]].state = "live" => r \in covered
  /\ \A r \in Reqs : pc[r] = "processing" /\ snap[r].state = "live" => r \in covered
  /\ \A r \in Reqs : verdict[r] = "approve" => r \in covered \/ first[r] = "approve"
  /\ AnsweredByAuthority

\* Nothing reaches a request's channel before it waits, and what is there while
\* it waits is the first verdict.
ChannelHoldsFirst ==
  \A r \in Reqs :
    /\ pc[r] \in {"new", "processing", "park", "context"} => chan[r] = "empty" /\ first[r] = "empty"
    /\ pc[r] = "waiting" => chan[r] = first[r]

\* A handler that is at work has a request.
HandlersHaveRequests == \A d \in Deciders : dec[d].pc # "idle" => dec[d].req \in Reqs

\* Only a request that met no grant waits, and a served one is over.
WaitersHadNoGrant ==
  /\ \A r \in Reqs : pc[r] \in {"park", "context", "waiting", "leaving"} => snap[r].state = "none"
  /\ \A r \in served : pc[r] = "done"
  /\ ExpiredGrantRefused

\* Rows and contexts belong to requests that have not been answered.
KeptByWaiters ==
  /\ faults = 0 => \A r \in rows : pc[r] \in {"context", "waiting", "leaving", "lost"}
  /\ \A r \in ctx : pc[r] \in {"waiting", "leaving"}

IInv ==
  /\ TypeOK /\ HandlersHaveRequests
  /\ WaitersHadNoGrant /\ KeptByWaiters
  /\ ChannelHoldsFirst /\ Authority
=============================================================================
