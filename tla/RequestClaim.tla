---------------------------- MODULE RequestClaim ----------------------------
(***************************************************************************)
(* Who answers a NIP-46 request.  Every replica that holds the key gets    *)
(* the event from its own relay subscription; the claim in Redis decides   *)
(* which of them runs it (internal/claim, and the callback the signer      *)
(* passes to Coordinate).  One event is modelled: claims of different      *)
(* events are different Redis keys.                                        *)
(*                                                                         *)
(* Time advances in ticks of one watch poll.  A tick waits for the timers  *)
(* that are due: a live owner's heartbeat and a watcher's poll.  Replicas  *)
(* crash and restart; a replica cut off from Redis gets an error from      *)
(* every call.                                                             *)
(***************************************************************************)
EXTENDS Integers, FiniteSets

CONSTANTS
  Replicas,        \* the replicas that hold the key; podID is the replica
  LeaseTTL,        \* ticks a lease lives without a heartbeat
  HeartbeatIvl,    \* ticks between heartbeats
  WatchBudget,     \* ticks a loser watches
  DoneTTL,         \* ticks a done marker lives
  DeliveryWindow,  \* ticks after publication in which a relay delivers
  ProcessTime,     \* ticks the callback may take (decryption, one query)
  Free, Done,      \* no Redis key; the done marker
  MaxCrashes,      \* bound: crashes in a behaviour
  MaxCuts          \* bound: Redis partitions in a behaviour

ASSUME TimingAssumption ==
  /\ LeaseTTL \in Nat /\ HeartbeatIvl \in Nat /\ WatchBudget \in Nat
  /\ DoneTTL \in Nat /\ DeliveryWindow \in Nat /\ ProcessTime \in Nat
  /\ 0 < HeartbeatIvl /\ HeartbeatIvl < LeaseTTL
  /\ LeaseTTL < WatchBudget /\ WatchBudget < DoneTTL
  /\ DeliveryWindow + 1 < DoneTTL   \* the late watcher still polls once
ASSUME ValueAssumption == Free \notin Replicas /\ Done \notin Replicas /\ Free # Done
ASSUME FaultAssumption == MaxCrashes \in Nat /\ MaxCuts \in Nat

VARIABLES
  lease,       \* the Redis key: [val, ttl]
  up,          \* replicas that run
  cut,         \* replicas that cannot reach Redis
  pc,          \* what each replica does with the event
  hb,          \* ticks to an owner's next heartbeat
  timer,       \* ticks left: of the callback (owner), of the budget (watcher)
  polled,      \* watchers that have polled in this tick
  missed,      \* owners one of whose heartbeats failed
  work,        \* replicas whose processRequest goroutine runs
  decodable,   \* the request decrypts and parses
  dispatched,  \* replicas that started processRequest, ever
  answered,    \* a response was published
  age,         \* ticks since the event was published
  crashes, cuts

vars == <<lease, up, cut, pc, hb, timer, polled, missed, work, decodable,
          dispatched, answered, age, crashes, cuts>>

\* "idle": not seen; "running": in the callback under a lease; "marking":
\* the callback returned, markDone is next; "open": in the callback without a
\* lease; "watching", "claiming": in watchAndTakeOver; "over": nothing left.
States == {"idle", "running", "marking", "open", "watching", "claiming", "over"}

TypeOK ==
  /\ lease \in [val : Replicas \cup {Free, Done}, ttl : Nat]
  /\ up \subseteq Replicas /\ cut \subseteq Replicas
  /\ pc \in [Replicas -> States]
  /\ hb \in [Replicas -> Nat] /\ timer \in [Replicas -> Nat]
  /\ polled \subseteq Replicas /\ missed \subseteq Replicas /\ work \subseteq Replicas
  /\ decodable \in BOOLEAN /\ dispatched \subseteq Replicas /\ answered \in BOOLEAN
  /\ age \in Nat /\ crashes \in Nat /\ cuts \in Nat

Init ==
  /\ lease = [val |-> Free, ttl |-> 0]
  /\ up = Replicas /\ cut = {}
  /\ pc = [r \in Replicas |-> "idle"]
  /\ hb = [r \in Replicas |-> 0] /\ timer = [r \in Replicas |-> 0]
  /\ polled = {} /\ missed = {} /\ work = {}
  /\ decodable \in BOOLEAN /\ dispatched = {} /\ answered = FALSE
  /\ age = 0 /\ crashes = 0 /\ cuts = 0

-----------------------------------------------------------------------------
Goto(r, s) == pc' = [pc EXCEPT ![r] = s]

\* SET key podID NX PX leaseTTL succeeded: heartbeat and callback start.
Own(r) ==
  /\ lease' = [val |-> r, ttl |-> LeaseTTL]
  /\ Goto(r, "running")
  /\ hb' = [hb EXCEPT ![r] = HeartbeatIvl]
  /\ timer' = [timer EXCEPT ![r] = ProcessTime]
  /\ missed' = missed \ {r}

\* handleEventWithRelay, first delivery (later ones are in seenEvents), and
\* Coordinate: an error runs the callback inline, a loss starts a watcher.
Coordinate(r) ==
  /\ r \in up /\ pc[r] = "idle" /\ age <= DeliveryWindow
  /\ \/ /\ r \in cut
        /\ Goto(r, "open")
        /\ UNCHANGED <<lease, hb, timer, polled, missed>>
     \/ /\ r \notin cut /\ lease.val = Free
        /\ Own(r)
        /\ UNCHANGED polled
     \/ /\ r \notin cut /\ lease.val # Free
        /\ Goto(r, "watching")
        /\ timer' = [timer EXCEPT ![r] = WatchBudget]
        /\ polled' = polled \cup {r}          \* sleeps before the first poll
        /\ UNCHANGED <<lease, hb, missed>>
  /\ UNCHANGED <<up, cut, work, decodable, dispatched, answered, age, crashes, cuts>>

\* The callback returns as soon as the goroutine is started, or without one
\* when the request cannot be read.
decryptAndDispatch(r) ==
  /\ r \in up /\ pc[r] \in {"running", "open"}
  /\ Goto(r, IF pc[r] = "running" THEN "marking" ELSE "over")
  /\ IF decodable THEN work' = work \cup {r} /\ dispatched' = dispatched \cup {r}
                  ELSE UNCHANGED <<work, dispatched>>
  /\ UNCHANGED <<lease, up, cut, hb, timer, polled, missed, decodable, answered, age,
                 crashes, cuts>>

\* processRequest ends by sending a result or an error.
processRequest(r) ==
  /\ r \in up /\ r \in work
  /\ work' = work \ {r}
  /\ answered' = TRUE
  /\ UNCHANGED <<lease, up, cut, pc, hb, timer, polled, missed, decodable, dispatched,
                 age, crashes, cuts>>

\* Mutant: a heartbeat that does not renew the lease.
heartbeatNoRenew(r) ==
  /\ r \in up /\ pc[r] = "running" /\ hb[r] = 0
  /\ hb' = [hb EXCEPT ![r] = HeartbeatIvl]
  /\ missed' = IF r \in cut THEN missed \cup {r} ELSE missed
  /\ UNCHANGED <<lease, up, cut, pc, timer, polled, work, decodable, dispatched, answered,
                 age, crashes, cuts>>

\* renewScript: PEXPIRE if the key still holds our podID.
heartbeat(r) ==
  /\ r \in up /\ pc[r] = "running" /\ hb[r] = 0
  /\ hb' = [hb EXCEPT ![r] = HeartbeatIvl]
  /\ lease' = IF r \notin cut /\ lease.val = r THEN [lease EXCEPT !.ttl = LeaseTTL] ELSE lease
  /\ missed' = IF r \in cut THEN missed \cup {r} ELSE missed
  /\ UNCHANGED <<up, cut, pc, timer, polled, work, decodable, dispatched, answered, age,
                 crashes, cuts>>

\* Mutant: releasing the lease instead of marking the request done.
markDoneReleases(r) ==
  /\ r \in up /\ pc[r] = "marking"
  /\ Goto(r, "over")
  /\ lease' = IF r \notin cut /\ lease.val = r THEN [val |-> Free, ttl |-> 0] ELSE lease
  /\ UNCHANGED <<up, cut, hb, timer, polled, missed, work, decodable, dispatched,
                 answered, age, crashes, cuts>>

\* doneScript: the done marker if the key still holds our podID.
markDone(r) ==
  /\ r \in up /\ pc[r] = "marking"
  /\ Goto(r, "over")
  /\ lease' = IF r \notin cut /\ lease.val = r THEN [val |-> Done, ttl |-> DoneTTL] ELSE lease
  /\ UNCHANGED <<up, cut, hb, timer, polled, missed, work, decodable, dispatched,
                 answered, age, crashes, cuts>>

\* Mutant: a vanished key read as a completed request.
watchPollNilIsDone(r) ==
  /\ r \in up /\ pc[r] = "watching" /\ r \notin polled
  /\ polled' = polled \cup {r}
  /\ Goto(r, IF r \in cut \/ lease.val \in {Done, Free} THEN "over" ELSE "watching")
  /\ UNCHANGED <<lease, up, cut, hb, timer, missed, work, decodable, dispatched, answered,
                 age, crashes, cuts>>

\* One turn of watchAndTakeOver's loop, up to the GET's answer.
watchPoll(r) ==
  /\ r \in up /\ pc[r] = "watching" /\ r \notin polled
  /\ polled' = polled \cup {r}
  /\ Goto(r, IF r \in cut \/ lease.val = Done THEN "over"
             ELSE IF lease.val = Free THEN "claiming" ELSE "watching")
  /\ UNCHANGED <<lease, up, cut, hb, timer, missed, work, decodable, dispatched, answered,
                 age, crashes, cuts>>

\* Mutant: SET without NX.
takeOverNoNX(r) ==
  /\ r \in up /\ pc[r] = "claiming"
  /\ IF r \notin cut
       THEN Own(r)
       ELSE Goto(r, "over") /\ UNCHANGED <<lease, hb, timer, missed>>
  /\ UNCHANGED <<up, cut, polled, work, decodable, dispatched, answered, age, crashes, cuts>>

\* tryClaim after a GET that found no key: won, lost to another, or an error.
takeOver(r) ==
  /\ r \in up /\ pc[r] = "claiming"
  /\ IF r \notin cut /\ lease.val = Free
       THEN Own(r)
       ELSE /\ Goto(r, IF r \in cut THEN "over" ELSE "watching")
            /\ UNCHANGED <<lease, hb, timer, missed>>
  /\ UNCHANGED <<up, cut, polled, work, decodable, dispatched, answered, age, crashes, cuts>>

\* The watch budget is exhausted.
watchGivesUp(r) ==
  /\ r \in up /\ pc[r] = "watching" /\ timer[r] = 0
  /\ Goto(r, "over")
  /\ UNCHANGED <<lease, up, cut, hb, timer, polled, missed, work, decodable, dispatched,
                 answered, age, crashes, cuts>>

-----------------------------------------------------------------------------
(* The environment.                                                        *)

Crash(r) ==
  /\ r \in up /\ crashes < MaxCrashes
  /\ up' = up \ {r} /\ work' = work \ {r}
  /\ Goto(r, "over")
  /\ crashes' = crashes + 1
  /\ UNCHANGED <<lease, cut, hb, timer, polled, missed, decodable, dispatched, answered,
                 age, cuts>>

\* seenEvents is empty again: a relay may deliver the event once more.
Restart(r) ==
  /\ r \notin up
  /\ up' = up \cup {r}
  /\ Goto(r, "idle")
  /\ UNCHANGED <<lease, cut, hb, timer, polled, missed, work, decodable, dispatched,
                 answered, age, crashes, cuts>>

Partition(r) ==
  /\ r \notin cut /\ cuts < MaxCuts
  /\ cut' = cut \cup {r} /\ cuts' = cuts + 1
  /\ UNCHANGED <<lease, up, pc, hb, timer, polled, missed, work, decodable, dispatched,
                 answered, age, crashes>>

Heal(r) ==
  /\ r \in cut
  /\ cut' = cut \ {r}
  /\ UNCHANGED <<lease, up, pc, hb, timer, polled, missed, work, decodable, dispatched,
                 answered, age, crashes, cuts>>

Owners == {r \in up : pc[r] \in {"running", "marking"}}
Watchers == {r \in up : pc[r] = "watching"}

\* Nothing that was due in this tick is left.
NothingDue ==
  /\ \A r \in Owners : hb[r] > 0 /\ timer[r] > 0
  /\ \A r \in Watchers : r \in polled /\ timer[r] > 0
  /\ \A r \in up : pc[r] # "claiming"

\* The event's age stops where no relay delivers it any more.
Tick ==
  /\ NothingDue
  /\ lease' = IF lease.ttl <= 1 THEN [val |-> Free, ttl |-> 0]
                                ELSE [lease EXCEPT !.ttl = @ - 1]
  /\ hb' = [r \in Replicas |-> IF r \in Owners THEN hb[r] - 1 ELSE hb[r]]
  /\ timer' = [r \in Replicas |-> IF r \in Owners \cup Watchers THEN timer[r] - 1 ELSE timer[r]]
  /\ polled' = {}
  /\ age' = IF age > DeliveryWindow THEN age ELSE age + 1
  /\ UNCHANGED <<up, cut, pc, missed, work, decodable, dispatched, answered, crashes, cuts>>

Step(r) == \/ Coordinate(r) \/ decryptAndDispatch(r) \/ processRequest(r)
           \/ heartbeat(r) \/ markDone(r)
           \/ watchPoll(r) \/ takeOver(r) \/ watchGivesUp(r)

Fault(r) == Crash(r) \/ Restart(r) \/ Partition(r) \/ Heal(r)

Next == Tick \/ \E r \in Replicas : Step(r) \/ Fault(r)

Spec == Init /\ [][Next]_vars

\* Goroutines that can run do, and time passes; relays need not deliver and
\* nothing obliges a replica to crash, restart or heal.
Fairness ==
  /\ WF_vars(Tick)
  /\ \A r \in Replicas :
       /\ WF_vars(decryptAndDispatch(r)) /\ WF_vars(processRequest(r))
       /\ WF_vars(heartbeat(r)) /\ WF_vars(markDone(r))
       /\ WF_vars(watchPoll(r)) /\ WF_vars(takeOver(r)) /\ WF_vars(watchGivesUp(r))

FairSpec == Spec /\ Fairness

-----------------------------------------------------------------------------
(* What the claim promises.                                                *)

\* A slow owner is never mistaken for a dead one: while it runs and none of
\* its heartbeats failed, the key holds its podID.
OwnerKeepsLease ==
  \A r \in Owners : r \notin missed => lease.val = r

\* With the lease's remaining life tied to the heartbeat, it is inductive.
LeaseInv ==
  \A r \in Owners : r \notin missed =>
    lease.val = r /\ lease.ttl = hb[r] + (LeaseTTL - HeartbeatIvl)

NoFault == crashes = 0 /\ cuts = 0

\* Without a fault at most one replica ever starts work on the request,
\* however the deliveries, polls and expiries interleave.
AtMostOnceWithoutFaults ==
  NoFault => Cardinality(dispatched) <= 1

\* The done marker outlives every delivery, and every watcher reads it before
\* it expires.
DoneOutlives ==
  lease.val = Done =>
    /\ lease.ttl >= 1
    /\ age > DeliveryWindow \/ lease.ttl + age >= DoneTTL
    /\ \A r \in Replicas : pc[r] \in {"watching", "claiming"} => lease.ttl >= 2 \/ r \notin polled

\* Nobody is left who could start the callback.
Ended ==
  /\ lease.val = Free /\ age > DeliveryWindow
  /\ \A r \in Replicas : pc[r] \notin {"watching", "claiming"}

\* Nobody has started work, or one replica has and stands between the others
\* and the key, or its done marker does, or there are no others left.
StartedOnce ==
  \/ dispatched = {}
  \/ \E r \in Replicas : dispatched = {r} /\ (pc[r] = "marking" \/ lease.val = Done \/ Ended)

\* What makes AtMostOnceWithoutFaults inductive.
OnceInv ==
  NoFault =>
    /\ up = Replicas /\ cut = {} /\ missed = {}
    /\ \A r \in Replicas : pc[r] # "open"
    /\ DoneOutlives
    /\ StartedOnce

IInv == TypeOK /\ LeaseInv /\ OnceInv

\* An owner that lost its lease to a takeover does not clobber the new owner:
\* a held key turns into the done marker only through its holder.
NoClobber ==
  [][\A r \in Replicas : lease.val = r /\ lease'.val = Done => pc[r] = "marking"]_vars

\* A completed request is not taken over: while the done marker stands, no
\* replica that reaches Redis starts the callback.
DoneStopsTakeover ==
  [][\A r \in Replicas : lease.val = Done /\ pc[r] # "running" => pc'[r] # "running"]_vars

\* Failover: a readable request that a live replica watches is dispatched by
\* somebody, unless the watcher itself dies or is cut off.
FailoverDispatches ==
  \A r \in Replicas :
    (decodable /\ r \in Watchers) ~> (dispatched # {} \/ r \notin up \/ r \in cut)
=============================================================================
