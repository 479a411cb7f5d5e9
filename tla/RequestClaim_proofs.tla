------------------------ MODULE RequestClaim_proofs ------------------------
(***************************************************************************)
(* For any number of replicas and any timings that satisfy                 *)
(* TimingAssumption, crashes, restarts and partitions included: a slow     *)
(* owner keeps its lease, without faults the request is started at most    *)
(* once, and nobody clobbers another owner's lease.                        *)
(***************************************************************************)
EXTENDS RequestClaim, FiniteSetTheorems, TLAPS

\* The initial states satisfy the invariant.
LEMMA InitIInv == Init => IInv
<1> SUFFICES ASSUME Init PROVE IInv
  OBVIOUS
<1>1. TypeOK
  BY DEF Init, TypeOK, States
<1>2. LeaseInv
  BY DEF Init, LeaseInv, Owners
<1>3. OnceInv
  BY ValueAssumption DEF Init, OnceInv, NoFault, DoneOutlives, StartedOnce
<1> QED BY <1>1, <1>2, <1>3 DEF IInv

\* Types.
LEMMA NextTypeOK == TypeOK /\ [Next]_vars => TypeOK'
<1> SUFFICES ASSUME TypeOK, [Next]_vars PROVE TypeOK'
  OBVIOUS
<1> USE DEF TypeOK, States, Goto
<1>1. ASSUME NEW r \in Replicas, Own(r)
      PROVE  /\ lease' \in [val : Replicas \cup {Free, Done}, ttl : Nat]
             /\ pc' \in [Replicas -> States] /\ hb' \in [Replicas -> Nat]
             /\ timer' \in [Replicas -> Nat] /\ missed' \subseteq Replicas
  BY <1>1, TimingAssumption DEF Own
<1>2. ASSUME NEW r \in Replicas, Coordinate(r) PROVE TypeOK'
  <2>1. CASE Own(r)
    BY <1>1, <1>2, <2>1 DEF Coordinate
  <2>2. CASE ~Own(r)
    BY <1>2, <2>2, TimingAssumption DEF Coordinate
  <2> QED BY <2>1, <2>2
<1>3. ASSUME NEW r \in Replicas, decryptAndDispatch(r) PROVE TypeOK'
  BY <1>3 DEF decryptAndDispatch
<1>4. ASSUME NEW r \in Replicas, processRequest(r) PROVE TypeOK'
  BY <1>4 DEF processRequest
<1>5. ASSUME NEW r \in Replicas, heartbeat(r) PROVE TypeOK'
  BY <1>5, TimingAssumption DEF heartbeat
<1>6. ASSUME NEW r \in Replicas, markDone(r) PROVE TypeOK'
  BY <1>6, TimingAssumption DEF markDone
<1>7. ASSUME NEW r \in Replicas, watchPoll(r) PROVE TypeOK'
  BY <1>7 DEF watchPoll
<1>8. ASSUME NEW r \in Replicas, takeOver(r) PROVE TypeOK'
  <2>1. CASE Own(r)
    BY <1>1, <1>8, <2>1 DEF takeOver
  <2>2. CASE ~Own(r)
    BY <1>8, <2>2 DEF takeOver
  <2> QED BY <2>1, <2>2
<1>9. ASSUME NEW r \in Replicas, watchGivesUp(r) PROVE TypeOK'
  BY <1>9 DEF watchGivesUp
<1>10. ASSUME NEW r \in Replicas, Fault(r) PROVE TypeOK'
  BY <1>10 DEF Fault, Crash, Restart, Partition, Heal
<1>11. CASE Tick
  <2>1. lease' \in [val : Replicas \cup {Free, Done}, ttl : Nat]
    BY <1>11 DEF Tick
  <2>2. hb' \in [Replicas -> Nat] /\ timer' \in [Replicas -> Nat]
    BY <1>11 DEF Tick, NothingDue
  <2>3. age' \in Nat
    BY <1>11 DEF Tick
  <2> QED BY <1>11, <2>1, <2>2, <2>3 DEF Tick
<1>12. CASE UNCHANGED vars
  BY <1>12 DEF vars
<1> QED BY <1>2, <1>3, <1>4, <1>5, <1>6, <1>7, <1>8, <1>9, <1>10, <1>11, <1>12
       DEF Next, Step

\* Winning the key cannot hurt another owner: the key was free.
LEMMA OwnLease ==
  ASSUME TypeOK, LeaseInv, NEW r \in Replicas, lease.val = Free, Own(r), up' = up
  PROVE  LeaseInv'
<1> SUFFICES ASSUME NEW o \in Owners', o \notin missed'
             PROVE  lease'.val = o /\ lease'.ttl = hb'[o] + (LeaseTTL - HeartbeatIvl)
  BY DEF LeaseInv
<1>a. o \in Replicas
  BY DEF Owners, TypeOK
<1>1. CASE o = r
  BY <1>a, <1>1, TimingAssumption DEF Own, TypeOK
<1>2. CASE o # r
  <2>1. o \in Owners /\ o \notin missed
    BY <1>a, <1>2 DEF Owners, Own, Goto, TypeOK
  <2>2. lease.val = o
    BY <2>1 DEF LeaseInv
  <2> QED BY <1>a, <2>2, ValueAssumption
<1> QED BY <1>1, <1>2

\* A step that leaves the key and the heartbeats alone and makes no owner.
LEMMA LeaseStutter ==
  ASSUME TypeOK, LeaseInv, UNCHANGED <<lease, hb, missed>>, Owners' \subseteq Owners
  PROVE  LeaseInv'
BY DEF LeaseInv

\* A slow owner keeps its lease: the remaining life of the key follows the
\* owner's heartbeat, and nobody else can write the key.
LEMMA NextLeaseInv == TypeOK /\ LeaseInv /\ [Next]_vars => LeaseInv'
<1> SUFFICES ASSUME TypeOK, LeaseInv, [Next]_vars PROVE LeaseInv'
  OBVIOUS
<1>1. ASSUME NEW r \in Replicas, Coordinate(r) PROVE LeaseInv'
  <2>1. CASE lease.val = Free /\ r \notin cut
    BY <1>1, <2>1, OwnLease DEF Coordinate
  <2>2. CASE ~(lease.val = Free /\ r \notin cut)
    BY <1>1, <2>2, LeaseStutter DEF Coordinate, Goto, Owners, TypeOK
  <2> QED BY <2>1, <2>2
<1>2. ASSUME NEW r \in Replicas, decryptAndDispatch(r) PROVE LeaseInv'
  BY <1>2, LeaseStutter DEF decryptAndDispatch, Goto, Owners, TypeOK
<1>3. ASSUME NEW r \in Replicas, processRequest(r) PROVE LeaseInv'
  BY <1>3, LeaseStutter DEF processRequest, Owners
<1>4. ASSUME NEW r \in Replicas, heartbeat(r) PROVE LeaseInv'
  <2> SUFFICES ASSUME NEW o \in Owners', o \notin missed'
               PROVE  lease'.val = o /\ lease'.ttl = hb'[o] + (LeaseTTL - HeartbeatIvl)
    BY DEF LeaseInv
  <2>1. o \in Owners /\ o \notin missed /\ o \in Replicas
    BY <1>4 DEF heartbeat, Owners, TypeOK
  <2>2. lease.val = o /\ lease.ttl = hb[o] + (LeaseTTL - HeartbeatIvl)
    BY <2>1 DEF LeaseInv
  <2>3. CASE o = r
    BY <1>4, <2>1, <2>2, <2>3, TimingAssumption DEF heartbeat, TypeOK
  <2>4. CASE o # r
    BY <1>4, <2>1, <2>2, <2>4 DEF heartbeat, TypeOK
  <2> QED BY <2>3, <2>4
<1>5. ASSUME NEW r \in Replicas, markDone(r) PROVE LeaseInv'
  <2> SUFFICES ASSUME NEW o \in Owners', o \notin missed'
               PROVE  lease'.val = o /\ lease'.ttl = hb'[o] + (LeaseTTL - HeartbeatIvl)
    BY DEF LeaseInv
  <2>1. o \in Owners /\ o \notin missed /\ o # r /\ o \in Replicas
    BY <1>5 DEF markDone, Goto, Owners, TypeOK
  <2>2. lease.val = o /\ lease.ttl = hb[o] + (LeaseTTL - HeartbeatIvl)
    BY <2>1 DEF LeaseInv
  <2> QED BY <1>5, <2>1, <2>2 DEF markDone
<1>6. ASSUME NEW r \in Replicas, watchPoll(r) PROVE LeaseInv'
  BY <1>6, LeaseStutter DEF watchPoll, Goto, Owners, TypeOK
<1>7. ASSUME NEW r \in Replicas, takeOver(r) PROVE LeaseInv'
  <2>1. CASE lease.val = Free /\ r \notin cut
    BY <1>7, <2>1, OwnLease DEF takeOver
  <2>2. CASE ~(lease.val = Free /\ r \notin cut)
    BY <1>7, <2>2, LeaseStutter DEF takeOver, Goto, Owners, TypeOK
  <2> QED BY <2>1, <2>2
<1>8. ASSUME NEW r \in Replicas, watchGivesUp(r) PROVE LeaseInv'
  BY <1>8, LeaseStutter DEF watchGivesUp, Goto, Owners, TypeOK
<1>9. ASSUME NEW r \in Replicas, Fault(r) PROVE LeaseInv'
  <2>1. UNCHANGED <<lease, hb, missed>> /\ Owners' \subseteq Owners
    BY <1>9 DEF Fault, Crash, Restart, Partition, Heal, Goto, Owners, TypeOK
  <2> QED BY <2>1, LeaseStutter
<1>10. CASE Tick
  <2> SUFFICES ASSUME NEW o \in Owners', o \notin missed'
               PROVE  lease'.val = o /\ lease'.ttl = hb'[o] + (LeaseTTL - HeartbeatIvl)
    BY DEF LeaseInv
  <2>1. o \in Owners /\ o \notin missed /\ o \in Replicas
    BY <1>10 DEF Tick, Owners, TypeOK
  <2>2. lease.val = o /\ lease.ttl = hb[o] + (LeaseTTL - HeartbeatIvl)
    BY <2>1 DEF LeaseInv
  <2>3. hb[o] \in Nat /\ hb[o] > 0 /\ hb'[o] = hb[o] - 1
    BY <1>10, <2>1 DEF Tick, NothingDue, TypeOK
  <2>4. lease.ttl > 1 /\ lease.ttl \in Nat
    BY <2>2, <2>3, TimingAssumption DEF TypeOK
  <2>5. lease' = [lease EXCEPT !.ttl = @ - 1]
    BY <1>10, <2>4 DEF Tick
  <2> QED BY <2>2, <2>3, <2>5, TimingAssumption DEF TypeOK
<1>11. CASE UNCHANGED vars
  BY <1>11, LeaseStutter DEF vars, Owners
<1> QED BY <1>1, <1>2, <1>3, <1>4, <1>5, <1>6, <1>7, <1>8, <1>9, <1>10, <1>11
       DEF Next, Step

\* Without faults a step of the claim protocol stays clear of the inline path
\* and keeps every replica up and connected.
LEMMA CalmStep ==
  ASSUME TypeOK, LeaseInv, OnceInv, [Next]_vars, NoFault'
  PROVE  /\ NoFault
         /\ up = Replicas /\ cut = {} /\ missed = {}
         /\ up' = Replicas /\ cut' = {} /\ missed' = {}
         /\ \A r \in Replicas : pc'[r] # "open"
         /\ \A r \in Replicas : ~Fault(r)
<1>1. NoFault
  BY DEF NoFault, Next, Step, Fault, Coordinate, decryptAndDispatch, processRequest,
         heartbeat, markDone, watchPoll, takeOver, watchGivesUp, Tick, Crash, Restart,
         Partition, Heal, vars, TypeOK
<1>2. up = Replicas /\ cut = {} /\ missed = {} /\ \A r \in Replicas : pc[r] # "open"
  BY <1>1 DEF OnceInv
<1>3. \A r \in Replicas : ~Fault(r)
  BY <1>1, <1>2 DEF Fault, Crash, Restart, Partition, Heal, NoFault, TypeOK
<1>4. CASE Tick
  BY <1>1, <1>2, <1>3, <1>4 DEF Tick
<1>5. CASE UNCHANGED vars
  BY <1>1, <1>2, <1>3, <1>5 DEF vars
<1>6. ASSUME NEW r \in Replicas, Step(r)
      PROVE  up' = Replicas /\ cut' = {} /\ missed' = {} /\ \A q \in Replicas : pc'[q] # "open"
  <2>1. up' = Replicas /\ cut' = {} /\ missed' = {}
    BY <1>2, <1>6 DEF Step, Coordinate, decryptAndDispatch, processRequest, heartbeat,
       markDone, watchPoll, takeOver, watchGivesUp, Own
  <2>2. \A q \in Replicas : pc'[q] # "open"
    BY <1>2, <1>6 DEF Step, Coordinate, decryptAndDispatch, processRequest, heartbeat,
       markDone, watchPoll, takeOver, watchGivesUp, Own, Goto, TypeOK
  <2> QED BY <2>1, <2>2
<1> QED BY <1>1, <1>2, <1>3, <1>4, <1>5, <1>6 DEF Next

\* The done marker outlives every delivery and every watcher.
LEMMA NextDoneOutlives ==
  ASSUME TypeOK, LeaseInv, OnceInv, [Next]_vars, NoFault'
  PROVE  DoneOutlives'
<1> USE CalmStep
<1>0. DoneOutlives
  BY DEF OnceInv
<1>1. ASSUME NEW r \in Replicas, Coordinate(r) PROVE DoneOutlives'
  <2>1. CASE lease.val = Free
    BY <1>1, <2>1, ValueAssumption DEF Coordinate, Own, DoneOutlives
  <2>2. CASE lease.val # Free
    <3>1. UNCHANGED <<lease, age>> /\ age <= DeliveryWindow
      BY <1>1, <2>2 DEF Coordinate
    <3>2. CASE lease.val = Done
      <4>1. lease.ttl >= 2
        BY <1>0, <3>1, <3>2, TimingAssumption DEF DoneOutlives, TypeOK
      <4> QED BY <1>0, <3>1, <3>2, <4>1 DEF DoneOutlives
    <3>3. CASE lease.val # Done
      BY <3>1, <3>3 DEF DoneOutlives
    <3> QED BY <3>2, <3>3
  <2> QED BY <2>1, <2>2
<1>2. ASSUME NEW r \in Replicas, decryptAndDispatch(r) PROVE DoneOutlives'
  BY <1>0, <1>2 DEF decryptAndDispatch, Goto, DoneOutlives, TypeOK
<1>3. ASSUME NEW r \in Replicas, processRequest(r) PROVE DoneOutlives'
  BY <1>0, <1>3 DEF processRequest, DoneOutlives
<1>4. ASSUME NEW r \in Replicas, heartbeat(r) PROVE DoneOutlives'
  BY <1>0, <1>4, ValueAssumption DEF heartbeat, DoneOutlives, TypeOK
<1>5. ASSUME NEW r \in Replicas, markDone(r) PROVE DoneOutlives'
  <2>1. lease' = lease \/ lease' = [val |-> Done, ttl |-> DoneTTL]
    BY <1>5 DEF markDone
  <2>2. CASE lease' = lease
    BY <1>0, <1>5, <2>2 DEF markDone, Goto, DoneOutlives, TypeOK
  <2>3. CASE lease' = [val |-> Done, ttl |-> DoneTTL]
    BY <1>5, <2>3, TimingAssumption DEF markDone, DoneOutlives, TypeOK
  <2> QED BY <2>1, <2>2, <2>3
<1>6. ASSUME NEW r \in Replicas, watchPoll(r) PROVE DoneOutlives'
  BY <1>0, <1>6 DEF watchPoll, Goto, DoneOutlives, TypeOK
<1>7. ASSUME NEW r \in Replicas, takeOver(r) PROVE DoneOutlives'
  <2>1. CASE lease.val = Free
    BY <1>7, <2>1, ValueAssumption DEF takeOver, Own, DoneOutlives
  <2>2. CASE lease.val # Free
    BY <1>0, <1>7, <2>2 DEF takeOver, Goto, DoneOutlives, TypeOK
  <2> QED BY <2>1, <2>2
<1>8. ASSUME NEW r \in Replicas, watchGivesUp(r) PROVE DoneOutlives'
  BY <1>0, <1>8 DEF watchGivesUp, Goto, DoneOutlives, TypeOK
<1>9. CASE Tick
  <2> SUFFICES ASSUME lease'.val = Done PROVE DoneOutlives'
    BY DEF DoneOutlives
  <2>1. lease.ttl > 1 /\ lease.val = Done /\ lease'.ttl = lease.ttl - 1
    BY <1>9, ValueAssumption DEF Tick, TypeOK
  <2>2. \A r \in Replicas : pc'[r] \in {"watching", "claiming"} => r \notin polled'
    BY <1>9 DEF Tick
  <2>3. age' > DeliveryWindow \/ lease'.ttl + age' >= DoneTTL
    BY <1>0, <1>9, <2>1, TimingAssumption DEF Tick, DoneOutlives, TypeOK
  <2> QED BY <2>1, <2>2, <2>3 DEF DoneOutlives, TypeOK
<1>10. CASE UNCHANGED vars
  BY <1>0, <1>10 DEF vars, DoneOutlives
<1> QED BY <1>1, <1>2, <1>3, <1>4, <1>5, <1>6, <1>7, <1>8, <1>9, <1>10 DEF Next, Step

\* Once work has started, no replica is in the callback, and the key is free
\* only when nobody can take it.
LEMMA StartedMeansClosed ==
  ASSUME TypeOK, LeaseInv, OnceInv, NoFault, dispatched # {}
  PROVE  /\ \A r \in Replicas : pc[r] # "running"
         /\ lease.val = Free => Ended
<1>1. up = Replicas /\ missed = {} /\ StartedOnce
  BY DEF OnceInv
<1>2. \A r \in Replicas : pc[r] \in {"running", "marking"} => lease.val = r
  BY <1>1 DEF LeaseInv, Owners
<1>3. PICK s \in Replicas : pc[s] = "marking" \/ lease.val = Done \/ Ended
  BY <1>1 DEF StartedOnce
<1> QED BY <1>2, <1>3, ValueAssumption DEF Ended

\* The request is started at most once.
LEMMA NextStartedOnce ==
  ASSUME TypeOK, LeaseInv, OnceInv, [Next]_vars, NoFault'
  PROVE  StartedOnce'
<1> USE CalmStep
<1>0. StartedOnce /\ DoneOutlives /\ \A r \in Replicas : pc[r] # "open"
  BY DEF OnceInv
<1>1. ASSUME NEW r \in Replicas, decryptAndDispatch(r) PROVE StartedOnce'
  <2>1. pc[r] = "running" /\ dispatched = {}
    BY <1>0, <1>1, StartedMeansClosed DEF decryptAndDispatch
  <2>2. pc'[r] = "marking" /\ dispatched' \in {{}, {r}}
    BY <1>1, <2>1 DEF decryptAndDispatch, Goto, TypeOK
  <2> QED BY <2>2 DEF StartedOnce
<1>2. CASE dispatched = {} /\ dispatched' = dispatched
  BY <1>2 DEF StartedOnce
<1>3. CASE dispatched # {} /\ dispatched' = dispatched
  <2>1. PICK s \in Replicas : dispatched = {s} /\ (pc[s] = "marking" \/ lease.val = Done \/ Ended)
    BY <1>0, <1>3 DEF StartedOnce
  <2> SUFFICES pc'[s] = "marking" \/ lease'.val = Done \/ Ended'
    BY <1>3, <2>1 DEF StartedOnce
  <2>2. (\A r \in Replicas : pc[r] # "running") /\ (lease.val = Free => Ended)
    BY <1>3, StartedMeansClosed
  <2>3. CASE UNCHANGED vars
    BY <2>1, <2>3 DEF vars, Ended
  <2>4. CASE pc[s] = "marking"
    <3>1. s \in Owners /\ lease.val = s
      BY <2>4 DEF LeaseInv, Owners
    <3>2. ASSUME NEW r \in Replicas, Step(r) PROVE pc'[s] = "marking" \/ lease'.val = Done
      <4>1. CASE s # r
        BY <2>4, <3>2, <4>1 DEF Step, Coordinate, decryptAndDispatch, processRequest, heartbeat,
           markDone, watchPoll, takeOver, watchGivesUp, Own, Goto, TypeOK
      <4>2. CASE s = r
        BY <2>4, <3>1, <3>2, <4>2 DEF Step, Coordinate, decryptAndDispatch, processRequest,
           heartbeat, markDone, watchPoll, takeOver, watchGivesUp
      <4> QED BY <4>1, <4>2
    <3>3. CASE Tick
      BY <2>4, <3>3 DEF Tick
    <3> QED BY <2>3, <3>2, <3>3 DEF Next
  <2>5. CASE lease.val = Done
    <3>1. ASSUME NEW r \in Replicas, Step(r) PROVE lease'.val = Done
      BY <2>5, <3>1, ValueAssumption DEF Step, Coordinate, decryptAndDispatch, processRequest,
         heartbeat, markDone, watchPoll, takeOver, watchGivesUp
    <3>2. CASE Tick /\ lease.ttl <= 1
      <4>1. \A r \in Replicas : pc[r] \notin {"watching", "claiming"}
        BY <1>0, <2>5, <3>2 DEF Tick, NothingDue, Watchers, DoneOutlives, TypeOK
      <4>2. age > DeliveryWindow
        BY <1>0, <2>5, <3>2, TimingAssumption DEF DoneOutlives, TypeOK
      <4> QED BY <3>2, <4>1, <4>2 DEF Tick, Ended
    <3>3. CASE Tick /\ lease.ttl > 1
      BY <2>5, <3>3 DEF Tick, TypeOK
    <3>4. lease.ttl <= 1 \/ lease.ttl > 1
      BY DEF TypeOK
    <3> QED BY <2>3, <3>1, <3>2, <3>3, <3>4 DEF Next
  <2>6. CASE Ended
    <3>1. ASSUME NEW r \in Replicas, Step(r) PROVE Ended'
      <4>1. ~Coordinate(r)
        BY <2>6, TimingAssumption DEF Ended, Coordinate, TypeOK
      <4>2. ~watchPoll(r) /\ ~takeOver(r) /\ ~watchGivesUp(r)
        BY <2>6 DEF Ended, watchPoll, takeOver, watchGivesUp
      <4>3. UNCHANGED <<lease, age>>
        BY <2>6, <3>1, <4>1, <4>2, ValueAssumption DEF Step, Ended, decryptAndDispatch,
           processRequest, heartbeat, markDone
      <4>4. \A q \in Replicas : pc'[q] \notin {"watching", "claiming"}
        BY <2>6, <3>1, <4>1, <4>2 DEF Step, Ended, decryptAndDispatch, processRequest,
           heartbeat, markDone, Goto, TypeOK
      <4> QED BY <2>6, <4>3, <4>4 DEF Ended
    <3>2. CASE Tick
      BY <2>6, <3>2 DEF Tick, Ended, TypeOK
    <3> QED BY <2>3, <3>1, <3>2 DEF Next
  <2> QED BY <2>1, <2>4, <2>5, <2>6
<1>4. ASSUME ~\E r \in Replicas : decryptAndDispatch(r) PROVE dispatched' = dispatched
  BY <1>4 DEF Next, Step, Coordinate, processRequest, heartbeat, markDone, watchPoll, takeOver,
     watchGivesUp, Tick, vars
<1> QED BY <1>1, <1>2, <1>3, <1>4

\* Every step preserves the invariant.
LEMMA NextIInv == IInv /\ [Next]_vars => IInv'
<1> SUFFICES ASSUME IInv, [Next]_vars PROVE IInv'
  OBVIOUS
<1>1. TypeOK /\ LeaseInv /\ OnceInv
  BY DEF IInv
<1>2. TypeOK' /\ LeaseInv'
  BY <1>1, NextTypeOK, NextLeaseInv
<1>3. ASSUME NoFault'
      PROVE  /\ up' = Replicas /\ cut' = {} /\ missed' = {}
             /\ \A r \in Replicas : pc'[r] # "open"
             /\ DoneOutlives' /\ StartedOnce'
  BY <1>1, <1>3, CalmStep, NextDoneOutlives, NextStartedOnce
<1>4. OnceInv'
  BY <1>3 DEF OnceInv
<1> QED BY <1>2, <1>4 DEF IInv

\* The inductive invariant of the claim protocol.
THEOREM ClaimInvariant == Spec => []IInv
<1>1. Init => IInv
  BY InitIInv
<1>2. IInv /\ [Next]_vars => IInv'
  BY NextIInv
<1> QED BY <1>1, <1>2, PTL DEF Spec

\* Replicas, timers and the Redis key keep their types, whatever fails; in
\* particular no timer runs below zero.
THEOREM ClaimTypes == Spec => []TypeOK
<1>1. IInv => TypeOK
  BY DEF IInv
<1> QED BY <1>1, ClaimInvariant, PTL

\* A live owner whose heartbeats reach Redis keeps the key, for any lease
\* longer than the heartbeat interval: a slow decryption is never taken over.
THEOREM ClaimOwnerKeepsLease == Spec => []OwnerKeepsLease
<1>1. IInv => OwnerKeepsLease
  BY DEF IInv, LeaseInv, OwnerKeepsLease
<1> QED BY <1>1, ClaimInvariant, PTL

\* Without a crash or a partition at most one replica starts work on the
\* request, for any number of replicas.
THEOREM ClaimAtMostOnce == Spec => []AtMostOnceWithoutFaults
<1>1. ASSUME IInv PROVE AtMostOnceWithoutFaults
  <2> SUFFICES ASSUME NoFault PROVE Cardinality(dispatched) <= 1
    BY DEF AtMostOnceWithoutFaults
  <2>1. CASE dispatched = {}
    BY <2>1, FS_EmptySet
  <2>2. CASE \E r \in Replicas : dispatched = {r}
    <3>1. Cardinality(dispatched) = 1
      BY <2>2, FS_Singleton
    <3> QED BY <3>1
  <2> QED BY <1>1, <2>1, <2>2 DEF IInv, OnceInv, StartedOnce
<1>2. IInv => AtMostOnceWithoutFaults
  BY <1>1
<1> QED BY <1>2, ClaimInvariant, PTL

\* Only the holder of the key turns it into the done marker, crashes,
\* takeovers and partitions included.
THEOREM ClaimNoClobber == Spec => NoClobber
<1> DEFINE Kept == \A r \in Replicas : lease.val = r /\ lease'.val = Done => pc[r] = "marking"
<1>1. ASSUME TypeOK, [Next]_vars PROVE Kept
  <2> SUFFICES ASSUME NEW r \in Replicas, lease.val = r, lease'.val = Done
               PROVE  pc[r] = "marking"
    OBVIOUS
  <2>1. lease' # lease /\ lease'.val # Free
    BY ValueAssumption
  <2>2. ~Tick /\ ~UNCHANGED vars
    BY <1>1, <2>1, ValueAssumption DEF Tick, vars, TypeOK
  <2>3. PICK q \in Replicas : Step(q) \/ Fault(q)
    BY <1>1, <2>2 DEF Next
  <2>4. markDone(q)
    BY <1>1, <2>1, <2>3, ValueAssumption DEF Step, Fault, Coordinate, decryptAndDispatch,
       processRequest, heartbeat, watchPoll, takeOver, watchGivesUp, Own, Crash, Restart,
       Partition, Heal, TypeOK
  <2> QED BY <2>1, <2>4 DEF markDone
<1>2. TypeOK /\ [Next]_vars => [Kept]_vars
  BY <1>1
<1> QED BY <1>2, ClaimTypes, PTL DEF Spec, NoClobber

\* A completed request is not taken over, by any of any number of watchers:
\* who starts the callback under a lease found no Redis key.
THEOREM ClaimDoneStopsTakeover == Spec => DoneStopsTakeover
<1> DEFINE Stopped == \A r \in Replicas :
                        lease.val = Done /\ pc[r] # "running" => pc'[r] # "running"
<1>1. ASSUME TypeOK, [Next]_vars PROVE Stopped
  <2> SUFFICES ASSUME NEW r \in Replicas, lease.val = Done, pc[r] # "running"
               PROVE  pc'[r] # "running"
    OBVIOUS
  <2>0. lease.val # Free
    BY ValueAssumption
  <2>1. CASE Tick \/ UNCHANGED vars
    BY <2>1 DEF Tick, vars
  <2>2. ASSUME NEW q \in Replicas, Step(q) PROVE pc'[r] # "running"
    BY <1>1, <2>0, <2>2 DEF Step, Goto, Coordinate, decryptAndDispatch, processRequest,
       heartbeat, markDone, watchPoll, takeOver, watchGivesUp, TypeOK
  <2>3. ASSUME NEW q \in Replicas, Fault(q) PROVE pc'[r] # "running"
    BY <1>1, <2>3 DEF Fault, Goto, Crash, Restart, Partition, Heal, TypeOK
  <2> QED BY <1>1, <2>1, <2>2, <2>3 DEF Next
<1>2. TypeOK /\ [Next]_vars => [Stopped]_vars
  BY <1>1
<1> QED BY <1>2, ClaimTypes, PTL DEF Spec, DoneStopsTakeover
=============================================================================
