--------------------------- MODULE DistributedDKG ---------------------------
(***************************************************************************)
(* Key generation among signer instances, as far as the code gets: the     *)
(* invitation, the acceptances and the commitments of round 1, over        *)
(* ephemeral direct messages.  Every relay connection delivers on a        *)
(* goroutine of its own, so a message may be lost, overtaken or handled    *)
(* twice at once.  Sessions live in memory only.                           *)
(*                                                                         *)
(* Rounds 2 and 3 are in the source and cannot be reached: only the first  *)
(* participant is sent acceptances, so nobody else starts round 1.  One    *)
(* session.                                                                *)
(***************************************************************************)
EXTENDS Naturals, FiniteSets, Sequences, SequencesExt

CONSTANTS
  Signers, NoSigner,
  Invitations,      \* bound: the lists of participants that are tried
  MaxCopies,        \* bound on the deliveries beyond the first,
  MaxNetFaults      \* and on the lost messages and crashes

ASSUME SignerAssumption == NoSigner \notin Signers /\ {MaxCopies, MaxNetFaults} \subseteq Nat

\* What handleInitDKGSession lets through.
ValidInvitation(l) == l \in Seq(Signers) /\ Len(l) >= 2

ASSUME InvitationAssumption == \A l \in Invitations : ValidInvitation(l)

VARIABLES
  initiator,   \* the signer whose API the session was started at
  list,        \* the participants, in order
  sess,        \* localDKGState of each signer: its phase, whom it takes for the initiator,
               \* Accepted and ReceivedCommits
  net,         \* the messages in flight
  starting,    \* calls of startRound1 that have found every acceptance there
  drawn,       \* history: the polynomials each signer has drawn
  joined,      \* history: who accepted
  copies, netFaults

dkgVars == <<initiator, list, sess, net, starting, drawn, joined, copies, netFaults>>

Members == ToSet(list)
NoCommits == [p \in Signers |-> 0]
Unknown == [phase |-> "none", initiator |-> NoSigner, accepted |-> {}, commits |-> NoCommits]
Pending(first, acc) ==
  [phase |-> "pending", initiator |-> first, accepted |-> acc, commits |-> NoCommits]

Message(t, from, to, poly) == [type |-> t, from |-> from, to |-> to, poly |-> poly]

DKGTypeOK ==
  /\ initiator \in Signers \cup {NoSigner} /\ list \in Invitations
  /\ \A p \in Signers :
       /\ sess[p].phase \in {"none", "pending", "round1", "round2"}
       /\ sess[p].initiator \in Signers \cup {NoSigner} /\ sess[p].accepted \subseteq Signers
       /\ starting[p] \in Nat /\ drawn[p] \in Nat
       /\ \A j \in Signers : sess[p].commits[j] \in 0..drawn[j]
  /\ \A m \in net : m.from \in Signers /\ m.to \in Signers
                    /\ m.type \in {"init", "accept", "commit"} /\ m.poly \in 0..drawn[m.from]
  /\ joined \subseteq Signers /\ copies \in 0..MaxCopies /\ netFaults \in 0..MaxNetFaults

DKGInit ==
  /\ initiator = NoSigner /\ list \in Invitations
  /\ sess = [p \in Signers |-> Unknown] /\ net = {}
  /\ starting = [p \in Signers |-> 0] /\ drawn = [p \in Signers |-> 0]
  /\ joined = {} /\ copies = 0 /\ netFaults = 0

-----------------------------------------------------------------------------

\* SendEphemeralDM to every other participant: an error is logged, and
\* SubscribeDMs drops what a signer sent itself.
Broadcast(t, p, poly) == {Message(t, p, q, poly) : q \in Members \ {p}}

\* A handled message is gone, unless another relay delivers it as well.
Delivered(m, sent) ==
  \/ net' = (net \ {m}) \cup sent /\ UNCHANGED copies
  \/ copies < MaxCopies /\ copies' = copies + 1 /\ net' = net \cup sent

\* Lost on the way, or an invitation handled after it expired.
Lose(m) ==
  /\ m \in net /\ net' = net \ {m}
  /\ netFaults < MaxNetFaults /\ netFaults' = netFaults + 1
  /\ UNCHANGED <<initiator, list, sess, starting, drawn, joined, copies>>

\* handleInitDKGSession: a participant accepts its own invitation.
InitiateSession(p) ==
  /\ initiator = NoSigner /\ p \in Members
  /\ initiator' = p
  /\ sess' = [sess EXCEPT ![p] = Pending(p, {p})]
  /\ net' = Broadcast("init", p, 0) /\ joined' = {p}
  /\ UNCHANGED <<list, starting, drawn, copies, netFaults>>

\* The first invitation creates the state, with the first participant as the
\* initiator, whoever sent it; it is accepted at once, towards that one.
handleDKGInit(m) ==
  /\ m \in net /\ m.type = "init"
  /\ IF sess[m.to].phase # "none"
     THEN Delivered(m, {}) /\ UNCHANGED <<sess, joined>>
     ELSE /\ sess' = [sess EXCEPT ![m.to] = Pending(list[1], {m.to})]
          /\ Delivered(m, {Message("accept", m.to, list[1], 0)} \ {Message("accept", m.to, m.to, 0)})
          /\ joined' = joined \cup {m.to}
  /\ UNCHANGED <<initiator, list, starting, drawn, netFaults>>

\* acceptedCount == TotalShares, while the session is pending.
AllAccepted(s) == Cardinality(s.accepted) = Len(list)

\* An acceptance is recorded; the one that completes them starts round 1,
\* after the lock was given up.
handleDKGAccept(m) ==
  LET s == [sess[m.to] EXCEPT !.accepted = @ \cup {m.from}]
  IN  /\ m \in net /\ m.type = "accept" /\ Delivered(m, {})
      /\ IF sess[m.to].phase = "none" \/ m.from \notin Members THEN UNCHANGED <<sess, starting>>
         ELSE /\ sess' = [sess EXCEPT ![m.to] = s]
              /\ starting' = [starting EXCEPT ![m.to] =
                                IF AllAccepted(s) /\ s.phase = "pending" THEN @ + 1 ELSE @]
      /\ UNCHANGED <<initiator, list, drawn, joined, netFaults>>

\* Mutant: the status is not read again under the lock.
MayStartUnchecked(s) == s.phase # "none"

\* Only the first of two calls finds the session pending.
MayStart(s) == s.phase = "pending"

\* checkRound1Complete: every commitment is there, in round 1.
checkRound1Complete(s) ==
  IF s.phase = "round1" /\ Cardinality({j \in Signers : s.commits[j] # 0}) = Len(list)
  THEN [s EXCEPT !.phase = "round2"] ELSE s

\* A polynomial is drawn and its commitments are sent to everyone.
startRound1(p) ==
  /\ starting[p] > 0 /\ starting' = [starting EXCEPT ![p] = @ - 1]
  /\ IF MayStart(sess[p])
     THEN LET n == drawn[p] + 1 IN
          /\ drawn' = [drawn EXCEPT ![p] = n]
          /\ sess' = [sess EXCEPT ![p] = checkRound1Complete(
                        [@ EXCEPT !.phase = "round1", !.commits[p] = n])]
          /\ net' = net \cup Broadcast("commit", p, n)
     ELSE UNCHANGED <<drawn, sess, net>>
  /\ UNCHANGED <<initiator, list, joined, copies, netFaults>>

\* A commitment is kept in any round.
handleDKGCommit(m) ==
  /\ m \in net /\ m.type = "commit" /\ Delivered(m, {})
  /\ sess' = [sess EXCEPT ![m.to] = IF @.phase = "none" \/ m.from \notin Members THEN @
                                    ELSE checkRound1Complete([@ EXCEPT !.commits[m.from] = m.poly])]
  /\ UNCHANGED <<initiator, list, starting, drawn, joined, netFaults>>

\* A process restarts; its sessions and its calls are gone.
Crash(p) ==
  /\ netFaults < MaxNetFaults /\ netFaults' = netFaults + 1 /\ sess[p].phase # "none"
  /\ sess' = [sess EXCEPT ![p] = Unknown] /\ starting' = [starting EXCEPT ![p] = 0]
  /\ UNCHANGED <<initiator, list, net, drawn, joined, copies>>

Deliver(m) == handleDKGInit(m) \/ handleDKGAccept(m) \/ handleDKGCommit(m)

DKGNext ==
  \/ \E p \in Signers : InitiateSession(p) \/ startRound1(p) \/ Crash(p)
  \/ \E m \in net : Deliver(m) \/ Lose(m)

-----------------------------------------------------------------------------
(* Properties.                                                             *)

\* All hold the same commitment of a participant, the one of the polynomial it
\* uses, although acceptances are handled twice and at once.
CommitmentsAgree ==
  \A p, q \in Signers :
    sess[q].phase # "none" /\ sess[q].commits[q] # 0 =>
      sess[p].commits[q] \in {0, sess[q].commits[q]}

-----------------------------------------------------------------------------
(* What makes CommitmentsAgree inductive.                                  *)

DKGTypes ==
  /\ initiator \in Signers \cup {NoSigner} /\ list \in Invitations
  /\ sess \in [Signers -> [phase : {"none", "pending", "round1", "round2"},
                           initiator : Signers \cup {NoSigner},
                           accepted : SUBSET Signers, commits : [Signers -> {0, 1}]]]
  /\ net \subseteq [type : {"init", "accept", "commit"}, from : Signers, to : Signers, poly : {0, 1}]
  /\ starting \in [Signers -> Nat] /\ drawn \in [Signers -> {0, 1}]

\* Nobody tells the initiator of its own session: neither the acceptance of an
\* initiator nor, after its crash, an invitation is ever sent.  So the first
\* participant gets past the invitation only as the initiator, and once.
AgreeInv ==
  /\ DKGTypes /\ initiator \in Members \cup {NoSigner}
  /\ \A m \in net :
       /\ m.type = "init" => m.to \in Members \ {initiator}
       /\ m.type = "accept" => m.to = list[1] /\ m.from # initiator
  /\ \A p \in Signers :
       /\ sess[p].accepted \subseteq Members
       /\ p # initiator => initiator \notin sess[p].accepted
       /\ starting[p] > 0 \/ drawn[p] > 0 => p = list[1] /\ p = initiator
       /\ sess[p].phase = "pending" => drawn[p] = 0
  /\ initiator = NoSigner => net = {} /\ sess = [p \in Signers |-> Unknown]
=============================================================================
