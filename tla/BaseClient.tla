----------------------------- MODULE BaseClient -----------------------------
(***************************************************************************)
(* The signer's shared relay client (internal/nostr/client.go) and one     *)
(* relay: the administrators' subscription, that of a threshold key, and   *)
(* a publish that has to arrive, such as the answer of a nostrconnect      *)
(* sign-in.  Connection ids are reused when nothing refers to them.        *)
(***************************************************************************)
EXTENDS Naturals, Sequences, SequencesExt, FiniteSetsExt

CONSTANTS
  MaxBaseConns,   \* bounds on the connections referred to at once
  MaxOutages      \* and on the faults of the relay

ASSUME BaseAssumption == MaxBaseConns \in Nat \ {0} /\ MaxOutages \in Nat

BaseConns == 1..MaxBaseConns
Filters == {"admin", "frost"}

VARIABLES
  relay,      \* c.relays[url], or 0
  open,       \* the connections that are open
  subscriptions, \* c.subscriptions, which fill it at start-up
  ctxDone,    \* the subscription of the threshold key has been cancelled
  reading,    \* the connections each subscription's handler is called from
  ack,        \* PublishToRelay: where it is, its connection, and what it met
  outages

baseVars == <<relay, open, subscriptions, ctxDone, reading, ack, outages>>

NoAck == [at |-> "none", conn |-> 0, trouble |-> FALSE]

BaseTypeOK ==
  /\ relay \in 0..MaxBaseConns /\ open \subseteq BaseConns
  /\ subscriptions \in {<<>>} \cup UNION {[1..n -> Filters] : n \in 1..2}
  /\ ctxDone \in BOOLEAN /\ reading \in [Filters -> SUBSET BaseConns]
  /\ ack.at \in {"none", "cached", "fresh", "delivered", "failed"} /\ ack.conn \in 0..MaxBaseConns
  /\ ack.trouble \in BOOLEAN /\ outages \in 0..MaxOutages

\* Connect at start-up: a relay that cannot be reached is left out.
Connect ==
  /\ \/ relay = 1 /\ open = {1} /\ outages = 0
     \/ relay = 0 /\ open = {} /\ outages = 1
  /\ subscriptions = <<>> /\ ctxDone = FALSE /\ reading = [f \in Filters |-> {}] /\ ack = NoAck

Unused == BaseConns \ ({relay, ack.conn} \cup UNION {reading[f] : f \in Filters})
NewConn == Min(Unused)
Outage == outages < MaxOutages /\ outages' = outages + 1

\* Connections that nobody refers to are forgotten.
Held(u) == open' = u \cap ({relay', ack.conn'} \cup UNION {reading'[f] : f \in Filters})

\* SubscribeWithReconnect and SubscribeWithRelayInfoReconnect: stored, and
\* read on the relays that are connected.
SubscribeOn(f) ==
  /\ f \notin ToSet(subscriptions) /\ subscriptions' = Append(subscriptions, f)
  /\ reading' = [reading EXCEPT ![f] = {relay} \ {0}]
  /\ UNCHANGED <<relay, open, ctxDone, ack, outages>>

\* UnregisterKey of the threshold key.
CancelFrost ==
  /\ "frost" \in ToSet(subscriptions) /\ ~ctxDone /\ ctxDone' = TRUE
  /\ reading' = [reading EXCEPT !["frost"] = {}] /\ UNCHANGED <<relay, subscriptions, ack, outages>>
  /\ Held(open)

\* The relay closes a connection.
RelayCloses(n) ==
  /\ n \in open /\ Outage /\ open' = open \ {n}
  /\ UNCHANGED <<relay, subscriptions, ctxDone, reading, ack>>

\* The goroutine of Subscribe just ends; that of SubscribeWithRelayInfo
\* removes the relay from the map.  One the relay refuses ends as well.
EventsClosed(f, n) ==
  /\ n \in reading[f]
  /\ (n \notin open /\ UNCHANGED outages) \/ (n \in open /\ Outage)
  /\ reading' = [reading EXCEPT ![f] = @ \ {n}]
  /\ relay' = IF f = "frost" THEN 0 ELSE relay
  /\ UNCHANGED <<subscriptions, ctxDone, ack>> /\ Held(open)

\* The ticker of the first subscription: reconnectIfNeeded reads every stored
\* one again, a threshold key's with a handler that does nothing;
\* reconnectWithRelayInfoIfNeeded only its own.
Owner == IF subscriptions = <<>> THEN "nobody" ELSE Head(subscriptions)
Ticks == Owner = "admin" \/ (Owner = "frost" /\ ~ctxDone)

reconnectIfNeeded ==
  /\ Ticks /\ relay = 0
  /\ \/ /\ Unused # {} /\ relay' = NewConn /\ open' = open \cup {NewConn}
        /\ reading' = [reading EXCEPT ![Owner] = @ \cup {NewConn}] /\ UNCHANGED outages
     \/ Outage /\ UNCHANGED <<relay, open, reading>>
  /\ UNCHANGED <<subscriptions, ctxDone, ack>>

\* A dial for PublishToRelay, closed when it returns.
DialFresh ==
  \/ /\ Unused # {} /\ open' = open \cup {NewConn} /\ UNCHANGED outages
     /\ ack' = [at |-> "fresh", conn |-> NewConn, trouble |-> FALSE]
  \/ /\ Outage /\ ack' = [at |-> "failed", conn |-> 0, trouble |-> TRUE] /\ UNCHANGED open

\* PublishToRelay: the cached connection if it is live, otherwise a dial,
PublishToTarget ==
  /\ ack = NoAck
  /\ \/ relay \in open /\ ack' = [NoAck EXCEPT !.at = "cached", !.conn = relay] /\ UNCHANGED <<open, outages>>
     \/ relay \notin open /\ DialFresh
  /\ UNCHANGED <<relay, subscriptions, ctxDone, reading>>

\* which is tried once more when the cached one turns out to be closed.
PublishCachedOnce ==
  /\ ack.at = "cached"
  /\ \/ /\ ack.conn \in open /\ ack' = [ack EXCEPT !.at = "delivered", !.conn = 0] /\ UNCHANGED outages
     \/ /\ ack.conn \notin open /\ ack' = [ack EXCEPT !.at = "failed", !.conn = 0] /\ UNCHANGED outages
     \/ Outage /\ ack' = [at |-> "failed", conn |-> 0, trouble |-> TRUE]
  /\ UNCHANGED <<relay, subscriptions, ctxDone, reading>> /\ Held(open)

PublishCached ==
  /\ ack.at = "cached"
  /\ UNCHANGED <<relay, subscriptions, ctxDone, reading>>
  /\ \/ /\ ack.conn \in open /\ UNCHANGED outages
        /\ ack' = [ack EXCEPT !.at = "delivered", !.conn = 0] /\ Held(open)
     \/ ack.conn \notin open /\ DialFresh
     \/ Outage /\ ack' = [at |-> "failed", conn |-> 0, trouble |-> TRUE] /\ Held(open)

\* A fresh connection serves one publish; the relay may close it or refuse.
PublishFresh ==
  /\ ack.at = "fresh"
  /\ UNCHANGED <<relay, subscriptions, ctxDone, reading>>
  /\ \/ ack.conn \in open /\ UNCHANGED outages /\ ack' = [ack EXCEPT !.at = "delivered", !.conn = 0]
     \/ /\ ack.conn \notin open /\ UNCHANGED outages
        /\ ack' = [at |-> "failed", conn |-> 0, trouble |-> TRUE]
     \/ Outage /\ ack' = [at |-> "failed", conn |-> 0, trouble |-> TRUE]
  /\ Held(open)

NextAck ==
  /\ ack.at \in {"delivered", "failed"} /\ ack' = NoAck
  /\ UNCHANGED <<relay, open, subscriptions, ctxDone, reading, outages>>

BaseNext ==
  \/ \E f \in Filters : SubscribeOn(f) \/ \E n \in BaseConns : EventsClosed(f, n)
  \/ CancelFrost \/ reconnectIfNeeded \/ \E n \in BaseConns : RelayCloses(n)
  \/ PublishToTarget \/ PublishCached \/ PublishFresh \/ NextAck

-----------------------------------------------------------------------------

\* An answer that must reach the client's relay is lost only when the relay
\* could not be dialled, refused it, or closed the connection dialled for it:
\* never because the connection the client had kept was dead, whenever it died.
AckSurvivesDeadConnection == ack.at = "failed" => ack.trouble

\* Inductive, with the types it needs.
AckInv ==
  /\ relay \in 0..MaxBaseConns
  /\ ack \in [at : {"none", "cached", "fresh", "delivered", "failed"}, conn : 0..MaxBaseConns,
              trouble : BOOLEAN]
  /\ AckSurvivesDeadConnection
=============================================================================
