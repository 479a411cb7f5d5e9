----------------------------- MODULE KeyRuntime -----------------------------
(***************************************************************************)
(* One key in one replica's memory: the runtime maps of the signer, the    *)
(* relay client that holds the key (internal/nostr/key_relay_manager.go)   *)
(* and the subscription its requests arrive on.  Calls that load and drop  *)
(* the key overlap; connections drop; replies dial connections too.        *)
(*                                                                         *)
(* The key has one relay of its own, used instead of the global one when   *)
(* keyRelays says so.  Client and connection ids are reused when nothing   *)
(* refers to them any more.                                                *)
(***************************************************************************)
EXTENDS Naturals, FiniteSets, FiniteSetsExt

CONSTANTS
  Loaders,     \* the goroutines that load the key
  Evictors,    \* and those that drop it
  MaxClients,  \* bounds on the relay clients and
  MaxConns,    \* the connections referred to at once,
  MaxEvents,   \* on dropped connections, failed dials and replies,
  MaxLoads     \* and on the loads of the key

ASSUME RuntimeAssumption ==
  {MaxClients, MaxConns, MaxEvents, MaxLoads} \subseteq Nat /\ MaxClients > 0 /\ MaxConns > 0

Calls == Loaders \cup Evictors
Clients == 1..MaxClients
Conns == 1..MaxConns

VARIABLES
  keys,      \* s.keys has the private key
  own,       \* s.keyRelays has the key's relays
  call,      \* where each call of RegisterKey or UnregisterKey is
  snap,      \* refreshSubscription's copy of keys and keyRelays
  subCancel, \* s.subCancels has the key
  client,    \* m.clients[key], or 0
  usesOwn,   \* of each client: relayURLs are the key's own
  runs,      \* the client that SubscribeWithAuth was called on, or 0
  conn,      \* c.relays[url] of each client, or 0
  up,        \* the connections that are open
  listen,    \* the connections a subscribeToRelayWithAuth goroutine reads
  dialing,   \* reconnectAndSubscribe has found the relay missing
  warm,      \* warmKeyRelayClient goroutines before GetClient, by what they read of keyRelays
  reply,     \* sendResponse: where it is, its client and its relay
  events, loads

runtimeVars == <<keys, own, call, snap, subCancel, client, usesOwn, runs, conn, up, listen,
                 dialing, warm, reply, events, loads>>
relayVars == <<client, usesOwn, conn, up>>
mapVars == <<keys, own, loads>>

NoSnap == [keys |-> FALSE, own |-> FALSE]
NoReply == [at |-> "none", client |-> 0, relay |-> 0]

RuntimeTypeOK ==
  /\ {keys, own, subCancel, dialing} \subseteq BOOLEAN
  /\ call \in [Calls -> {"idle", "registered", "evicted", "removed", "refresh", "last"}]
  /\ snap \in [keys : BOOLEAN, own : BOOLEAN]
  /\ {client, runs} \subseteq 0..MaxClients /\ conn \in [Clients -> 0..MaxConns]
  /\ usesOwn \in [Clients -> BOOLEAN] /\ up \subseteq Conns /\ listen \subseteq Conns
  /\ warm \in [BOOLEAN -> 0..MaxLoads] /\ events \in 0..MaxEvents /\ loads \in 0..MaxLoads
  /\ reply.at \in {"none", "key", "client", "relay"}
  /\ reply.client \in 0..MaxClients /\ reply.relay \in 0..MaxConns

\* Start: every key's relays are noted; a user-held key is not loaded.
Start ==
  /\ keys = FALSE /\ own = TRUE /\ call = [p \in Calls |-> "idle"]
  /\ snap = NoSnap /\ subCancel = FALSE
  /\ client = 0 /\ usesOwn = [c \in Clients |-> FALSE] /\ runs = 0
  /\ conn = [c \in Clients |-> 0] /\ up = {} /\ listen = {} /\ dialing = FALSE
  /\ warm = [o \in BOOLEAN |-> 0] /\ reply = NoReply /\ events = 0 /\ loads = 0

-----------------------------------------------------------------------------

\* Ids nothing refers to.
LiveClients == {client, runs, reply.client} \ {0}
FreeClients == Clients \ LiveClients
FreeConns == Conns \ ({conn[c] : c \in LiveClients} \cup listen \cup {reply.relay})

\* The connections and clients that are still referred to, the others forgotten.
Keep(cn, u) ==
  /\ conn' = [c \in Clients |-> IF c \in LiveClients' THEN cn[c] ELSE 0]
  /\ up' = u \cap ({conn'[c] : c \in Clients} \cup listen' \cup {reply.relay}')
  /\ usesOwn' = [c \in Clients |-> c \in LiveClients' /\ usesOwn[c]]

Event == events < MaxEvents /\ events' = events + 1

\* RelayConnect for client c's map: an open connection, or nothing when it fails.
Dial(c, n) ==
  \/ /\ n \in FreeConns /\ n = Min(FreeConns) /\ conn' = [conn EXCEPT ![c] = n]
     /\ up' = up \cup {n} /\ UNCHANGED events
  \/ n = 0 /\ Event /\ conn' = [conn EXCEPT ![c] = 0] /\ UNCHANGED up

\* GetClient, under the manager's lock: the client there is, or a new one,
\* connected before the map has it.
GetClient(o, c) ==
  \/ client # 0 /\ c = client /\ UNCHANGED <<relayVars, events>>
  \/ /\ client = 0 /\ c \in FreeClients /\ c = Min(FreeClients) /\ client' = c
     /\ usesOwn' = [usesOwn EXCEPT ![c] = o]
     /\ \E n \in 0..MaxConns : Dial(c, n)

\* RegisterKey and RegisterProxyKey, on every path that unlocks a key.
RegisterKey(p) ==
  /\ call[p] = "idle" /\ loads < MaxLoads /\ loads' = loads + 1
  /\ keys' = TRUE /\ call' = [call EXCEPT ![p] = "registered"]
  /\ UNCHANGED <<own, snap, subCancel, relayVars, runs, listen, dialing, warm, reply, events>>

\* UnregisterKey: the maps first,
UnregisterKey(p) ==
  /\ call[p] = "idle" /\ keys
  /\ keys' = FALSE /\ own' = FALSE /\ call' = [call EXCEPT ![p] = "evicted"]
  /\ UNCHANGED <<loads, snap, subCancel, relayVars, runs, listen, dialing, warm, reply, events>>

\* then RemoveClient, which closes its connections,
RemoveClient(p) ==
  /\ call[p] = "evicted" /\ call' = [call EXCEPT ![p] = "removed"]
  /\ client' = 0
  /\ UNCHANGED <<mapVars, snap, subCancel, runs, listen, dialing, warm, reply, events>>
  /\ IF client = 0 THEN UNCHANGED <<conn, up, usesOwn>>
     ELSE Keep([conn EXCEPT ![client] = 0], up \ {conn[client]})

MayRefreshUnlocked(p) == call[p] \in {"registered", "removed"}

\* then refreshSubscription, as RegisterKey does.
MayRefresh(p) ==
  /\ call[p] \in {"registered", "removed"}
  /\ \A q \in Calls : call[q] \notin {"refresh", "last"}

\* refreshSubscription takes subLock and copies the maps.
Snapshot(p) ==
  /\ MayRefresh(p) /\ snap' = [keys |-> keys, own |-> own]
  /\ call' = [call EXCEPT ![p] = IF call[p] = "registered" THEN "refresh" ELSE "last"]
  /\ UNCHANGED <<mapVars, subCancel, relayVars, runs, listen, dialing, warm, reply, events>>

ReturnWarming(p) ==
  /\ call' = [call EXCEPT ![p] = "idle"] /\ snap' = NoSnap
  /\ warm' = [warm EXCEPT ![own] = @ + 1]

\* RegisterKey ends with warmKeyRelayClient, which leaves a goroutine behind.
Return(p) ==
  /\ call' = [call EXCEPT ![p] = "idle"] /\ snap' = NoSnap
  /\ warm' = IF call[p] = "refresh" THEN [warm EXCEPT ![own] = @ + 1] ELSE warm

\* What refreshSubscription then does: cancel the subscription of a key that
\* is gone, or start one and connect its client, before it unlocks.
refreshSubscription(p) ==
  /\ call[p] \in {"refresh", "last"} /\ Return(p)
  /\ \/ /\ subCancel /\ ~snap.keys
        /\ subCancel' = FALSE /\ runs' = 0 /\ listen' = {} /\ dialing' = FALSE
        /\ UNCHANGED <<client, reply, events>> /\ Keep(conn, up)
     \/ subCancel = snap.keys /\ UNCHANGED <<subCancel, runs, listen, dialing, relayVars, reply, events>>
     \/ /\ ~subCancel /\ snap.keys /\ subCancel' = TRUE
        /\ \E c \in Clients :
             GetClient(snap.own, c) /\ runs' = c /\ listen' = {conn'[c]} \ {0}
        /\ UNCHANGED <<dialing, reply>>
  /\ UNCHANGED mapVars

\* The warming goroutine, with the private key it was given.
WarmClient(o) ==
  /\ warm[o] > 0 /\ warm' = [warm EXCEPT ![o] = @ - 1]
  /\ \E c \in Clients : GetClient(o, c)
  /\ UNCHANGED <<mapVars, call, snap, subCancel, runs, listen, dialing, reply>>

-----------------------------------------------------------------------------

\* The relay closes a connection,
ConnectionDrops(n) ==
  /\ n \in up /\ Event /\ up' = up \ {n}
  /\ UNCHANGED <<mapVars, call, snap, subCancel, client, usesOwn, conn, runs, listen, dialing, warm, reply>>

\* which its goroutine notices: it deletes the entry of the url, whatever
\* connection that has by now.  A subscription the relay refuses, before or
\* after authAndRetrySubscribe, ends the same way.
subscribeToRelayWithAuth(n) ==
  /\ n \in listen /\ listen' = listen \ {n}
  /\ \/ n \notin up /\ UNCHANGED events
     \/ n \in up /\ Event
  /\ UNCHANGED <<mapVars, call, snap, subCancel, client, runs, dialing, warm, reply>>
  /\ Keep([conn EXCEPT ![runs] = 0], up)

FindMissingManaged ==
  /\ runs # 0 /\ runs = client /\ ~dialing /\ conn[runs] = 0 /\ dialing' = TRUE
  /\ UNCHANGED <<mapVars, call, snap, subCancel, relayVars, runs, listen, warm, reply, events>>

\* Every 30 s reconnectAndSubscribe looks for relays missing in the map,
FindMissing ==
  /\ runs # 0 /\ ~dialing /\ conn[runs] = 0 /\ dialing' = TRUE
  /\ UNCHANGED <<mapVars, call, snap, subCancel, relayVars, runs, listen, warm, reply, events>>

\* dials them without the lock, and listens on what it got.
reconnectAndSubscribe ==
  /\ dialing /\ dialing' = FALSE
  /\ \/ /\ FreeConns # {}
        /\ LET n == Min(FreeConns) IN
             /\ listen' = listen \cup {n} /\ UNCHANGED <<client, runs, reply, events>>
             /\ Keep([conn EXCEPT ![runs] = n], up \cup {n})
     \/ Event /\ UNCHANGED <<relayVars, runs, reply, listen>>
  /\ UNCHANGED <<mapVars, call, snap, subCancel, warm>>

-----------------------------------------------------------------------------

\* sendResponse for a request, or for an approval at the API: it has the
\* private key, takes the client of the key,
StartReply ==
  /\ reply = NoReply /\ keys /\ Event /\ reply' = [NoReply EXCEPT !.at = "key"]
  /\ UNCHANGED <<mapVars, call, snap, subCancel, relayVars, runs, listen, dialing, warm>>

sendResponse ==
  /\ reply.at = "key"
  /\ \E c \in Clients : GetClient(own, c) /\ reply' = [at |-> "client", client |-> c, relay |-> 0]
  /\ UNCHANGED <<mapVars, call, snap, subCancel, runs, listen, dialing, warm>>

\* and its connection, dialled when the map has none.  A connection error
\* replaces the entry of the url by a new connection and publishes again, at
\* most five times; auth and proof of work come back here.
Redial(c, n) ==
  \/ /\ n \in FreeConns /\ n = Min(FreeConns)
     /\ reply' = [reply EXCEPT !.at = "relay", !.relay = n]
     /\ Keep([conn EXCEPT ![c] = n], up \cup {n}) /\ UNCHANGED events
  \/ n = 0 /\ Event /\ reply' = NoReply /\ Keep([conn EXCEPT ![c] = 0], up)

PublishToRelay ==
  /\ reply.at = "client"
  /\ UNCHANGED <<mapVars, call, snap, subCancel, client, runs, listen, dialing, warm>>
  /\ \/ /\ conn[reply.client] # 0 /\ UNCHANGED <<conn, up, usesOwn, events>>
        /\ reply' = [reply EXCEPT !.at = "relay", !.relay = conn[reply.client]]
     \/ conn[reply.client] = 0 /\ \E n \in 0..MaxConns : Redial(reply.client, n)

publishWithRetry ==
  /\ reply.at = "relay"
  /\ UNCHANGED <<mapVars, call, snap, subCancel, client, runs, listen, dialing, warm>>
  /\ \/ reply.relay \in up /\ reply' = NoReply /\ Keep(conn, up) /\ UNCHANGED events
     \/ reply.relay \notin up /\ \E n \in 0..MaxConns : Redial(reply.client, n)

RuntimeNext ==
  \/ \E p \in Loaders : RegisterKey(p)
  \/ \E p \in Evictors : UnregisterKey(p) \/ RemoveClient(p)
  \/ \E p \in Calls : Snapshot(p) \/ refreshSubscription(p)
  \/ \E o \in BOOLEAN : WarmClient(o)
  \/ \E n \in Conns : ConnectionDrops(n) \/ subscribeToRelayWithAuth(n)
  \/ FindMissing \/ reconnectAndSubscribe
  \/ StartReply \/ sendResponse \/ PublishToRelay \/ publishWithRetry

\* Goroutines run, and the ticker of reconnectAndSubscribe fires.
RuntimeFairness ==
  /\ WF_runtimeVars(\E p \in Calls : RemoveClient(p) \/ Snapshot(p) \/ refreshSubscription(p))
  /\ WF_runtimeVars(\E n \in Conns : n \notin up /\ subscribeToRelayWithAuth(n))
  /\ WF_runtimeVars(FindMissing \/ reconnectAndSubscribe)

-----------------------------------------------------------------------------

Quiet == \A p \in Calls : call[p] = "idle"

\* Once no call is under way, the key has a subscription exactly when it is
\* loaded, however RegisterKey and UnregisterKey overlapped: each refreshes
\* after it changed the maps, and refreshes take turns (subLock).
SubscriptionMatchesKeys == Quiet => subCancel = keys

\* The map has a connection no goroutine reads: a reply dialled it.
Unread == runs # 0 /\ conn[runs] # 0 /\ conn[runs] \notin listen
Heard == \E n \in listen : n \in up

\* A loaded key is heard again after any number of dropped connections,
\* refused subscriptions and overlapping calls, also when its subscription
\* runs on a client that was removed, except while the map has a connection
\* that a reply dialled.
HeardAgain == []<>(Heard \/ Unread \/ ~keys \/ ~Quiet)

-----------------------------------------------------------------------------
(* What makes SubscriptionMatchesKeys inductive.                           *)

MapTypes ==
  /\ keys \in BOOLEAN /\ own \in BOOLEAN /\ subCancel \in BOOLEAN
  /\ snap \in [keys : BOOLEAN, own : BOOLEAN]
  /\ call \in [Calls -> {"idle", "registered", "evicted", "removed", "refresh", "last"}]

Refreshing(p) == call[p] \in {"refresh", "last"}

\* One call at a time refreshes; and some call will still refresh, or the one
\* that does has read the key as it is, or the subscription is as it should be.
RefreshInv ==
  /\ MapTypes
  /\ \A p, q \in Calls : Refreshing(p) /\ Refreshing(q) => p = q
  /\ \/ \E p \in Calls : call[p] \in {"registered", "evicted", "removed"}
     \/ (\E p \in Calls : Refreshing(p)) /\ snap.keys = keys
     \/ (\A p \in Calls : ~Refreshing(p)) /\ subCancel = keys
=============================================================================
