--------------------------- MODULE UpstreamProxy ---------------------------
(***************************************************************************)
(* Signer chaining: a proxy key has a bunker URI, and its requests are     *)
(* forwarded over a relay to the signer that the URI names.  Connections   *)
(* are kept by the pubkey of that signer.  Several requests, and the loop  *)
(* that reconnects, may call Connect at once; a relay may drop any         *)
(* connection at any step; the goroutine that reads a connection and the   *)
(* call that made it share the connected flag without a lock.              *)
(*                                                                         *)
(* One proxy key, and an upstream signer that is no key of this signer:    *)
(* those are served without a connection.                                  *)
(***************************************************************************)
EXTENDS Naturals, FiniteSetsExt

CONSTANTS
  Forwards,     \* bound: the requests that are forwarded at a time
  Loop,         \* reconnectLoop
  MaxUpstream,  \* bound: the connections that something refers to
  MaxDrops      \* bound: lost connections, failed dials and subscriptions, unanswered requests

ASSUME ProxyAssumption == Loop \notin Forwards /\ {MaxUpstream, MaxDrops} \subseteq Nat

VARIABLES
  upstream,    \* the connections
  mapped,      \* c.connections[upstream], or 0
  connParams,  \* c.connParams[upstream] is there
  fwd,         \* the requests, and reconnectLoop
  deaf,        \* history: connections that Connect marked connected though nothing reads them
  drops

proxyVars == <<upstream, mapped, connParams, fwd, deaf, drops>>

Callees == 1..MaxUpstream
NoUpstream == [relay |-> FALSE, reads |-> FALSE, connected |-> FALSE]
Resting == [at |-> "rest", conn |-> 0, told |-> "nothing"]
Over(told) == [Resting EXCEPT !.at = "end", !.told = told]
Outcomes == {"nothing", "result", "error"}

ProxyTypeOK ==
  /\ upstream \in [Callees -> [relay : BOOLEAN, reads : BOOLEAN, connected : BOOLEAN]]
  /\ mapped \in 0..MaxUpstream /\ connParams \in BOOLEAN /\ deaf \subseteq Callees
  /\ fwd \in [Forwards \cup {Loop} ->
                [at : {"rest", "dial", "subscribed", "store", "send", "publish", "wait", "end"},
                 conn : 0..MaxUpstream, told : Outcomes]]
  /\ drops \in 0..MaxDrops

NewClient ==
  /\ upstream = [c \in Callees |-> NoUpstream] /\ mapped = 0 /\ connParams = FALSE
  /\ fwd = [x \in Forwards \cup {Loop} |-> Resting] /\ deaf = {} /\ drops = 0

-----------------------------------------------------------------------------

Step(x, r) == fwd' = [fwd EXCEPT ![x] = r]
On(x) == fwd[x].conn
Drop == drops < MaxDrops /\ drops' = drops + 1

\* What nothing refers to any more.
Forgettable(c) ==
  c # mapped /\ ~upstream[c].reads /\ \A x \in Forwards \cup {Loop} : On(x) # c
Unreferenced == {c \in Callees : Forgettable(c)}

Connected == mapped # 0 /\ upstream[mapped].connected

\* GetConnection and the first lines of Connect: a connected one serves.
GetConnection(x) ==
  IF Connected
  THEN Step(x, [Resting EXCEPT !.at = "send", !.conn = mapped])
  ELSE Step(x, [Resting EXCEPT !.at = "dial"])

handleProxyRequest(x) ==
  /\ x \in Forwards /\ fwd[x] = Resting /\ GetConnection(x)
  /\ UNCHANGED <<upstream, mapped, connParams, deaf, drops>>

reconnectMappedOnly ==
  /\ fwd[Loop] = Resting /\ connParams /\ mapped # 0 /\ ~Connected
  /\ Step(Loop, [Resting EXCEPT !.at = "dial"])
  /\ UNCHANGED <<upstream, mapped, connParams, deaf, drops>>

\* Every 30 seconds, for a connection that is missing or lost.
reconnectUpstream ==
  /\ fwd[Loop] = Resting /\ connParams /\ ~Connected
  /\ Step(Loop, [Resting EXCEPT !.at = "dial"])
  /\ UNCHANGED <<upstream, mapped, connParams, deaf, drops>>

\* A relay answers and the subscription is made.  When the subscription fails
\* the goroutine reports that it is ready and returns.
DialUpstream(x) ==
  /\ fwd[x].at = "dial" /\ Unreferenced # {}
  /\ LET c == Min(Unreferenced) IN
     \E reads \in BOOLEAN :
       /\ IF reads THEN UNCHANGED drops ELSE Drop
       /\ upstream' = [upstream EXCEPT ![c] = [NoUpstream EXCEPT !.relay = TRUE, !.reads = reads]]
       /\ Step(x, [fwd[x] EXCEPT !.at = "subscribed", !.conn = c])
       /\ deaf' = deaf \ {c}
  /\ UNCHANGED <<mapped, connParams>>

\* No relay answers, or the subscription takes more than 5 seconds.
DialFails(x) ==
  /\ fwd[x].at = "dial" /\ Drop
  /\ Step(x, IF x = Loop THEN Resting ELSE Over("error"))
  /\ UNCHANGED <<upstream, mapped, connParams, deaf>>

\* conn.connected = true, whatever the goroutine has done since.
MarkConnected(x) ==
  /\ fwd[x].at = "subscribed" /\ Step(x, [fwd[x] EXCEPT !.at = "store"])
  /\ upstream' = [upstream EXCEPT ![On(x)].connected = TRUE]
  /\ deaf' = IF upstream[On(x)].reads THEN deaf ELSE deaf \cup {On(x)}
  /\ UNCHANGED <<mapped, connParams, drops>>

\* The connect request that a URI with a secret adds changes nothing here.
Store(x) ==
  /\ fwd[x].at = "store" /\ mapped' = On(x) /\ connParams' = TRUE
  /\ Step(x, IF x = Loop THEN Resting ELSE [fwd[x] EXCEPT !.at = "send"])
  /\ UNCHANGED <<upstream, deaf, drops>>

-----------------------------------------------------------------------------

\* SendRequest enters itself in conn.pending, then publishes.
SendRequest(x) ==
  /\ fwd[x].at = "send" /\ Step(x, [fwd[x] EXCEPT !.at = "publish"])
  /\ UNCHANGED <<upstream, mapped, connParams, deaf, drops>>

PublishUpstream(x) ==
  /\ fwd[x].at = "publish"
  /\ Step(x, IF upstream[On(x)].relay THEN [fwd[x] EXCEPT !.at = "wait"] ELSE Over("error"))
  /\ UNCHANGED <<upstream, mapped, connParams, deaf, drops>>

\* The channel holds one answer; the first one stays.
Tell(x, told) == [fwd[x] EXCEPT !.told = IF @ = "nothing" THEN told ELSE @]

\* The upstream signer answers, and the connection's goroutine finds the request.
handleResponse(x) ==
  /\ fwd[x].at = "wait" /\ fwd[x].told = "nothing" /\ upstream[On(x)].reads
  /\ \E told \in {"result", "error"} : Step(x, Tell(x, told))
  /\ UNCHANGED <<upstream, mapped, connParams, deaf, drops>>

ReadAnswer(x) ==
  /\ fwd[x].at = "wait" /\ fwd[x].told # "nothing" /\ Step(x, Over(fwd[x].told))
  /\ UNCHANGED <<upstream, mapped, connParams, deaf, drops>>

\* 30 seconds.  Bound: on a connection that is read, no more often than drops.
TimesOut(x) ==
  /\ fwd[x].at = "wait" /\ fwd[x].told = "nothing"
  /\ IF upstream[On(x)].reads THEN Drop ELSE UNCHANGED drops
  /\ Step(x, Over("error"))
  /\ UNCHANGED <<upstream, mapped, connParams, deaf>>

\* The answer goes to the client, and another request comes.
Answered(x) ==
  /\ x \in Forwards /\ fwd[x].at = "end" /\ Step(x, Resting)
  /\ UNCHANGED <<upstream, mapped, connParams, deaf, drops>>

-----------------------------------------------------------------------------

failPendingNone(c) == UNCHANGED fwd

\* Those in conn.pending: the error goes into their channels.
failPendingRequests(c) ==
  fwd' = [x \in DOMAIN fwd |-> IF On(x) = c /\ fwd[x].at \in {"publish", "wait"} THEN Tell(x, "error") ELSE fwd[x]]

\* The relay closes the connection.  The goroutine that reads it clears the
\* flag, fails the requests and deletes the map's entry, whichever it is.
subscribeToResponses(c) ==
  /\ upstream[c].relay /\ Drop /\ UNCHANGED connParams
  /\ IF upstream[c].reads
     THEN /\ upstream' = [upstream EXCEPT ![c].relay = FALSE, ![c].reads = FALSE, ![c].connected = FALSE]
          /\ failPendingRequests(c)
          /\ mapped' = IF upstream[c].connected THEN 0 ELSE mapped
     ELSE upstream' = [upstream EXCEPT ![c].relay = FALSE] /\ UNCHANGED <<fwd, mapped>>
  /\ UNCHANGED deaf

-----------------------------------------------------------------------------

Connecting(x) == DialUpstream(x) \/ MarkConnected(x) \/ Store(x)

ProxyNext ==
  \/ \E x \in Forwards : handleProxyRequest(x)
  \/ \E x \in Forwards \cup {Loop} : Connecting(x) \/ DialFails(x)
  \/ \E x \in Forwards :
       \/ SendRequest(x) \/ PublishUpstream(x) \/ handleResponse(x) \/ ReadAnswer(x)
       \/ TimesOut(x) \/ Answered(x)
  \/ reconnectUpstream
  \/ \E c \in Callees : subscribeToResponses(c)

\* The ticker fires, Connect's calls return, a select takes what is ready.
ProxyFairness ==
  /\ WF_proxyVars(reconnectUpstream)
  /\ \A x \in Forwards \cup {Loop} : WF_proxyVars(Connecting(x))
  /\ \A x \in Forwards : WF_proxyVars(PublishUpstream(x) \/ SendRequest(x) \/ ReadAnswer(x))

-----------------------------------------------------------------------------

\* A signer that was reached once is reached again after the last fault, also
\* when the loss of an old connection has removed the entry of a newer one;
\* unless a connection that nothing reads was marked connected.
UpstreamComesBack ==
  <>[](connParams => Connected /\ (upstream[mapped].reads \/ mapped \in deaf))

\* No request waits for an answer on a connection that was lost: it has been
\* told, or it is told as it publishes.  (failPendingRequests: "immediately
\* instead of letting them timeout".)
LostConnectionTold ==
  \A x \in Forwards : fwd[x].at = "wait" /\ fwd[x].told = "nothing" => upstream[On(x)].reads \/ On(x) \in deaf

-----------------------------------------------------------------------------
(* What makes LostConnectionTold inductive.                                *)

\* An open connection past MarkConnected is read, or was marked though nothing
\* reads it.
Sound(c) == upstream[c].relay => upstream[c].reads \/ c \in deaf

ToldInv ==
  /\ ProxyTypeOK /\ LostConnectionTold
  /\ mapped # 0 => Sound(mapped)
  /\ \A x \in Forwards \cup {Loop} :
       /\ fwd[x].at \in {"subscribed", "store", "send", "publish", "wait"} => On(x) # 0
       /\ fwd[x].at \in {"store", "send", "publish", "wait"} => Sound(On(x))
=============================================================================
