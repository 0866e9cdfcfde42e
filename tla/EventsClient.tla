---------------------------- MODULE EventsClient ----------------------------
(***************************************************************************)
(* The browser's client of /events (facet/src/api/events.ts): one          *)
(* WebSocket for all subscriptions, opened with the first and closed with  *)
(* the last, and opened again after a delay when it is lost.               *)
(*                                                                         *)
(* The browser is single-threaded: an action is a call of the client or a  *)
(* callback of a socket or a timer.  Callbacks do not ask whether their    *)
(* socket is still the current one.                                        *)
(***************************************************************************)
EXTENDS EventStream

VARIABLES
  state,     \* idle, connecting, open or closing
  ws,        \* the current socket
  wanted,    \* subs: the client's subscriptions
  nextSubId,
  timer,     \* a reconnect is scheduled
  socket     \* the browser's end of each connection

clientVars == <<state, ws, wanted, nextSubId, timer, socket>>

ClientInit ==
  /\ state = "idle"
  /\ ws = NoConn
  /\ wanted = {}
  /\ nextSubId \in SubIds  \* earlier ones are taken back
  /\ timer = FALSE
  /\ \E spent \in 0..MaxConns :  \* and so are earlier connections over
       socket = [c \in Conns |-> IF c <= spent THEN "shut" ELSE "new"]

Unused == {c \in Conns : socket[c] = "new"}

(* connect(): does nothing while a socket is connecting or open.           *)
Dial ==
  IF state \in {"connecting", "open"} THEN UNCHANGED <<state, ws, socket>>
  ELSE \E c \in Unused :
         /\ \A d \in Unused : c <= d
         /\ state' = "connecting"
         /\ ws' = c
         /\ socket' = [socket EXCEPT ![c] = "dialing"]

(* What ws.send passes on: only an open socket that is not closing.        *)
Carries(c) == c # NoConn /\ c \notin cut /\ socket[c] = "open"

ToServer(c, ops) == up' = IF c \in Conns THEN [up EXCEPT ![c] = @ \o ops] ELSE up

(* subscribe(): a socket that is connecting sends it when it opens.        *)
AskSubscribe ==
  /\ nextSubId \in SubIds
  /\ nextSubId' = nextSubId + 1
  /\ wanted' = wanted \cup {nextSubId}
  /\ IF state = "idle"
     THEN Dial /\ UNCHANGED up
     ELSE /\ ToServer(ws, IF state = "open" /\ Carries(ws) THEN <<<<"subscribe", nextSubId>>>> ELSE <<>>)
          /\ UNCHANGED <<state, ws, socket>>
  /\ UNCHANGED <<cut, timer, serverVars, worldVars>>

(* The function that subscribe() returned; the last one closes the socket. *)
AskUnsubscribe(id) ==
  /\ id \in wanted
  /\ Trouble
  /\ wanted' = wanted \ {id}
  /\ ToServer(ws, IF state = "open" /\ Carries(ws) THEN <<<<"unsubscribe", id>>>> ELSE <<>>)
  /\ IF wanted' = {} /\ ws # NoConn
     THEN state' = "closing" /\ cut' = cut \cup {ws}
     ELSE UNCHANGED <<state, cut>>
  /\ UNCHANGED <<ws, nextSubId, timer, socket, serverVars, log, readable>>

InOrder(ids) ==
  [i \in 1..Cardinality(ids) |->
     <<"subscribe", CHOOSE x \in ids : Cardinality({y \in ids : y < x}) = i - 1>>]

(* Mutant: only subscriptions never acknowledged are sent on a new socket. *)
ReissuedPending ==
  InOrder({id \in wanted : \A c \in Conns : \A i \in DOMAIN wire[c] :
             wire[c][i].type = "ack" => wire[c][i].id # id})

(* What onopen sends.                                                      *)
Reissued == InOrder(wanted)

(* onopen, once the server has authenticated the token and accepted: every *)
(* subscription is sent on the socket that is then the current one.        *)
OnOpen(c) ==
  /\ socket[c] = "dialing" /\ c \notin cut
  /\ socket' = [socket EXCEPT ![c] = "open"]
  /\ srv' = [srv EXCEPT ![c] = "open"]
  /\ state' = "open"
  /\ ToServer(ws, IF ws = c \/ Carries(ws) THEN Reissued ELSE <<>>)
  /\ UNCHANGED <<cut, ws, wanted, nextSubId, timer,
                 subs, bus, queue, known, pump, lock, wire, since, worldVars>>

(* The network or the server goes away, or refuses the connection.         *)
Lose(c) ==
  /\ socket[c] \in {"dialing", "open"} /\ c \notin cut
  /\ Trouble
  /\ cut' = cut \cup {c}
  /\ UNCHANGED <<up, state, ws, wanted, nextSubId, timer, socket, serverVars, log, readable>>

(* scheduleReconnect is called only if the connection was open.            *)
Retries == wanted # {} /\ state = "open"

(* onclose, for whichever socket it was.                                   *)
OnClose(c) ==
  /\ c \in cut /\ socket[c] \in {"dialing", "open"}
  /\ socket' = [socket EXCEPT ![c] = "shut"]
  /\ ws' = NoConn
  /\ state' = "idle"
  /\ timer' = (timer \/ Retries)
  /\ UNCHANGED <<netVars, wanted, nextSubId, serverVars, worldVars>>

Reconnect ==
  /\ timer
  /\ timer' = FALSE
  /\ IF wanted # {} THEN Dial ELSE UNCHANGED <<state, ws, socket>>
  /\ UNCHANGED <<netVars, wanted, nextSubId, serverVars, worldVars>>

Client ==
  \/ AskSubscribe
  \/ \E id \in SubIds : AskUnsubscribe(id)
  \/ \E c \in Conns : OnOpen(c) \/ Lose(c) \/ OnClose(c)
  \/ Reconnect

(* Sockets open, fail and close in the end, and timers fire.               *)
ClientFairness ==
  /\ \A c \in Conns :
       WF_<<clientVars, netVars, srv>>(OnOpen(c)) /\ WF_<<clientVars, netVars, srv>>(OnClose(c))
  /\ WF_<<clientVars, netVars, srv>>(Reconnect)

-----------------------------------------------------------------------------
(* What a client may count on                                              *)

Attached(id) == ws \in Conns /\ <<ws, id>> \in bus

(* The client gives up: idle with no timer, or open without a socket.      *)
Stranded == (state = "idle" /\ ~timer) \/ (state = "open" /\ ws = NoConn)

(* A subscription that is not taken back is in the end known to the server *)
(* on the current connection, however often it is lost and whatever else   *)
(* is subscribed and taken back meanwhile, or the client has given up      *)
(* (onopen re-issues them all).  A run shows this of a client that always  *)
(* has a connection left: more of them than the dials its bounds allow.    *)
ReissuedUnlessStranded ==
  []<>(Stranded \/ Unused = {} \/ \A id \in wanted : Attached(id))

(* A subscription that was acknowledged once and is not taken back is in   *)
(* the end known to the server on the current connection                   *)
(* ("Auto-reconnects on disconnect and re-issues all active subscriptions",*)
(* facet/src/api/events.ts:6), as long as connections are left.  It does   *)
(* not hold: onclose schedules no retry when an attempt to connect fails.  *)
Acknowledged(id) ==
  \E c \in Conns : \E i \in DOMAIN wire[c] : wire[c][i].type = "ack" /\ wire[c][i].id = id

AutoReconnects ==
  \A id \in SubIds :
    (id \in wanted /\ Acknowledged(id)) ~> (id \notin wanted \/ Attached(id) \/ Unused = {})
=============================================================================
