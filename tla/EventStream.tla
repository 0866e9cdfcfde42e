---------------------------- MODULE EventStream ----------------------------
(***************************************************************************)
(* The event bus of Mantle (kernel/event_bus.py) and the WebSocket         *)
(* endpoint /events on top of it (mantle/routers/events_router.py).        *)
(*                                                                         *)
(* Everything here runs on Mantle's event loop: an action is what runs     *)
(* between two awaits.  A connection has one task that handles the         *)
(* client's messages and one pump per subscription; they share the         *)
(* connection's send_lock, an asyncio.Lock, whose waiters are served in    *)
(* order of arrival.                                                       *)
(***************************************************************************)
EXTENDS Naturals, Sequences, FiniteSets

CONSTANTS
  MaxConns,    \* bound: connections ever opened
  MaxSubs,     \* bound: subscriptions ever made
  FilterOf,    \* the filter of each: a container or Any, and a set of names
  Containers,
  Any,         \* no container in a filter
  MaxTrouble   \* bound: what others do and what fails, all in all

Conns  == 1..MaxConns
SubIds == 1..MaxSubs  \* the client numbers its subscriptions
NoConn == 0

ASSUME StreamAssumption ==
  /\ MaxConns \in Nat /\ MaxSubs \in Nat
  /\ Any \notin Containers
  /\ MaxTrouble \in Nat

VARIABLES
  up,        \* messages of the client on their way, per connection
  cut,       \* the connections that were closed or lost, known or not
  srv,       \* the server's end of each connection
  subs,      \* its subscriptions dict
  bus,       \* _filtered_subscribers: the queues that events are put in
  queue,     \* those queues
  known,     \* accessible_containers of each pump
  pump,      \* what each pump is doing
  lock,      \* the frames waiting for send_lock; the first one holds it
  wire,      \* the frames sent
  log,       \* every event published
  readable,  \* the containers the user holds a read grant on
  since,     \* those it held at some time since each subscription was made
  trouble    \* how much of MaxTrouble is left

netVars    == <<up, cut>>
serverVars == <<srv, subs, bus, queue, known, pump, lock, wire, since>>
worldVars  == <<log, readable, trouble>>
streamVars == <<netVars, serverVars, worldVars>>

Slots == Conns \X SubIds

StreamInit ==
  /\ up = [c \in Conns |-> <<>>]
  /\ cut = {}
  /\ srv = [c \in Conns |-> "none"]
  /\ subs = [c \in Conns |-> {}]
  /\ bus = {}
  /\ queue = [s \in Slots |-> <<>>]
  /\ known = [s \in Slots |-> {}]
  /\ pump = [s \in Slots |-> "none"]
  /\ lock = [c \in Conns |-> <<>>]
  /\ wire = [c \in Conns |-> <<>>]
  /\ log = <<>>
  /\ readable = Containers
  /\ since = [s \in Slots |-> {}]
  /\ trouble \in 0..MaxTrouble

-----------------------------------------------------------------------------
(* The bus                                                                 *)

(* EventFilter.matches; artifact_id and content_type are compared like the *)
(* container.                                                              *)
Matches(f, e) == f.container \in {Any, e.container} /\ e.name \in f.names

(* Mutant: a queue with room for one event, full queues are skipped.       *)
FanoutDrops(e) ==
  queue' = [s \in Slots |-> IF s \in bus /\ Matches(FilterOf[s[2]], e) /\ queue[s] = <<>>
                            THEN Append(queue[s], Len(log) + 1) ELSE queue[s]]

(* _fanout_filtered: the queues are unbounded, so that no put waits.       *)
Fanout(e) ==
  queue' = [s \in Slots |-> IF s \in bus /\ Matches(FilterOf[s[2]], e)
                            THEN Append(queue[s], Len(log) + 1) ELSE queue[s]]

(* publish_event, for POST /events/emit and for a service's thread.        *)
Publish(e) ==
  /\ log' = Append(log, e)
  /\ Fanout(e)
  /\ UNCHANGED <<netVars, srv, subs, bus, known, pump, lock, wire, since, readable>>

Trouble == trouble > 0 /\ trouble' = trouble - 1

(* Grants come and go in Arango.                                           *)
ChangeGrant(k) ==
  /\ Trouble
  /\ readable' = IF k \in readable THEN readable \ {k} ELSE readable \cup {k}
  /\ since' = [s \in Slots |-> IF s \in bus THEN since[s] \cup readable' ELSE since[s]]
  /\ UNCHANGED <<netVars, srv, subs, bus, queue, known, pump, lock, wire, log>>

-----------------------------------------------------------------------------
(* The task that handles a connection's messages                           *)

Frame(type, id, n) == [type |-> type, id |-> id, n |-> n]
Handling(c) == \E i \in DOMAIN lock[c] : lock[c][i].type # "event"

(* Mutant: cancelling a pump that waits for the lock leaves its place.     *)
WithoutLeft(waiting, ids) == waiting

(* A cancelled pump leaves its place in the queue for the lock, or gives   *)
(* the lock up; ids is the one subscription that is taken back, if it is.  *)
Without(waiting, ids) ==
  LET places == {i \in DOMAIN waiting : waiting[i].type = "event" /\ waiting[i].id \in ids}
      place  == CHOOSE i \in places : TRUE
  IN  IF places = {} THEN waiting
      ELSE [i \in 1..(Len(waiting) - 1) |-> waiting[IF i < place THEN i ELSE i + 1]]

(* Mutant: the accessible containers are kept per connection.              *)
FirstKnownShared(c) == UNION {known[<<c, i>>] : i \in SubIds}

(* A new pump starts with no container known to be accessible.             *)
FirstKnown(c) == {}

(* The handler waits for the lock with its reply, and handles no further   *)
(* message before that is sent.                                            *)
Reply(waiting, f) == Append(waiting, f)

(* The message at the head of the line is op of subscription id.           *)
Receives(c, op, id) ==
  /\ srv[c] = "open" /\ ~Handling(c)
  /\ up[c] # <<>> /\ Head(up[c]) = <<op, id>>
  /\ up' = [up EXCEPT ![c] = Tail(@)]
  /\ UNCHANGED <<cut, srv, wire, worldVars>>

Subscribe(c, id) ==
  /\ Receives(c, "subscribe", id)
  /\ id \notin subs[c]
  /\ subs' = [subs EXCEPT ![c] = @ \cup {id}]
  /\ bus' = bus \cup {<<c, id>>}
  /\ queue' = [queue EXCEPT ![<<c, id>>] = <<>>]
  /\ known' = [known EXCEPT ![<<c, id>>] = FirstKnown(c)]
  /\ pump' = [pump EXCEPT ![<<c, id>>] = "waiting"]
  /\ lock' = [lock EXCEPT ![c] = Reply(@, Frame("ack", id, Len(log)))]
  /\ since' = [since EXCEPT ![<<c, id>>] = readable]

SubscribeAgain(c, id) ==
  /\ Receives(c, "subscribe", id)
  /\ id \in subs[c]
  /\ lock' = [lock EXCEPT ![c] = Reply(@, Frame("error", id, 0))]
  /\ UNCHANGED <<subs, bus, queue, known, pump, since>>

(* Mutant: unsubscribing takes the queue off the bus and forgets the pump. *)
CancelForgotten(c, ids) ==
  /\ bus' = bus \ {<<c, i>> : i \in ids}
  /\ UNCHANGED <<pump, queue>>

(* task.cancel() and unsubscribe_filtered() for the subscriptions ids.     *)
Cancel(c, ids) ==
  /\ bus' = bus \ {<<c, i>> : i \in ids}
  /\ pump' = [s \in Slots |-> IF s[1] = c /\ s[2] \in ids THEN "gone" ELSE pump[s]]
  /\ queue' = [s \in Slots |-> IF s[1] = c /\ s[2] \in ids THEN <<>> ELSE queue[s]]

Unsubscribe(c, id) ==
  /\ Receives(c, "unsubscribe", id)
  /\ subs' = [subs EXCEPT ![c] = @ \ {id}]
  /\ Cancel(c, {id} \cap subs[c])
  /\ lock' = [lock EXCEPT ![c] = Reply(Without(@, {id} \cap subs[c]), Frame("unack", id, 0))]
  /\ UNCHANGED <<known, since>>

(* close_all(), when the handler's task ends.                              *)
CloseAll(c) ==
  /\ srv' = [srv EXCEPT ![c] = "closed"]
  /\ subs' = [subs EXCEPT ![c] = {}]
  /\ Cancel(c, subs[c])
  /\ lock' = [lock EXCEPT ![c] = <<>>]
  /\ up' = [up EXCEPT ![c] = <<>>]
  /\ UNCHANGED <<cut, known, wire, since, worldVars>>

(* The receive of the next message raises WebSocketDisconnect.             *)
Disconnect(c) ==
  /\ srv[c] = "open" /\ c \in cut /\ ~Handling(c)
  /\ CloseAll(c)

-----------------------------------------------------------------------------
(* The pumps, and the lock they share with the handler                     *)

(* _check_access: the grants are read once per container and pump.         *)
KnowsNow(s, k) == known[s] \cup ({k} \cap readable)

(* _event_visible_to for a user's token, which comes without grants.  An   *)
(* API key brings grants, any read grant of which lets every event through *)
(* (lines 189-201): such connections are not modelled.                     *)
Visible(e, accessible) == e.mine \/ e.container \in accessible

(* A pump takes the next event, asks for the container it does not know    *)
(* (in vain when the database fails), and drops the event or waits for the *)
(* lock.                                                                   *)
Take(s) ==
  /\ pump[s] = "waiting" /\ queue[s] # <<>>
  /\ \E answered \in BOOLEAN :
       LET n == Head(queue[s])
           e == log[n]
       IN
        /\ known' = [known EXCEPT ![s] = IF answered THEN KnowsNow(s, e.container) ELSE @]
        /\ IF Visible(e, known'[s])
           THEN /\ pump' = [pump EXCEPT ![s] = "sending"]
                /\ lock' = [lock EXCEPT ![s[1]] = Append(@, Frame("event", s[2], n))]
           ELSE UNCHANGED <<pump, lock>>
  /\ queue' = [queue EXCEPT ![s] = Tail(@)]
  /\ UNCHANGED <<netVars, srv, subs, bus, wire, since, worldVars>>

(* The holder of the lock is a task that has not been cancelled.           *)
HolderWorks(c) == Head(lock[c]).type = "event" => pump[<<c, Head(lock[c]).id>>] = "sending"

(* The holder of the lock sends its frame (into the void once the          *)
(* connection is cut) and releases the lock.                               *)
Send(c) ==
  /\ lock[c] # <<>> /\ HolderWorks(c)
  /\ LET f == Head(lock[c]) IN
     /\ wire' = IF c \in cut THEN wire ELSE [wire EXCEPT ![c] = Append(@, f)]
     /\ pump' = IF f.type = "event" THEN [pump EXCEPT ![<<c, f.id>>] = "waiting"] ELSE pump
  /\ lock' = [lock EXCEPT ![c] = Tail(@)]
  /\ UNCHANGED <<netVars, srv, subs, bus, queue, known, since, worldVars>>

(* The send raises, because the connection is cut or, for an event, since  *)
(* its payload cannot be sent: a pump returns, its queue stays on the bus  *)
(* until it is unsubscribed or the handler ends; the handler ends at once. *)
SendFails(c) ==
  /\ lock[c] # <<>> /\ HolderWorks(c)
  /\ IF Head(lock[c]).type = "event"
     THEN /\ c \in cut \/ trouble > 0
          /\ trouble' = IF c \in cut THEN trouble ELSE trouble - 1
          /\ pump' = [pump EXCEPT ![<<c, Head(lock[c]).id>>] = "gone"]
          /\ lock' = [lock EXCEPT ![c] = Tail(@)]
          /\ UNCHANGED <<netVars, srv, subs, bus, queue, known, wire, since, log, readable>>
     ELSE c \in cut /\ CloseAll(c)

Stream(c) ==
  \/ \E id \in SubIds : Subscribe(c, id) \/ SubscribeAgain(c, id) \/ Unsubscribe(c, id)
  \/ \E id \in SubIds : Take(<<c, id>>)
  \/ Send(c) \/ SendFails(c) \/ Disconnect(c)

(* Every task of the loop that can run is run, and locks are fair.         *)
StreamFairness ==
  /\ \A c \in Conns :
       /\ WF_streamVars(\E id \in SubIds : Subscribe(c, id) \/ SubscribeAgain(c, id) \/ Unsubscribe(c, id))
       /\ WF_streamVars(Send(c)) /\ WF_streamVars(Disconnect(c))
  /\ \A s \in Slots : WF_streamVars(Take(s))

-----------------------------------------------------------------------------
(* What the stream promises                                                *)

(* An event of a subscription reaches the client after the ack of the      *)
(* subscription and before its unack, and only if its filter lets it       *)
(* through: the lock is taken in the order of arrival, a new pump starts   *)
(* only when the handler already waits for it, and a cancelled pump sends  *)
(* nothing any more (events_ws).                                           *)
BetweenAckAndUnack ==
  \A c \in Conns : \A j \in DOMAIN wire[c] : wire[c][j].type = "event" =>
    \E i \in 1..(j - 1) :
      /\ wire[c][i].type = "ack" /\ wire[c][i].id = wire[c][j].id
      /\ wire[c][i].n < wire[c][j].n
      /\ \A m \in (i + 1)..(j - 1) : wire[c][m] # Frame("unack", wire[c][j].id, 0)
      /\ Matches(FilterOf[wire[c][j].id], log[wire[c][j].n])

(* The frames of a connection in the order of their sending.               *)
Line(c) == wire[c] \o lock[c]

IsAck(f, id) == f.type = "ack" /\ f.id = id
IsOwnEvent(f, id) == f.type = "event" /\ f.id = id /\ log[f.n].mine

(* The subscription stands, and its pump has not returned: a pump does so  *)
(* when a send raises, and tells nobody.                                   *)
Served(c, id) == id \in subs[c] /\ pump[<<c, id>>] # "gone"

(* While its pump serves it, a subscription gets every event of the user's *)
(* own that matches, once each and in the order of publication, however    *)
(* the pumps take turns: those published since it was acknowledged are the *)
(* ones sent since or waiting for the lock, and behind them those in the   *)
(* queue (publish_event, _pump_subscription).                              *)
OwnEventsInOrder ==
  \A c \in Conns \ cut : \A id \in {i \in SubIds : Served(c, i)} :
    \E k \in DOMAIN Line(c) :
      LET sent == {i \in DOMAIN Line(c) : i > k /\ IsOwnEvent(Line(c)[i], id)}
          left == {i \in DOMAIN queue[<<c, id>>] : log[queue[<<c, id>>][i]].mine}
          num(i)   == Line(c)[i].n
          later(i) == queue[<<c, id>>][i]
      IN
      /\ IsAck(Line(c)[k], id)
      /\ {num(i) : i \in sent} \cup {later(i) : i \in left}
           = {n \in DOMAIN log : n > num(k) /\ log[n].mine /\ Matches(FilterOf[id], log[n])}
      /\ \A i, j \in sent : i < j => num(i) < num(j)
      /\ \A i \in sent, j \in left : num(i) < later(j)
      /\ \A i, j \in left : i < j => later(i) < later(j)

(* Another's event is sent only if the user could read its container at    *)
(* some time since the subscription was made: what a pump has once found   *)
(* readable it does not ask for again, but no later pump inherits that,    *)
(* not even one of the same name (_pump_subscription).                     *)
SentReadable ==
  \A c \in Conns : \A j \in DOMAIN wire'[c] \ DOMAIN wire[c] :
    LET f == wire'[c][j] IN
    f.type = "event" => log[f.n].mine \/ log[f.n].container \in since[<<c, f.id>>]

WasReadable == [][SentReadable]_streamVars

Backlog(s) == Served(s[1], s[2]) /\ (queue[s] # <<>> \/ pump[s] = "sending")

(* Again and again the stream comes to rest: no pump and no reply waits    *)
(* for ever on the lock, whatever is cancelled, lost or raises in the      *)
(* meantime, and no subscription of a closed connection stays on the bus   *)
(* (events_ws, close_all).                                                 *)
AtRest ==
  /\ \A s \in Slots : ~Backlog(s)
  /\ \A c \in Conns : lock[c] = <<>>
  /\ \A s \in bus : s[1] \notin cut

StreamComesToRest == []<>AtRest
=============================================================================
