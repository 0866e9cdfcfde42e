------------------------------- MODULE Relay -------------------------------
(***************************************************************************)
(* The relay between Chorus and the users' desktops                        *)
(* (chorus/_shared/relay_manager.py, the gateway's _proxy_via_relay, the   *)
(* endpoint /relay/v1/connect, and the desktop's relay_client.py).         *)
(*                                                                         *)
(* Chorus runs on one event loop: an action is what runs between two       *)
(* awaits.  The desktop handles its messages one at a time.                *)
(***************************************************************************)
EXTENDS Naturals, Sequences

CONSTANTS
  Users,      \* users with a desktop
  Conns,      \* WebSocket connections ever opened, each a session id
  Reqs,       \* MCP requests forwarded by the gateway, each a request id
  UserOf,     \* the user of a connection's token and of a request's caller
  NoConn,     \* a request without a session
  MaxPings    \* bound: heartbeats ever sent

ASSUME RelayAssumption ==
  /\ Conns \cap Reqs = {}
  /\ UserOf \in [Conns \cup Reqs -> Users]
  /\ NoConn \notin Conns
  /\ MaxPings \in Nat

VARIABLES
  link,       \* the connections: not opened, open, lost, and noticed as closed
  sessions,   \* _sessions
  byUser,     \* _sessions_by_user
  pending,    \* pending_requests of each session
  future,     \* the future of each request
  expired,    \* the timeout of wait_for cancelled the request's task
  pc,         \* how far each request's task has come
  via,        \* the session it chose
  outcome,    \* what its caller got
  down, up,   \* the messages on the wire to and from each desktop
  busy,       \* the request a desktop has run and not answered yet
  ran,        \* the connections on which each request was run, in order
  pings       \* heartbeats sent

chorusVars  == <<sessions, byUser, pending, future, expired, pc, via, outcome>>
desktopVars == <<busy, ran, pings>>
vars == <<link, chorusVars, down, up, desktopVars>>

NoReq == NoConn
Envelope == [type : {"mcp_response", "ping"}, id : Reqs \cup {NoReq}, ok : BOOLEAN]
Failures == {"no_session", "disconnected", "timeout", "crashed"}

Init ==
  /\ link = [c \in Conns |-> "new"]
  /\ sessions = {}
  /\ byUser = [u \in Users |-> {}]
  /\ pending = [c \in Conns |-> {}]
  /\ future = [r \in Reqs |-> "none"]
  /\ expired = [r \in Reqs |-> FALSE]
  /\ pc = [r \in Reqs |-> "idle"]
  /\ via = [r \in Reqs |-> NoConn]
  /\ outcome = [r \in Reqs |-> "none"]
  /\ down = [c \in Conns |-> <<>>]
  /\ up = [c \in Conns |-> <<>>]
  /\ busy = [c \in Conns |-> NoReq]
  /\ ran = [r \in Reqs |-> <<>>]
  /\ pings = 0

-----------------------------------------------------------------------------
(* Sessions                                                                *)

(* relay_connect verified the token; connect() registers the session.      *)
Connect(c) ==
  /\ link[c] = "new"
  /\ link' = [link EXCEPT ![c] = "open"]
  /\ sessions' = sessions \cup {c}
  /\ byUser' = [byUser EXCEPT ![UserOf[c]] = @ \cup {c}]
  /\ UNCHANGED <<pending, future, expired, pc, via, outcome, down, up, desktopVars>>

(* The network or the desktop goes away; Chorus does not know yet.         *)
Lose(c) ==
  /\ link[c] = "open"
  /\ link' = [link EXCEPT ![c] = "lost"]
  /\ UNCHANGED <<chorusVars, down, up, desktopVars>>

(* The futures that disconnect() fails.                                    *)
Orphans(c) == {r \in pending[c] : future[r] = "pending"}

(* receive_json raises, the endpoint's finally calls disconnect().         *)
Disconnect(c) ==
  /\ link[c] = "lost"
  /\ link' = [link EXCEPT ![c] = "closed"]
  /\ sessions' = sessions \ {c}
  /\ future' = [r \in Reqs |-> IF r \in Orphans(c) THEN "disconnected" ELSE future[r]]
  /\ pending' = [pending EXCEPT ![c] = {}]
  /\ byUser' = [byUser EXCEPT ![UserOf[c]] = @ \ {c}]
  /\ up' = [up EXCEPT ![c] = <<>>]
  /\ UNCHANGED <<expired, pc, via, outcome, down, desktopVars>>

-----------------------------------------------------------------------------
(* A forwarded request                                                     *)

(* Mutant: any session will do.                                            *)
ActiveSessionsOfAll(u) == sessions

(* get_active_session_for_user: any registered session of the user.        *)
ActiveSessions(u) == byUser[u] \cap sessions

(* The task ends with outcome o; finally takes the request off its session.*)
Finish(r, o) ==
  /\ pc' = [pc EXCEPT ![r] = "done"]
  /\ outcome' = [outcome EXCEPT ![r] = o]
  /\ pending' = [pending EXCEPT ![via[r]] = @ \ {r}]
  /\ UNCHANGED <<sessions, byUser, future, expired, via>>

Refuse(r) ==
  /\ pc[r] = "idle"
  /\ ActiveSessions(UserOf[r]) = {}
  /\ pc' = [pc EXCEPT ![r] = "done"]
  /\ outcome' = [outcome EXCEPT ![r] = "no_session"]
  /\ UNCHANGED <<link, sessions, byUser, pending, future, expired, via, down, up, desktopVars>>

Forward(r) ==
  /\ pc[r] = "idle"
  /\ \E c \in ActiveSessions(UserOf[r]) :
       /\ via' = [via EXCEPT ![r] = c]
       /\ pending' = [pending EXCEPT ![c] = @ \cup {r}]
  /\ future' = [future EXCEPT ![r] = "pending"]
  /\ pc' = [pc EXCEPT ![r] = "sending"]
  /\ UNCHANGED <<link, sessions, byUser, expired, outcome, down, up, desktopVars>>

(* Mutant: the request is written twice.                                   *)
SentTwice(r) ==
  /\ pc[r] = "sending"
  /\ pc' = [pc EXCEPT ![r] = "waiting"]
  /\ down' = [down EXCEPT ![via[r]] = @ \o <<r, r>>]
  /\ UNCHANGED <<link, sessions, byUser, pending, future, expired, via, outcome, up, desktopVars>>

(* send_json returns.  What it wrote to a lost connection may arrive or not.*)
Sent(r) ==
  /\ pc[r] = "sending"
  /\ pc' = [pc EXCEPT ![r] = "waiting"]
  /\ \/ down' = [down EXCEPT ![via[r]] = Append(@, r)]
     \/ link[via[r]] # "open" /\ UNCHANGED down
  /\ UNCHANGED <<link, sessions, byUser, pending, future, expired, via, outcome, up, desktopVars>>

(* send_json raises: a RuntimeError after the close, which the gateway     *)
(* answers with 502, or a WebSocketDisconnect that nobody catches.         *)
SendFails(r) ==
  /\ pc[r] = "sending"
  /\ link[via[r]] # "open"
  /\ \E o \in {"disconnected", "crashed"} : Finish(r, o)
  /\ UNCHANGED <<link, down, up, desktopVars>>

(* Mutant: an answer is awaited without a timeout.                         *)
ExpireNever(r) ==
  /\ pc[r] = "waiting"
  /\ ~expired[r]
  /\ link[via[r]] = "closed"
  /\ expired' = [expired EXCEPT ![r] = TRUE]
  /\ UNCHANGED <<link, sessions, byUser, pending, future, pc, via, outcome, down, up, desktopVars>>

(* The timer of wait_for cancels the task, and with it a pending future.   *)
Expire(r) ==
  /\ pc[r] = "waiting"
  /\ ~expired[r]
  /\ expired' = [expired EXCEPT ![r] = TRUE]
  /\ future' = [future EXCEPT ![r] = IF @ = "pending" THEN "cancelled" ELSE @]
  /\ UNCHANGED <<link, sessions, byUser, pending, pc, via, outcome, down, up, desktopVars>>

(* The task resumes.  A task that was cancelled times out even when its    *)
(* future has a result by now.                                             *)
Resume(r) ==
  /\ pc[r] = "waiting"
  /\ expired[r] \/ future[r] # "pending"
  /\ Finish(r, IF expired[r] THEN "timeout" ELSE future[r])
  /\ UNCHANGED <<link, down, up, desktopVars>>

(* handle_response_envelope, for the next message of a session.            *)
Receive(c) ==
  /\ c \in sessions
  /\ up[c] # <<>>
  /\ up' = [up EXCEPT ![c] = Tail(@)]
  /\ LET e == Head(up[c])
         known == /\ e.type = "mcp_response"
                  /\ e.id \in pending[c]
                  /\ future[e.id] = "pending"
     IN  future' = [r \in Reqs |-> IF known /\ r = e.id
                                     THEN IF e.ok THEN "ok" ELSE "error"
                                     ELSE future[r]]
  /\ UNCHANGED <<link, sessions, byUser, pending, expired, pc, via, outcome, down, desktopVars>>

-----------------------------------------------------------------------------
(* The desktop                                                             *)

(* It takes the next message and runs the tool.  Messages it has received  *)
(* before the connection was lost are still handled.                       *)
DesktopRuns(c) ==
  /\ busy[c] = NoReq
  /\ down[c] # <<>>
  /\ busy' = [busy EXCEPT ![c] = Head(down[c])]
  /\ ran' = [ran EXCEPT ![Head(down[c])] = Append(@, c)]
  /\ down' = [down EXCEPT ![c] = Tail(@)]
  /\ UNCHANGED <<link, chorusVars, up, pings>>

DesktopAnswers(c) ==
  /\ busy[c] # NoReq
  /\ link[c] = "open"
  /\ \E ok \in BOOLEAN :
       up' = [up EXCEPT ![c] = Append(@, [type |-> "mcp_response", id |-> busy[c], ok |-> ok])]
  /\ busy' = [busy EXCEPT ![c] = NoReq]
  /\ UNCHANGED <<link, chorusVars, down, ran, pings>>

(* The receive loop of a lost connection ends, with or without another     *)
(* message handled; what else was received is dropped.                     *)
DesktopGivesUp(c) ==
  /\ link[c] \in {"lost", "closed"}
  /\ busy[c] # NoReq \/ down[c] # <<>>
  /\ busy' = [busy EXCEPT ![c] = NoReq]
  /\ down' = [down EXCEPT ![c] = <<>>]
  /\ UNCHANGED <<link, chorusVars, up, ran, pings>>

(* The heartbeat task.                                                     *)
Ping(c) ==
  /\ link[c] = "open"
  /\ pings < MaxPings
  /\ pings' = pings + 1
  /\ up' = [up EXCEPT ![c] = Append(@, [type |-> "ping", id |-> NoReq, ok |-> FALSE])]
  /\ UNCHANGED <<link, chorusVars, down, busy, ran>>

-----------------------------------------------------------------------------
SessionStep(c) ==
  \/ Connect(c) \/ Lose(c) \/ Disconnect(c) \/ Receive(c)
  \/ DesktopRuns(c) \/ DesktopAnswers(c) \/ DesktopGivesUp(c) \/ Ping(c)

RequestStep(r) ==
  \/ Refuse(r) \/ Forward(r) \/ Sent(r) \/ SendFails(r) \/ Expire(r) \/ Resume(r)

Next == (\E c \in Conns : SessionStep(c)) \/ (\E r \in Reqs : RequestStep(r))

Spec == Init /\ [][Next]_vars

(* The event loop runs what is ready: a send ends one way or the other     *)
(* (the server's ping timeout breaks a connection that takes no data), the *)
(* timer fires, a task that can resume does.  Nothing is assumed of the    *)
(* desktop and of the network.                                             *)
Fairness ==
  /\ \A r \in Reqs : /\ WF_vars(Sent(r) \/ SendFails(r))
                     /\ WF_vars(Expire(r))
                     /\ WF_vars(Resume(r))
  /\ \A c \in Conns : WF_vars(Disconnect(c))

FairSpec == Spec /\ Fairness

-----------------------------------------------------------------------------
(* Properties                                                              *)

(* The variables are what the dictionaries and futures of the code hold.   *)
TypeOK ==
  /\ link \in [Conns -> {"new", "open", "lost", "closed"}]
  /\ sessions \subseteq Conns
  /\ byUser \in [Users -> SUBSET Conns]
  /\ pending \in [Conns -> SUBSET Reqs]
  /\ future \in [Reqs -> {"none", "pending", "ok", "error", "disconnected", "cancelled"}]
  /\ expired \in [Reqs -> BOOLEAN]
  /\ pc \in [Reqs -> {"idle", "sending", "waiting", "done"}]
  /\ via \in [Reqs -> Conns \cup {NoConn}]
  /\ outcome \in [Reqs -> {"none", "ok", "error"} \cup Failures]
  /\ down \in [Conns -> Seq(Reqs)]
  /\ up \in [Conns -> Seq(Envelope)]
  /\ busy \in [Conns -> Reqs \cup {NoReq}]
  /\ ran \in [Reqs -> Seq(Conns)]
  /\ pings \in 0..MaxPings

(* The two indexes of the manager agree, and a session remembers exactly   *)
(* the requests whose tasks are under way on it: nothing is left behind by *)
(* a failed send, a timeout or a disconnect, and nothing is forgotten that *)
(* an answer must find.                                                    *)
RegistryExact ==
  /\ sessions = {c \in Conns : link[c] \in {"open", "lost"}}
  /\ \A u \in Users : byUser[u] = {c \in sessions : UserOf[c] = u}
  /\ \A c \in Conns : pending[c] =
       {r \in Reqs : via[r] = c /\ c \in sessions /\ pc[r] \in {"sending", "waiting"}}

(* A request whose session was closed does not wait for its timeout: its   *)
(* future is done, whichever of answer, disconnect and timer was first.    *)
NobodyWaitsOnAClosedSession ==
  \A r \in Reqs :
    pc[r] \in {"sending", "waiting"} /\ via[r] \notin sessions => future[r] # "pending"

(* The answer a caller gets is the one its own request got, from a desktop *)
(* of its own user, whatever else that desktop and others answered, and    *)
(* however late.                                                           *)
AnswerIsOwn ==
  \A r \in Reqs : outcome[r] \in {"ok", "error"} =>
    /\ ran[r] = <<via[r]>>
    /\ UserOf[via[r]] = UserOf[r]

(* Every forwarded request ends, whatever the desktop does.                *)
RequestEnds ==
  \A r \in Reqs : pc[r] = "sending" ~> pc[r] = "done"

Status(r) ==
  CASE pc[r] = "idle" -> "new"
    [] pc[r] \in {"sending", "waiting"} -> "open"
    [] pc[r] = "done" /\ outcome[r] = "no_session" -> "refused"
    [] pc[r] = "done" /\ outcome[r] \in {"ok", "error"} -> "answered"
    [] OTHER -> "failed"

Calls == INSTANCE RemoteCall WITH
  Call <- Reqs,
  status <- [r \in Reqs |-> Status(r)],
  runs <- [r \in Reqs |-> Len(ran[r])]

(* Forwarding, timing out, disconnecting and answering late amount to a    *)
(* remote call that runs at most once and never after it was refused.      *)
ImplementsRemoteCall == Calls!Spec
=============================================================================
