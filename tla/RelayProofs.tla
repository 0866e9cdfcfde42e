---------------------------- MODULE RelayProofs ----------------------------
(***************************************************************************)
(* Proofs about Relay, for any users, connections and requests: the        *)
(* registry is exact, nobody waits on a closed session, answers are given  *)
(* to the request they belong to, and the relay implements RemoteCall.     *)
(* And about what the servers that are called offer (Capabilities), for    *)
(* any kinds, names and threads: what was last listed is what is found,    *)
(* and nothing is archived that was offered.                               *)
(***************************************************************************)
EXTENDS Relay, Capabilities, WellFoundedInduction, TLAPS

(* Only the timer cancels a future.                                        *)
Cancelled == \A r \in Reqs : future[r] = "cancelled" => expired[r]

(* A request under way has chosen a connection, which was opened before.   *)
Chosen ==
  \A r \in Reqs :
    /\ pc[r] \in {"sending", "waiting"} => via[r] \in Conns
    /\ via[r] \in Conns => link[via[r]] # "new"

RegistryInv == Cancelled /\ Chosen /\ RegistryExact /\ NobodyWaitsOnAClosedSession

(* Where a request is, on the wires of connection c: sent and not yet run, *)
(* run by the desktop, or answered.                                        *)
Waits(p, v, n, r, c) == v[r] = c /\ n[r] = <<>> /\ p[r] \in {"waiting", "done"}
HasRun(v, n, r, c) == r \in Reqs => v[r] = c /\ n[r] = <<c>>
Answers(v, n, e, c) == e.type = "mcp_response" => HasRun(v, n, e.id, c)

DownWire(c) ==
  /\ \A i \in DOMAIN down[c] : Waits(pc, via, ran, down[c][i], c)
  /\ \A i, j \in DOMAIN down[c] : down[c][i] = down[c][j] => i = j
BusyWire(c) == busy[c] # NoReq => HasRun(via, ran, busy[c], c)
UpWire(c) == \A i \in DOMAIN up[c] : Answers(via, ran, up[c][i], c)

Wired(c) == DownWire(c) /\ BusyWire(c) /\ UpWire(c)

(* What Chorus knows of a request and what the desktop did with it.        *)
Traced(r) ==
  /\ via[r] \in Conns => UserOf[via[r]] = UserOf[r]
  /\ pc[r] = "idle" => via[r] = NoConn
  /\ pc[r] \in {"idle", "sending"} => ran[r] = <<>> /\ outcome[r] = "none"
  /\ ran[r] # <<>> => via[r] \in Conns /\ ran[r] = <<via[r]>>
  /\ outcome[r] = "no_session" => via[r] = NoConn
  /\ future[r] \in {"ok", "error"} \/ outcome[r] \in {"ok", "error"} => ran[r] = <<via[r]>>

WireInv == (\A c \in Conns : Wired(c)) /\ (\A r \in Reqs : Traced(r))

IInv == TypeOK /\ RegistryInv /\ WireInv

-----------------------------------------------------------------------------
(* The variables keep their shape.                                         *)
LEMMA InitTypeOK == Init => TypeOK
  BY RelayAssumption DEF Init, TypeOK, NoReq

LEMMA SessionTypeOK ==
  ASSUME TypeOK, NEW c \in Conns, SessionStep(c)
  PROVE  TypeOK'
<1> USE RelayAssumption DEF TypeOK
<1>1. CASE Connect(c)
  BY <1>1 DEF Connect, desktopVars
<1>8. CASE Lose(c)
  BY <1>8 DEF Lose, chorusVars, desktopVars
<1>2. CASE Disconnect(c)
  BY <1>2 DEF Disconnect, desktopVars
<1>3. CASE Receive(c)
  BY <1>3 DEF Receive, desktopVars
<1>4. CASE DesktopRuns(c)
  BY <1>4 DEF DesktopRuns, chorusVars
<1>5. CASE DesktopAnswers(c)
  <2>1. PICK ok \in BOOLEAN : up' = [up EXCEPT ![c] = Append(@, [type |-> "mcp_response", id |-> busy[c], ok |-> ok])]
    BY <1>5 DEF DesktopAnswers
  <2>2. [type |-> "mcp_response", id |-> busy[c], ok |-> ok] \in Envelope
    BY DEF Envelope
  <2>3. up' \in [Conns -> Seq(Envelope)]
    BY <2>1, <2>2
  <2> QED BY <1>5, <2>3 DEF DesktopAnswers, chorusVars
<1>6. CASE DesktopGivesUp(c)
  BY <1>6 DEF DesktopGivesUp, chorusVars
<1>7. CASE Ping(c)
  <2>1. [type |-> "ping", id |-> NoReq, ok |-> FALSE] \in Envelope
    BY DEF Envelope
  <2>2. up' \in [Conns -> Seq(Envelope)]
    BY <1>7, <2>1 DEF Ping
  <2> QED BY <1>7, <2>2 DEF Ping, chorusVars
<1> QED BY <1>1, <1>2, <1>3, <1>4, <1>5, <1>6, <1>7, <1>8 DEF SessionStep

LEMMA RequestTypeOK ==
  ASSUME TypeOK, Cancelled, Chosen, NEW r \in Reqs, RequestStep(r)
  PROVE  TypeOK'
<1> USE RelayAssumption DEF TypeOK
<1>1. CASE Refuse(r)
  BY <1>1 DEF Refuse, desktopVars, Failures
<1>6. CASE Forward(r)
  <2>1. PICK c \in ActiveSessions(UserOf[r]) : via' = [via EXCEPT ![r] = c] /\ pending' = [pending EXCEPT ![c] = @ \cup {r}]
    BY <1>6 DEF Forward
  <2>2. c \in Conns
    BY DEF ActiveSessions
  <2>3. via' \in [Reqs -> Conns \cup {NoConn}] /\ pending' \in [Conns -> SUBSET Reqs]
    BY <2>1, <2>2
  <2> QED BY <1>6, <2>3 DEF Forward, desktopVars
<1>2. CASE Sent(r)
  <2>1. CASE UNCHANGED down
    BY <1>2, <2>1 DEF Sent, desktopVars
  <2>2. CASE down' = [down EXCEPT ![via[r]] = Append(@, r)]
    <3>1. down' \in [Conns -> Seq(Reqs)]
      BY <1>2, <2>2 DEF Sent, Chosen
    <3> QED BY <1>2, <3>1 DEF Sent, desktopVars
  <2> QED BY <1>2, <2>1, <2>2 DEF Sent
<1>3. CASE SendFails(r)
  <2>1. PICK o \in {"disconnected", "crashed"} : Finish(r, o)
    BY <1>3 DEF SendFails
  <2> QED BY <1>3, <2>1 DEF SendFails, Finish, Failures, desktopVars
<1>4. CASE Expire(r)
  BY <1>4 DEF Expire, desktopVars
<1>5. CASE Resume(r)
  BY <1>5 DEF Resume, Finish, Failures, desktopVars, Cancelled
<1> QED BY <1>1, <1>2, <1>3, <1>4, <1>5, <1>6 DEF RequestStep

-----------------------------------------------------------------------------
(* The registry.                                                           *)
LEMMA InitRegistry == Init => RegistryInv
  BY RelayAssumption
  DEF Init, RegistryInv, Cancelled, Chosen, RegistryExact, NobodyWaitsOnAClosedSession

LEMMA SessionRegistry ==
  ASSUME TypeOK, TypeOK', RegistryInv, NEW c \in Conns, SessionStep(c)
  PROVE  RegistryInv'
<1> USE RelayAssumption DEF TypeOK, RegistryInv, RegistryExact, Chosen, Cancelled, NobodyWaitsOnAClosedSession
<1>1. CASE Connect(c)
  <2>1. Chosen' /\ Cancelled'
    BY <1>1 DEF Connect
  <2>2. RegistryExact'
    BY <1>1 DEF Connect
  <2>3. NobodyWaitsOnAClosedSession'
    BY <1>1 DEF Connect
  <2> QED BY <2>1, <2>2, <2>3
<1>2. CASE Lose(c)
  BY <1>2 DEF Lose, chorusVars
<1>3. CASE Disconnect(c)
  <2>1. Chosen' /\ Cancelled'
    BY <1>3 DEF Disconnect
  <2>2. RegistryExact'
    BY <1>3 DEF Disconnect
  <2>3. NobodyWaitsOnAClosedSession'
    BY <1>3 DEF Disconnect, Orphans
  <2> QED BY <2>1, <2>2, <2>3
<1>4. CASE Receive(c)
  <2>1. \A r \in Reqs : future'[r] \in {future[r], "ok", "error"}
    BY <1>4 DEF Receive
  <2> QED BY <1>4, <2>1 DEF Receive
<1>5. CASE UNCHANGED <<link, chorusVars>>
  BY <1>5 DEF chorusVars
<1>6. DesktopRuns(c) \/ DesktopAnswers(c) \/ DesktopGivesUp(c) \/ Ping(c) => UNCHANGED <<link, chorusVars>>
  BY DEF DesktopRuns, DesktopAnswers, DesktopGivesUp, Ping
<1> QED BY <1>1, <1>2, <1>3, <1>4, <1>5, <1>6 DEF SessionStep

LEMMA RequestRegistry ==
  ASSUME TypeOK, TypeOK', RegistryInv, NEW r \in Reqs, RequestStep(r)
  PROVE  RegistryInv'
<1> USE RelayAssumption DEF TypeOK, RegistryInv, RegistryExact, Chosen, Cancelled, NobodyWaitsOnAClosedSession
<1>1. CASE Refuse(r)
  BY <1>1 DEF Refuse
<1>2. CASE Forward(r)
  <2>1. PICK c \in ActiveSessions(UserOf[r]) : via' = [via EXCEPT ![r] = c] /\ pending' = [pending EXCEPT ![c] = @ \cup {r}]
    BY <1>2 DEF Forward
  <2>2. c \in sessions
    BY <2>1 DEF ActiveSessions
  <2>3. Chosen' /\ Cancelled'
    BY <1>2, <2>1, <2>2 DEF Forward
  <2>4. RegistryExact'
    BY <1>2, <2>1, <2>2 DEF Forward
  <2>5. NobodyWaitsOnAClosedSession'
    BY <1>2, <2>1, <2>2 DEF Forward
  <2> QED BY <2>3, <2>4, <2>5
<1>3. CASE Sent(r)
  BY <1>3 DEF Sent
<1>4. CASE Expire(r)
  BY <1>4 DEF Expire
<1>5. ASSUME NEW o, Finish(r, o), pc[r] \in {"sending", "waiting"}, UNCHANGED link
      PROVE  RegistryInv'
  <2>1. Chosen' /\ Cancelled'
    BY <1>5 DEF Finish
  <2>2. RegistryExact'
    BY <1>5 DEF Finish
  <2>3. NobodyWaitsOnAClosedSession'
    BY <1>5 DEF Finish
  <2> QED BY <2>1, <2>2, <2>3
<1>6. CASE SendFails(r)
  BY <1>5, <1>6 DEF SendFails
<1>7. CASE Resume(r)
  BY <1>5, <1>7 DEF Resume
<1> QED BY <1>1, <1>2, <1>3, <1>4, <1>6, <1>7 DEF RequestStep

-----------------------------------------------------------------------------
(* The wires.                                                              *)
LEMMA TailFacts ==
  ASSUME NEW S, NEW s \in Seq(S), s # <<>>
  PROVE  /\ Head(s) \in S /\ Tail(s) \in Seq(S)
         /\ 1 \in DOMAIN s /\ Head(s) = s[1]
         /\ \A i \in DOMAIN Tail(s) : i # 0 /\ i \in Nat /\ i + 1 \in DOMAIN s /\ Tail(s)[i] = s[i + 1]
  OBVIOUS

LEMMA AppendFacts ==
  ASSUME NEW S, NEW s \in Seq(S), NEW x \in S
  PROVE  \A i \in DOMAIN Append(s, x) :
           \/ i \in DOMAIN s /\ Append(s, x)[i] = s[i]
           \/ i \notin DOMAIN s /\ i = Len(s) + 1 /\ Append(s, x)[i] = x
  OBVIOUS

LEMMA InitWire == Init => WireInv
  BY RelayAssumption DEF Init, WireInv, Wired, DownWire, BusyWire, UpWire, HasRun, Traced, NoReq

LEMMA SessionWire ==
  ASSUME TypeOK, TypeOK', WireInv, NEW c \in Conns, SessionStep(c)
  PROVE  WireInv'
<1> USE DEF WireInv, Wired
<1>1. ASSUME UNCHANGED <<future, pc, via, outcome, down, up, busy, ran>>
      PROVE  WireInv'
  BY <1>1 DEF DownWire, BusyWire, UpWire, Traced
<1>2. CASE Connect(c) \/ Lose(c)
  BY <1>1, <1>2 DEF Connect, Lose, chorusVars, desktopVars
<1>3. CASE Disconnect(c)
  <2>1. \A d \in Conns : up'[d] = up[d] \/ up'[d] = <<>>
    BY <1>3 DEF Disconnect, TypeOK
  <2>2. UNCHANGED <<pc, via, outcome, down, busy, ran>>
    BY <1>3 DEF Disconnect, desktopVars
  <2>5. \A d \in Conns : Wired(d)'
    BY <2>1, <2>2 DEF DownWire, BusyWire, UpWire
  <2>3. \A r \in Reqs : future'[r] \in {future[r], "disconnected"}
    BY <1>3 DEF Disconnect
  <2>4. \A r \in Reqs : Traced(r)'
    BY <2>2, <2>3 DEF Traced
  <2> QED BY <2>4, <2>5
<1>4. CASE Receive(c)
  <2>1. /\ Head(up[c]) = up[c][1] /\ 1 \in DOMAIN up[c]
        /\ \A i \in DOMAIN Tail(up[c]) : i + 1 \in DOMAIN up[c] /\ Tail(up[c])[i] = up[c][i + 1]
    BY <1>4, TailFacts DEF Receive, TypeOK
  <2>2. /\ up'[c] = Tail(up[c])
        /\ \A d \in Conns : d # c => up'[d] = up[d]
        /\ UNCHANGED <<pc, via, outcome, down, busy, ran>>
    BY <1>4 DEF Receive, TypeOK, desktopVars
  <2>3. ASSUME NEW d \in Conns PROVE  Wired(d)'
    <3>1. DownWire(d)' /\ BusyWire(d)'
      BY <2>2 DEF DownWire, BusyWire
    <3>2. \A i \in DOMAIN up'[d] : \E j \in DOMAIN up[d] : up'[d][i] = up[d][j]
      <4>1. CASE d = c
        BY <2>1, <2>2, <4>1
      <4>2. CASE d # c
        BY <2>2, <4>2
      <4> QED BY <4>1, <4>2
    <3>3. UpWire(d)'
      BY <2>2, <3>2 DEF UpWire
    <3> QED BY <3>1, <3>3
  <2>4. ASSUME NEW r \in Reqs PROVE Traced(r)'
    <3>1. \/ future'[r] = future[r]
          \/ up[c][1].type = "mcp_response" /\ up[c][1].id = r
      BY <1>4, <2>1 DEF Receive
    <3>2. future'[r] = future[r] \/ ran[r] = <<via[r]>>
      BY <2>1, <3>1 DEF UpWire, Answers, HasRun
    <3> QED BY <2>2, <3>2 DEF Traced
  <2> QED BY <2>3, <2>4
<1>5. CASE DesktopRuns(c)
  <2> DEFINE x == Head(down[c])
  <2>1. /\ x \in Reqs /\ x = down[c][1] /\ 1 \in DOMAIN down[c]
        /\ \A i \in DOMAIN Tail(down[c]) :
             i # 0 /\ i \in Nat /\ i + 1 \in DOMAIN down[c] /\ Tail(down[c])[i] = down[c][i + 1]
    BY <1>5, TailFacts DEF DesktopRuns, TypeOK
  <2>2. via[x] = c /\ ran[x] = <<>> /\ pc[x] \in {"waiting", "done"}
    BY <2>1 DEF DownWire, Waits
  <2>3. /\ ran'[x] = <<c>>
        /\ \A r \in Reqs : r # x => ran'[r] = ran[r]
    BY <1>5, <2>1, <2>2 DEF DesktopRuns, TypeOK
  <2>4. /\ down'[c] = Tail(down[c]) /\ busy'[c] = x
        /\ \A d \in Conns : d # c => down'[d] = down[d] /\ busy'[d] = busy[d]
        /\ UNCHANGED <<future, pc, via, outcome, up>>
    BY <1>5 DEF DesktopRuns, TypeOK, chorusVars
  <2>5. <<c>> # <<>>
    OBVIOUS
  <2>6. \A d \in Conns : \A i \in DOMAIN down[d] : down[d][i] \in Reqs
    BY DEF TypeOK
  <2> HIDE DEF x
  <2>7. \A i \in DOMAIN Tail(down[c]) : Tail(down[c])[i] # x
    BY <2>1 DEF DownWire
  <2>8. ASSUME NEW d \in Conns PROVE Wired(d)'
    <3>1. \A r, e : HasRun(via, ran, r, e) => HasRun(via', ran', r, e)
      BY <2>2, <2>3, <2>4, <2>5 DEF HasRun
    <3>2. UpWire(d)' /\ BusyWire(d)'
      <4>1. HasRun(via', ran', x, c)
        BY <2>2, <2>3, <2>4 DEF HasRun
      <4> QED BY <2>4, <3>1, <4>1 DEF UpWire, Answers, BusyWire
    <3>3. DownWire(d)'
      <4>1. \A r \in Reqs \ {x} : \A e : Waits(pc, via, ran, r, e) => Waits(pc', via', ran', r, e)
        BY <2>3, <2>4 DEF Waits
      <4>2. CASE d = c
        <5>1. \A i \in DOMAIN Tail(down[c]) : Tail(down[c])[i] \in Reqs \ {x}
          BY <2>1, <2>6, <2>7
        <5>2. \A i \in DOMAIN Tail(down[c]) : Waits(pc', via', ran', Tail(down[c])[i], c)
          BY <2>1, <4>1, <5>1 DEF DownWire
        <5>3. \A i, j \in DOMAIN Tail(down[c]) : Tail(down[c])[i] = Tail(down[c])[j] => i = j
          BY <2>1 DEF DownWire
        <5> QED BY <2>4, <4>2, <5>2, <5>3 DEF DownWire
      <4>3. CASE d # c
        <5>1. \A i \in DOMAIN down[d] : down[d][i] # x
          BY <2>2, <4>3 DEF DownWire, Waits
        <5> QED BY <2>4, <2>6, <4>1, <4>3, <5>1 DEF DownWire
      <4> QED BY <4>2, <4>3
    <3> QED BY <3>2, <3>3
  <2>9. ASSUME NEW r \in Reqs PROVE Traced(r)'
    BY <2>2, <2>3, <2>4, <2>9 DEF Traced
  <2> QED BY <2>8, <2>9
<1>6. CASE DesktopAnswers(c)
  <2>1. PICK ok \in BOOLEAN :
          up' = [up EXCEPT ![c] = Append(@, [type |-> "mcp_response", id |-> busy[c], ok |-> ok])]
    BY <1>6 DEF DesktopAnswers
  <2> DEFINE e == [type |-> "mcp_response", id |-> busy[c], ok |-> ok]
  <2>2. e \in Envelope /\ e.id = busy[c]
    BY DEF Envelope, TypeOK
  <2>3. /\ up'[c] = Append(up[c], e) /\ busy'[c] = NoReq /\ busy[c] # NoReq
        /\ \A d \in Conns : d # c => up'[d] = up[d] /\ busy'[d] = busy[d]
        /\ UNCHANGED <<future, pc, via, outcome, down, ran>>
    BY <1>6, <2>1 DEF DesktopAnswers, TypeOK, chorusVars
  <2> HIDE DEF e
  <2>4. \A i \in DOMAIN up'[c] : (i \in DOMAIN up[c] /\ up'[c][i] = up[c][i]) \/ up'[c][i] = e
    BY <2>2, <2>3, AppendFacts DEF TypeOK
  <2>5. ASSUME NEW d \in Conns PROVE Wired(d)'
    <3>1. UpWire(d)'
      <4>1. Answers(via', ran', e, c)
        BY <2>2, <2>3 DEF BusyWire, Answers
      <4> QED BY <2>3, <2>4, <4>1 DEF UpWire
    <3>2. BusyWire(d)' /\ DownWire(d)'
      BY <2>3 DEF BusyWire, DownWire
    <3> QED BY <3>1, <3>2
  <2>6. \A r \in Reqs : Traced(r)'
    BY <2>3 DEF Traced
  <2> QED BY <2>5, <2>6
<1>7. CASE DesktopGivesUp(c)
  <2>1. /\ \A d \in Conns : (down'[d] = down[d] \/ down'[d] = <<>>) /\ busy'[d] \in {busy[d], NoReq}
        /\ UNCHANGED <<future, pc, via, outcome, up, ran>>
    BY <1>7 DEF DesktopGivesUp, TypeOK, chorusVars
  <2>2. \A d \in Conns : DownWire(d)'
    BY <2>1 DEF DownWire
  <2>3. \A d \in Conns : BusyWire(d)' /\ UpWire(d)'
    BY <2>1 DEF BusyWire, UpWire
  <2>4. \A r \in Reqs : Traced(r)'
    BY <2>1 DEF Traced
  <2> QED BY <2>2, <2>3, <2>4
<1>8. CASE Ping(c)
  <2> DEFINE e == [type |-> "ping", id |-> NoReq, ok |-> FALSE]
  <2>1. e \in Envelope /\ e.type # "mcp_response"
    BY DEF Envelope
  <2>2. /\ up'[c] = Append(up[c], e)
        /\ \A d \in Conns : d # c => up'[d] = up[d]
        /\ UNCHANGED <<future, pc, via, outcome, down, busy, ran>>
    BY <1>8 DEF Ping, TypeOK, chorusVars
  <2> HIDE DEF e
  <2>3. \A i \in DOMAIN up'[c] : (i \in DOMAIN up[c] /\ up'[c][i] = up[c][i]) \/ up'[c][i] = e
    BY <2>1, <2>2, AppendFacts DEF TypeOK
  <2>4. ASSUME NEW d \in Conns PROVE Wired(d)'
    <3>1. UpWire(d)'
      <4>1. Answers(via', ran', e, c)
        BY <2>1 DEF Answers
      <4> QED BY <2>2, <2>3, <4>1 DEF UpWire
    <3>2. BusyWire(d)' /\ DownWire(d)'
      BY <2>2 DEF BusyWire, DownWire
    <3> QED BY <3>1, <3>2
  <2>5. \A r \in Reqs : Traced(r)'
    BY <2>2 DEF Traced
  <2> QED BY <2>4, <2>5
<1> QED BY <1>2, <1>3, <1>4, <1>5, <1>6, <1>7, <1>8 DEF SessionStep

LEMMA RequestWire ==
  ASSUME TypeOK, TypeOK', RegistryInv, WireInv, NEW r \in Reqs, RequestStep(r)
  PROVE  WireInv'
<1> USE DEF WireInv, Wired
<1>1. ASSUME UNCHANGED <<up, busy, ran>>,
             \A q \in Reqs : via[q] \in Conns => via'[q] = via[q],
             \A q \in Reqs : pc[q] \in {"waiting", "done"} => pc'[q] \in {"waiting", "done"},
             NEW d \in Conns
      PROVE  /\ \A q \in Reqs : Waits(pc, via, ran, q, d) => Waits(pc', via', ran', q, d)
             /\ BusyWire(d)' /\ UpWire(d)'
             /\ down'[d] = down[d] => Wired(d)'
  <2>1. \A q \in Reqs : Waits(pc, via, ran, q, d) => Waits(pc', via', ran', q, d)
    BY <1>1 DEF Waits
  <2>2. \A q : HasRun(via, ran, q, d) => HasRun(via', ran', q, d)
    BY <1>1 DEF HasRun
  <2>3. BusyWire(d)' /\ UpWire(d)'
    BY <1>1, <2>2 DEF BusyWire, UpWire, Answers
  <2>4. down'[d] = down[d] => DownWire(d)'
    BY <2>1 DEF TypeOK, DownWire
  <2> QED BY <2>1, <2>3, <2>4
<1>2. CASE Refuse(r)
  <2>1. /\ UNCHANGED <<future, via, down, up, busy, ran>>
        /\ pc[r] = "idle" /\ pc'[r] = "done" /\ outcome'[r] = "no_session"
        /\ \A q \in Reqs : q # r => pc'[q] = pc[q] /\ outcome'[q] = outcome[q]
    BY <1>2 DEF Refuse, TypeOK, desktopVars
  <2>2. \A q \in Reqs : Traced(q)'
    BY <2>1 DEF Traced
  <2> QED BY <1>1, <2>1, <2>2
<1>3. CASE Forward(r)
  <2>1. PICK c \in ActiveSessions(UserOf[r]) : via' = [via EXCEPT ![r] = c]
    BY <1>3 DEF Forward
  <2>2. c \in Conns /\ UserOf[c] = UserOf[r]
    BY RelayAssumption, <2>1 DEF ActiveSessions, RegistryInv, RegistryExact, TypeOK
  <2>3. /\ UNCHANGED <<outcome, down, up, busy, ran>>
        /\ pc[r] = "idle" /\ pc'[r] = "sending" /\ via'[r] = c /\ future'[r] = "pending"
        /\ \A q \in Reqs : q # r => pc'[q] = pc[q] /\ via'[q] = via[q] /\ future'[q] = future[q]
    BY <1>3, <2>1 DEF Forward, TypeOK, desktopVars
  <2>4. \A q \in Reqs : Traced(q)'
    BY RelayAssumption, <2>2, <2>3 DEF Traced
  <2>5. \A q \in Reqs : via[q] \in Conns => via'[q] = via[q]
    BY RelayAssumption, <2>3 DEF Traced
  <2> QED BY <1>1, <2>3, <2>4, <2>5
<1>4. CASE Sent(r)
  <2>1. /\ UNCHANGED <<future, via, outcome, up, busy, ran>>
        /\ pc[r] = "sending" /\ pc'[r] = "waiting"
        /\ \A q \in Reqs : q # r => pc'[q] = pc[q]
    BY <1>4 DEF Sent, TypeOK, desktopVars
  <2>2. \A q \in Reqs : Traced(q)'
    BY <2>1 DEF Traced
  <2>3. CASE UNCHANGED down
    BY <1>1, <2>1, <2>2, <2>3
  <2>4. CASE down' = [down EXCEPT ![via[r]] = Append(@, r)]
    <3>1. via[r] \in Conns
      BY <2>1 DEF RegistryInv, Chosen
    <3>2. /\ down'[via[r]] = Append(down[via[r]], r)
          /\ \A d \in Conns : d # via[r] => down'[d] = down[d]
      BY <2>4, <3>1 DEF TypeOK
    <3>3. \A d \in Conns : \A i \in DOMAIN down[d] : down[d][i] \in Reqs /\ down[d][i] # r
      <4>1. \A d \in Conns : \A i \in DOMAIN down[d] : down[d][i] \in Reqs
        BY DEF TypeOK
      <4>2. \A d \in Conns : \A i \in DOMAIN down[d] : pc[down[d][i]] # "sending"
        BY DEF DownWire, Waits
      <4> QED BY <2>1, <4>1, <4>2
    <3>7. down[via[r]] \in Seq(Reqs)
      BY <3>1 DEF TypeOK
    <3>4. \A i \in DOMAIN down'[via[r]] :
            \/ i \in DOMAIN down[via[r]] /\ down'[via[r]][i] = down[via[r]][i]
            \/ i = Len(down[via[r]]) + 1 /\ down'[via[r]][i] = r
      BY <3>2, <3>7, AppendFacts
    <3>5. ran[r] = <<>>
      BY <2>1 DEF Traced
    <3>6. ASSUME NEW d \in Conns PROVE Wired(d)'
      <4>1. /\ \A q \in Reqs : Waits(pc, via, ran, q, d) => Waits(pc', via', ran', q, d)
            /\ BusyWire(d)' /\ UpWire(d)'
            /\ down'[d] = down[d] => Wired(d)'
        BY <1>1, <2>1
      <4>2. CASE d # via[r]
        BY <3>2, <4>1, <4>2
      <4>3. CASE d = via[r]
        <5>1. Waits(pc', via', ran', r, d)
          BY <2>1, <3>5, <4>3 DEF Waits
        <5>2. \A i \in DOMAIN down'[d] : Waits(pc', via', ran', down'[d][i], d)
          BY <3>3, <3>4, <4>1, <4>3, <5>1 DEF DownWire
        <5>3. \A i, j \in DOMAIN down'[d] : down'[d][i] = down'[d][j] => i = j
          BY <3>3, <3>4, <4>3 DEF DownWire
        <5> QED BY <4>1, <5>2, <5>3 DEF DownWire
      <4> QED BY <4>2, <4>3
    <3> QED BY <2>2, <3>6
  <2> QED BY <1>4, <2>3, <2>4 DEF Sent
<1>5. CASE Expire(r)
  <2>1. /\ UNCHANGED <<pc, via, outcome, down, up, busy, ran>>
        /\ \A q \in Reqs : future'[q] \in {future[q], "cancelled"}
    BY <1>5 DEF Expire, TypeOK, desktopVars
  <2>2. \A q \in Reqs : Traced(q)'
    BY <2>1 DEF Traced
  <2> QED BY <1>1, <2>1, <2>2
<1>6. ASSUME NEW o, Finish(r, o), pc[r] \in {"sending", "waiting"},
             o # "no_session", o \in {"ok", "error"} => future[r] = o,
             UNCHANGED <<down, up, busy, ran>>
      PROVE  WireInv'
  <2>1. /\ UNCHANGED <<future, via, down, up, busy, ran>>
        /\ pc'[r] = "done" /\ outcome'[r] = o
        /\ \A q \in Reqs : q # r => pc'[q] = pc[q] /\ outcome'[q] = outcome[q]
    BY <1>6 DEF Finish, TypeOK
  <2>2. \A q \in Reqs : Traced(q)'
    BY <1>6, <2>1 DEF Traced
  <2> QED BY <1>1, <2>1, <2>2
<1>7. CASE SendFails(r)
  BY <1>6, <1>7 DEF SendFails, desktopVars
<1>8. CASE Resume(r)
  BY <1>6, <1>8 DEF Resume, desktopVars, TypeOK
<1> QED BY <1>2, <1>3, <1>4, <1>5, <1>7, <1>8 DEF RequestStep

-----------------------------------------------------------------------------
LEMMA StutterInv ==
  ASSUME IInv, UNCHANGED vars
  PROVE  IInv'
<1>1. UNCHANGED <<link, sessions, byUser, pending, future, expired, pc, via, outcome, down, up, busy, ran, pings>>
  BY DEF vars, chorusVars, desktopVars
<1>2. TypeOK'
  BY <1>1 DEF IInv, TypeOK
<1>3. RegistryInv'
  BY <1>1 DEF IInv, RegistryInv, Cancelled, Chosen, RegistryExact, NobodyWaitsOnAClosedSession
<1>4. WireInv'
  BY <1>1 DEF IInv, WireInv, Wired, DownWire, BusyWire, UpWire, Traced
<1> QED BY <1>2, <1>3, <1>4 DEF IInv

(* The inductive invariant: the registry, and where every request is on    *)
(* the wires.                                                              *)
LEMMA RelayInvariant == Spec => []IInv
<1>1. Init => IInv
  BY InitTypeOK, InitRegistry, InitWire DEF IInv
<1>2. IInv /\ [Next]_vars => IInv'
  <2> SUFFICES ASSUME IInv, [Next]_vars PROVE IInv'
    OBVIOUS
  <2>1. ASSUME NEW c \in Conns, SessionStep(c) PROVE IInv'
    BY <2>1, SessionTypeOK, SessionRegistry, SessionWire DEF IInv
  <2>2. ASSUME NEW r \in Reqs, RequestStep(r) PROVE IInv'
    BY <2>2, RequestTypeOK, RequestRegistry, RequestWire DEF IInv, RegistryInv
  <2> QED BY <2>1, <2>2, StutterInv DEF Next
<1> QED BY <1>1, <1>2, PTL DEF Spec

(* The manager's two indexes and the sessions' pending requests agree with *)
(* the connections that are open and the tasks that are under way.         *)
THEOREM RelayRegistryExact == Spec => []RegistryExact
<1>1. IInv => RegistryExact
  BY DEF IInv, RegistryInv
<1> QED BY <1>1, RelayInvariant, PTL

(* A request whose session was closed does not wait for its timeout.       *)
THEOREM RelayNobodyWaits == Spec => []NobodyWaitsOnAClosedSession
<1>1. IInv => NobodyWaitsOnAClosedSession
  BY DEF IInv, RegistryInv
<1> QED BY <1>1, RelayInvariant, PTL

(* The answer a caller gets is the one its own request got, from a desktop *)
(* of its own user that ran it once.                                       *)
THEOREM RelayAnswerIsOwn == Spec => []AnswerIsOwn
<1>1. IInv => AnswerIsOwn
  BY DEF IInv, WireInv, Traced, AnswerIsOwn
<1> QED BY <1>1, RelayInvariant, PTL

-----------------------------------------------------------------------------
(* The relay implements a remote call.                                     *)
LEMMA CallStutters ==
  ASSUME \A r \in Reqs : Status(r)' = Status(r), UNCHANGED ran
  PROVE  UNCHANGED Calls!vars
  BY DEF Calls!vars

(* One call becomes s, none has run.                                       *)
LEMMA CallBecomes ==
  ASSUME NEW r \in Reqs, NEW s, Status(r)' = s, UNCHANGED ran,
         \A q \in Reqs \ {r} : Status(q)' = Status(q)
  PROVE  Calls!Becomes(r, s)
  BY DEF Calls!Becomes

LEMMA SessionSimulates ==
  ASSUME IInv, NEW c \in Conns, SessionStep(c)
  PROVE  Calls!Next \/ UNCHANGED Calls!vars
<1>1. UNCHANGED <<pc, outcome>>
  BY DEF SessionStep, Connect, Lose, Disconnect, Receive, DesktopRuns, DesktopAnswers, DesktopGivesUp, Ping, chorusVars
<1>2. \A r \in Reqs : Status(r)' = Status(r)
  BY <1>1 DEF Status
<1>3. CASE UNCHANGED ran
  BY <1>2, <1>3, CallStutters
<1>4. CASE DesktopRuns(c)
  <2>1. PICK x \in Reqs : x = Head(down[c]) /\ x = down[c][1] /\ 1 \in DOMAIN down[c]
    BY <1>4, TailFacts DEF DesktopRuns, IInv, TypeOK
  <2>2. via[x] = c /\ ran[x] = <<>> /\ pc[x] \in {"waiting", "done"}
    BY <2>1 DEF IInv, WireInv, Wired, DownWire, Waits
  <2>3. ran' = [ran EXCEPT ![x] = <<c>>]
    <3>1. ran' = [ran EXCEPT ![x] = Append(ran[x], c)]
      BY <1>4, <2>1 DEF DesktopRuns
    <3>2. Append(<<>>, c) = <<c>>
      OBVIOUS
    <3> QED BY <2>2, <3>1, <3>2
  <2>4. outcome[x] \notin {"ok", "error", "no_session"}
    BY <2>1, <2>2, RelayAssumption DEF IInv, WireInv, Traced
  <2>5. Status(x) \in {"open", "failed"}
    BY <2>2, <2>4 DEF Status
  <2>6. Len(<<>>) = 0 /\ Len(<<c>>) = 1
    OBVIOUS
  <2>7. Len(ran[x]) = 0 /\ Len(ran'[x]) = 1 /\ \A r \in Reqs \ {x} : ran'[r] = ran[r]
    BY <2>1, <2>2, <2>3, <2>6 DEF IInv, TypeOK
  <2>8. [r \in Reqs |-> Len(ran'[r])] = [[r \in Reqs |-> Len(ran[r])] EXCEPT ![x] = 1]
    BY <2>1, <2>7
  <2>9. [r \in Reqs |-> Status(r)]' = [r \in Reqs |-> Status(r)]
    BY <1>2
  <2>10. /\ [r \in Reqs |-> Status(r)][x] \in {"open", "failed"}
         /\ [r \in Reqs |-> Len(ran[r])][x] = 0
    BY <2>1, <2>5, <2>7
  <2>11. Calls!Run(x)
    BY <2>8, <2>9, <2>10 DEF Calls!Run
  <2> QED BY <2>1, <2>11 DEF Calls!Next
<1>5. UNCHANGED ran \/ DesktopRuns(c)
  BY DEF SessionStep, Connect, Lose, Disconnect, Receive, DesktopAnswers, DesktopGivesUp, Ping, desktopVars
<1> QED BY <1>3, <1>4, <1>5

LEMMA RequestSimulates ==
  ASSUME IInv, NEW r \in Reqs, RequestStep(r)
  PROVE  Calls!Next \/ UNCHANGED Calls!vars
<1>1. UNCHANGED ran
  BY DEF RequestStep, Refuse, Forward, Sent, SendFails, Expire, Resume, desktopVars
<1>2. \A q \in Reqs \ {r} : Status(q)' = Status(q)
  <2>1. \A q \in Reqs \ {r} : pc'[q] = pc[q] /\ outcome'[q] = outcome[q]
    BY DEF RequestStep, Refuse, Forward, Sent, SendFails, Expire, Resume, Finish, IInv, TypeOK
  <2> QED BY <2>1 DEF Status
<1>3. CASE Refuse(r)
  <2>1. Status(r) = "new" /\ Status(r)' = "refused"
    BY <1>3 DEF Refuse, Status, IInv, TypeOK
  <2> QED BY <1>1, <1>2, <2>1, CallBecomes DEF Calls!Next, Calls!Refuse
<1>4. CASE Forward(r)
  <2>1. Status(r) = "new" /\ Status(r)' = "open"
    BY <1>4 DEF Forward, Status, IInv, TypeOK
  <2> QED BY <1>1, <1>2, <2>1, CallBecomes DEF Calls!Next, Calls!Open
<1>5. CASE Sent(r) \/ Expire(r)
  <2>1. Status(r)' = Status(r)
    BY <1>5 DEF Sent, Expire, Status, IInv, TypeOK
  <2> QED BY <1>1, <1>2, <2>1, CallStutters
<1>6. ASSUME NEW o, Finish(r, o), pc[r] \in {"sending", "waiting"},
             o # "no_session", o \in {"ok", "error"} => future[r] = o
      PROVE  Calls!Next
  <2>1. Status(r) = "open"
    BY <1>6 DEF Status
  <2>2. pc'[r] = "done" /\ outcome'[r] = o
    BY <1>6 DEF Finish, IInv, TypeOK
  <2>3. CASE o \in {"ok", "error"}
    <3>1. ran[r] = <<via[r]>>
      BY <1>6, <2>3 DEF IInv, WireInv, Traced
    <3>2. Len(ran[r]) = 1
      BY <3>1
    <3>3. Status(r)' = "answered"
      BY <2>2, <2>3 DEF Status
    <3> QED BY <1>1, <1>2, <2>1, <3>2, <3>3, CallBecomes DEF Calls!Next, Calls!Answer
  <2>4. CASE o \notin {"ok", "error"}
    <3>1. Status(r)' = "failed"
      BY <1>6, <2>2, <2>4 DEF Status
    <3> QED BY <1>1, <1>2, <2>1, <3>1, CallBecomes DEF Calls!Next, Calls!Fail
  <2> QED BY <2>3, <2>4
<1>7. CASE SendFails(r)
  BY <1>6, <1>7 DEF SendFails
<1>8. CASE Resume(r)
  BY <1>6, <1>8 DEF Resume, IInv, TypeOK
<1> QED BY <1>3, <1>4, <1>5, <1>7, <1>8 DEF RequestStep

(* Whatever the network, the timers and the desktops do, a forwarded       *)
(* request behaves as a remote call that runs at most once, is answered    *)
(* only after it ran, and never runs once it was refused.                  *)
THEOREM RelayImplementsRemoteCall == Spec => ImplementsRemoteCall
<1>1. Init => Calls!Init
  BY DEF Init, Calls!Init, Status
<1>2. IInv /\ [Next]_vars => [Calls!Next]_Calls!vars
  <2> SUFFICES ASSUME IInv, [Next]_vars PROVE Calls!Next \/ UNCHANGED Calls!vars
    OBVIOUS
  <2>1. CASE UNCHANGED vars
    BY <2>1, CallStutters DEF vars, chorusVars, desktopVars, Status
  <2> QED BY <2>1, SessionSimulates, RequestSimulates DEF Next
<1> QED BY <1>1, <1>2, RelayInvariant, PTL DEF Spec, ImplementsRemoteCall, Calls!Spec

-----------------------------------------------------------------------------
(* The capabilities of a server.  An item of f is in place; f is.          *)
InPlace(k, f, n) == n \in links[k] /\ docs[k][n] = [state |-> "committed", desc |-> f[n]]

Found(k, f) ==
  /\ \A n \in Listed(f) : InPlace(k, f, n)
  /\ \A n \in Names \ Listed(f) : ~Visible(k, n)

WorksAt(J, k) == J.pc # "end" /\ KindOf(J) = k
Passed(J, k) == J.pc = "end" \/ \E i \in DOMAIN Kinds : Kinds[i] = k /\ i < J.at

(* How a call is under way: it lists what was offered, or nothing, and     *)
(* archives nothing that it lists.                                         *)
AtWork(J) ==
  /\ J.at \in DOMAIN Kinds
  /\ HasItems(J.listing[KindOf(J)])
  /\ J.todo \subseteq Listed(J.listing[KindOf(J)])
  /\ Listed(J.stale) \cap Listed(J.listing[KindOf(J)]) = {}
  /\ J.pc \in {"write", "link"} => J.item \in J.todo
  /\ J.pc \in {"sub", "create sub", "link sub"} => J.todo = Listed(J.listing[KindOf(J)])
  /\ J.pc = "archive" => J.todo = {}

JobShape(J) ==
  /\ \A k \in Range(Kinds) : J.listing[k] \in {J.offer[k], NoItems}
  /\ J.pc # "archive" => Listed(J.stale) = {}
  /\ J.pc # "end" => AtWork(J)

(* What a call for which nothing failed has put in place of f, provided    *)
(* that all calls list f: of the kind it is at, and of those behind it.    *)
Local(J, k, f) ==
  /\ \A n \in Listed(f) \ J.todo : InPlace(k, f, n)
  /\ J.pc = "link" => docs[k][J.item] = [state |-> "committed", desc |-> f[J.item]]
  /\ J.pc = "archive" => \A n \in Names \ Listed(f) : Visible(k, n) => n \in Listed(J.stale)

Achieved(J, k, f) ==
  /\ WorksAt(J, k) => Local(J, k, f)
  /\ Passed(J, k) => Found(k, f)

CallInv(J) ==
  /\ JobShape(J)
  /\ \A k \in Range(Kinds) :
       /\ J.listing[k] \in told[k] \cup {NoItems}
       /\ \A f \in told[k] : told[k] = {f} /\ J.clean /\ J.listing[k] = f => Achieved(J, k, f)

CapInv ==
  /\ CapTypeOK
  /\ \A t \in Threads : job[t] # None => CallInv(job[t])
  /\ \A k \in Range(Kinds) :
       /\ kept[k] \subseteq told[k]
       /\ \A f \in told[k] : HasItems(f)
       /\ \A f \in kept[k] : told[k] = {f} => Found(k, f)

(* A step that leaves what is in place of f in place and shows nothing     *)
(* else.                                                                   *)
Harmless(k, f) ==
  /\ \A n \in Listed(f) : n \in links[k] => n \in links'[k]
  /\ \A n \in Listed(f) : docs[k][n] = [state |-> "committed", desc |-> f[n]] =>
                          docs'[k][n] = [state |-> "committed", desc |-> f[n]]
  /\ \A n \in Names \ Listed(f) : Visible(k, n)' => Visible(k, n)

HarmlessToAll == \A k \in Range(Kinds) : \A f \in told[k] : told[k] = {f} => Harmless(k, f)

LEMMA HarmlessKeeps ==
  ASSUME NEW k \in Range(Kinds), NEW f, Harmless(k, f)
  PROVE  /\ Found(k, f) => Found(k, f)'
         /\ \A n \in Listed(f) : InPlace(k, f, n) => InPlace(k, f, n)'
<1>1. Listed(f)' = Listed(f)
  BY DEF Listed
<1> QED
  BY <1>1 DEF Harmless, Found, InPlace

LEMMA HarmlessAchieved ==
  ASSUME NEW k \in Range(Kinds), NEW f, Harmless(k, f), NEW J, JobShape(J), J.listing[k] = f,
         Achieved(J, k, f)
  PROVE  Achieved(J, k, f)'
<1>1. Found(k, f) => Found(k, f)'
  BY HarmlessKeeps
<1>2. ASSUME WorksAt(J, k) PROVE Local(J, k, f)'
  <2>1. Local(J, k, f) /\ (J.pc \in {"write", "link"} => J.item \in Listed(f))
    BY <1>2 DEF Achieved, WorksAt, JobShape, AtWork
  <2>2. \A n \in Listed(f) \ J.todo : InPlace(k, f, n)'
    BY <2>1, HarmlessKeeps DEF Local
  <2>3. J.pc = "link" => docs'[k][J.item] = [state |-> "committed", desc |-> f[J.item]]
    BY <2>1 DEF Local, Harmless
  <2>4. J.pc = "archive" => \A n \in Names \ Listed(f) : Visible(k, n)' => n \in Listed(J.stale)
    BY <2>1 DEF Local, Harmless
  <2> QED
    BY <2>2, <2>3, <2>4 DEF Local, Listed
<1> QED
  BY <1>1, <1>2 DEF Achieved, WorksAt, Passed, KindOf

StoreTypes ==
  /\ offered \in [Range(Kinds) -> Items]
  /\ sub \in [Range(Kinds) -> {"absent", "made", "linked"}]
  /\ docs \in [Range(Kinds) -> [Names -> Docs \cup {None}]]
  /\ links \in [Range(Kinds) -> SUBSET Names]

(* The other calls are where they were.                                    *)
LEMMA CallStays ==
  ASSUME HarmlessToAll, told' = told, NEW J, CallInv(J)
  PROVE  CallInv(J)'
<1>1. JobShape(J)'
  BY DEF CallInv, JobShape, AtWork, KindOf, HasItems, Listed, Range, NoItems
<1>2. ASSUME NEW k \in Range(Kinds), NEW f \in told[k], told[k] = {f}, J.clean, J.listing[k] = f
      PROVE  Achieved(J, k, f)'
  <2>1. Harmless(k, f)
    BY <1>2 DEF HarmlessToAll
  <2>2. JobShape(J) /\ Achieved(J, k, f)
    BY <1>2 DEF CallInv
  <2> QED
    BY <1>2, <2>1, <2>2, HarmlessAchieved
<1> QED
  BY <1>1, <1>2 DEF CallInv, Range, NoItems

(* A step of a call that lists nothing new.                                *)
LEMMA CallStep ==
  ASSUME CapInv, NEW t \in Threads, told' = told, kept' = kept, StoreTypes', HarmlessToAll,
         NEW J2, job' = [job EXCEPT ![t] = J2], J2 = None \/ (J2 \in Jobs /\ CallInv(J2)')
  PROVE  CapInv'
<1>1. CapTypeOK'
  BY DEF CapInv, CapTypeOK, StoreTypes
<1>2. ASSUME NEW s \in Threads, job'[s] # None PROVE CallInv(job[s])' 
  <2>1. CASE s = t
    BY <1>2, <2>1 DEF CapInv, CapTypeOK
  <2>2. CASE s # t
    <3>1. PICK J : J = job[s]
      OBVIOUS
    <3>2. J # None /\ job'[s] = J
      BY <1>2, <2>2, <3>1 DEF CapInv, CapTypeOK
    <3>3. CallInv(J)
      BY <3>1, <3>2 DEF CapInv
    <3>4. CallInv(J)'
      BY <3>3, CallStays
    <3> QED
      BY <3>2, <3>4
  <2> QED
    BY <2>1, <2>2
<1>3. ASSUME NEW k \in Range(Kinds)
      PROVE  /\ kept'[k] \subseteq told'[k]
             /\ \A f \in told'[k] : HasItems(f)'
             /\ \A f \in kept'[k] : told'[k] = {f} => Found(k, f)'
  <2>1. /\ kept[k] \subseteq told[k]
        /\ \A f \in told[k] : HasItems(f)
        /\ \A f \in kept[k] : told[k] = {f} => Found(k, f)
    BY DEF CapInv
  <2>2. \A f \in kept[k] : told[k] = {f} => Found(k, f)'
    BY <2>1, HarmlessKeeps DEF HarmlessToAll
  <2> QED
    BY <2>1, <2>2 DEF HasItems, Listed
<1> QED
  BY <1>1, <1>2, <1>3 DEF CapInv, Range

LEMMA CallFacts ==
  ASSUME CapInv, NEW t \in Threads, NEW J, J = job[t], J # None
  PROVE  /\ StoreTypes /\ job \in [Threads -> Jobs \cup {None}]
         /\ J \in Jobs /\ CallInv(J) /\ JobShape(J)
         /\ J.pc # "end" =>
              /\ KindOf(J) \in Range(Kinds) /\ AtWork(J)
              /\ J.listing[KindOf(J)] \in told[KindOf(J)] /\ J.listing[KindOf(J)] \in Items
<1>1. J \in Jobs /\ CallInv(J) /\ StoreTypes /\ job \in [Threads -> Jobs \cup {None}]
  BY DEF CapInv, CapTypeOK, StoreTypes
<1>2. ASSUME J.pc # "end"
      PROVE  /\ KindOf(J) \in Range(Kinds) /\ AtWork(J)
             /\ J.listing[KindOf(J)] \in told[KindOf(J)] /\ J.listing[KindOf(J)] \in Items
  <2>1. AtWork(J) /\ KindOf(J) \in Range(Kinds)
    BY <1>1, <1>2 DEF CallInv, JobShape, AtWork, KindOf, Range
  <2>2. J.listing[KindOf(J)] \in told[KindOf(J)] \cup {NoItems}
    BY <1>1, <2>1 DEF CallInv
  <2>3. J.listing[KindOf(J)] # NoItems
    BY <2>1 DEF AtWork, HasItems, NoItems, Listed
  <2>4. J.listing \in [Range(Kinds) -> Items]
    BY <1>1 DEF Jobs
  <2> QED
    BY <2>1, <2>2, <2>3, <2>4
<1> QED
  BY <1>1, <1>2 DEF CallInv

(* Only what has to do with the kind that the call is at needs to be shown *)
(* of a step that stays there.                                             *)
LEMMA KindStep ==
  ASSUME NEW J, NEW J2, CallInv(J), HarmlessToAll, told' = told,
         J.pc # "end", J2.pc # "end", J2.at = J.at, J2.listing = J.listing, J2.offer = J.offer,
         J2.clean => J.clean, AtWork(J2), J2.pc # "archive" => Listed(J2.stale) = {},
         NEW k, k = KindOf(J), NEW f, f = J.listing[k],
         told[k] = {f} /\ J2.clean /\ Local(J, k, f) => Local(J2, k, f)'
  PROVE  CallInv(J2)'
<1>1. JobShape(J2)
  BY DEF CallInv, JobShape
<1>2. JobShape(J2)'
  BY <1>1 DEF JobShape, AtWork, KindOf, HasItems, Listed, Range, NoItems
<1>3. ASSUME NEW l \in Range(Kinds), NEW g \in told[l], told[l] = {g}, J2.clean, J2.listing[l] = g
      PROVE  Achieved(J2, l, g)'
  <2>1. Achieved(J, l, g)
    BY <1>3 DEF CallInv
  <2>2. Passed(J2, l)' => Found(l, g)'
    <3>1. Passed(J2, l)' => Passed(J, l)
      BY DEF Passed
    <3>2. Found(l, g) => Found(l, g)'
      BY <1>3, HarmlessKeeps DEF HarmlessToAll
    <3> QED
      BY <2>1, <3>1, <3>2 DEF Achieved
  <2>3. ASSUME WorksAt(J2, l)' PROVE Local(J2, l, g)'
    <3>1. l = k /\ WorksAt(J, l)
      BY <2>3 DEF WorksAt, KindOf
    <3> QED
      BY <1>3, <2>1, <3>1 DEF Achieved
  <2> QED
    BY <2>2, <2>3 DEF Achieved
<1> QED
  BY <1>2, <1>3 DEF CallInv, Range, NoItems

(* Nothing happens to what the collections hold.                           *)
LEMMA QuietStep ==
  ASSUME docs' = docs, links' = links
  PROVE  HarmlessToAll
BY DEF HarmlessToAll, Harmless, Visible

LEMMA LocalStays ==
  ASSUME docs' = docs, links' = links, NEW J, NEW k, NEW f, Local(J, k, f),
         NEW J2, J2.pc \notin {"link", "archive"}, J2.todo = J.todo
  PROVE  Local(J2, k, f)'
BY DEF Local, InPlace, Listed

(* All calls under way list f.                                             *)
Agreed(k, f) == told[k] = {f}

LEMMA OnwardStep ==
  ASSUME CapInv, NEW t \in Threads, NEW J, J = job[t], J # None, J.pc # "end",
         NEW J2 \in Jobs, job' = [job EXCEPT ![t] = J2],
         UNCHANGED <<told, kept>>, StoreTypes', HarmlessToAll,
         J2.pc # "end", J2.at = J.at, J2.listing = J.listing, J2.offer = J.offer,
         J2.clean => J.clean, AtWork(J2), J2.pc # "archive" => Listed(J2.stale) = {},
         NEW k, k = KindOf(J), NEW f, f = J.listing[k],
         Agreed(k, f) /\ J2.clean /\ Local(J, k, f) => Local(J2, k, f)'
  PROVE  CapInv'
<1>1. CallInv(J)
  BY CallFacts
<1>2. CallInv(J2)'
  BY <1>1, KindStep DEF Agreed
<1> QED
  BY <1>2, CallStep

LEMMA RaiseStep ==
  ASSUME CapInv, NEW t \in Threads, job' = [job EXCEPT ![t] = None],
         UNCHANGED <<told, kept>>, StoreTypes', docs' = docs, links' = links
  PROVE  CapInv'
<1>1. HarmlessToAll
  BY QuietStep
<1>2. PICK J2 : J2 = None
  OBVIOUS
<1>3. job' = [job EXCEPT ![t] = J2]
  BY <1>2
<1> QED
  BY <1>1, <1>2, <1>3, CallStep

(* The collection of the kind.                                             *)
LEMMA SubStep ==
  ASSUME CapInv, NEW t \in Threads, FindSub(t) \/ CreateSub(t) \/ LinkSub(t)
  PROVE  CapInv'
<1>1. PICK J : J = job[t]
  OBVIOUS
<1>2. PICK k : k = KindOf(J)
  OBVIOUS
<1>3. PICK f : f = J.listing[k]
  OBVIOUS
<1>4. J # None /\ J.pc \in {"sub", "create sub", "link sub"} /\ UNCHANGED <<offered, docs, links, told, kept>>
  BY <1>1 DEF FindSub, CreateSub, LinkSub, Goto, storeVars, history
<1>5. /\ J \in Jobs /\ JobShape(J) /\ AtWork(J) /\ StoreTypes /\ k \in Range(Kinds)
      /\ job \in [Threads -> Jobs \cup {None}]
  BY <1>1, <1>2, <1>4, CallFacts
<1>6. PICK p \in {"create sub", "link sub", "items"}, c \in BOOLEAN :
        /\ job' = [job EXCEPT ![t] = [J EXCEPT !.pc = p, !.clean = c]] \/ job' = [job EXCEPT ![t] = None]
        /\ c => J.clean
        /\ sub' = sub \/ \E x \in {"made", "linked"} : sub' = [sub EXCEPT ![k] = x]
  <2>1. J = [J EXCEPT !.clean = J.clean] /\ J.clean \in BOOLEAN
    BY <1>5 DEF Jobs
  <2>2. CASE FindSub(t)
    <3>1. PICK p \in {"create sub", "items"} : job' = [job EXCEPT ![t] = [J EXCEPT !.pc = p]] /\ sub' = sub
      BY <1>1, <2>2 DEF FindSub, Goto, storeVars
    <3>2. [J EXCEPT !.pc = p] = [J EXCEPT !.pc = p, !.clean = J.clean]
      BY <1>5 DEF Jobs
    <3> QED
      BY <2>1, <3>1, <3>2
  <2>3. CASE CreateSub(t)
    <3>1. \/ job' = [job EXCEPT ![t] = [J EXCEPT !.pc = "link sub"]] /\ sub' = [sub EXCEPT ![k] = "made"]
          \/ job' = [job EXCEPT ![t] = None] /\ sub' = sub
      BY <1>1, <1>2, <2>3 DEF CreateSub, Goto, Raise
    <3>2. [J EXCEPT !.pc = "link sub"] = [J EXCEPT !.pc = "link sub", !.clean = J.clean]
      BY <1>5 DEF Jobs
    <3> QED
      BY <2>1, <3>1, <3>2
  <2>4. CASE LinkSub(t)
    <3>1. \/ job' = [job EXCEPT ![t] = [J EXCEPT !.pc = "items"]] /\ sub' = [sub EXCEPT ![k] = "linked"]
          \/ job' = [job EXCEPT ![t] = [[J EXCEPT !.pc = "items"] EXCEPT !.clean = FALSE]] /\ sub' = sub
      BY <1>1, <1>2, <2>4 DEF LinkSub, Swallowed, Goto
    <3>2. /\ [J EXCEPT !.pc = "items"] = [J EXCEPT !.pc = "items", !.clean = J.clean]
          /\ [[J EXCEPT !.pc = "items"] EXCEPT !.clean = FALSE] = [J EXCEPT !.pc = "items", !.clean = FALSE]
      BY <1>5 DEF Jobs
    <3> QED
      BY <2>1, <3>1, <3>2
  <2> QED
    BY <2>2, <2>3, <2>4
<1>7. StoreTypes'
  BY <1>4, <1>5, <1>6 DEF StoreTypes
<1>8. CASE job' = [job EXCEPT ![t] = None]
  BY <1>4, <1>7, <1>8, RaiseStep
<1>9. CASE job' = [job EXCEPT ![t] = [J EXCEPT !.pc = p, !.clean = c]]
  <2>1. PICK J2 : J2 = [J EXCEPT !.pc = p, !.clean = c]
    OBVIOUS
  <2>2. /\ J2 \in Jobs /\ J2.pc = p /\ J2.at = J.at /\ J2.listing = J.listing
        /\ J2.offer = J.offer /\ J2.clean = c /\ J2.todo = J.todo /\ J2.stale = J.stale
    BY <1>5, <2>1 DEF Jobs
  <2>3. AtWork(J2) /\ Listed(J2.stale) = {} /\ J2.pc \notin {"link", "archive", "end"}
    BY <1>4, <1>5, <2>2 DEF AtWork, JobShape, KindOf
  <2>4. HarmlessToAll
    BY <1>4, QuietStep
  <2>5. Local(J, k, f) => Local(J2, k, f)'
    BY <1>4, <2>2, <2>3, LocalStays
  <2>6. job' = [job EXCEPT ![t] = J2] /\ J.pc # "end" /\ J # None
    BY <1>4, <1>9, <2>1
  <2> QED
    BY <1>1, <1>2, <1>3, <1>4, <1>6, <1>7, <2>2, <2>3, <2>4, <2>5, <2>6, OnwardStep
<1> QED
  BY <1>6, <1>8, <1>9

LEMMA FindItemStep ==
  ASSUME CapInv, NEW t \in Threads, FindItem(t)
  PROVE  CapInv'
<1>1. PICK J : J = job[t]
  OBVIOUS
<1>2. PICK k : k = KindOf(J)
  OBVIOUS
<1>3. PICK f : f = J.listing[k]
  OBVIOUS
<1>4. J # None /\ J.pc = "items" /\ UNCHANGED <<offered, sub, docs, links, told, kept>>
  BY <1>1 DEF FindItem, storeVars, history
<1>5. /\ J \in Jobs /\ JobShape(J) /\ AtWork(J) /\ StoreTypes /\ k \in Range(Kinds) /\ f \in Items
  BY <1>1, <1>2, <1>3, <1>4, CallFacts
<1>6. PICK n \in J.todo :
        job' = [job EXCEPT ![t] = [J EXCEPT !.item = n, !.copy = docs[k][n],
                  !.pc = IF docs[k][n] # None /\ Unchanged(docs[k][n], f[n]) THEN "link" ELSE "write"]]
  BY <1>1, <1>2, <1>3 DEF FindItem, Goto
<1>7. PICK J2 : J2 = [J EXCEPT !.item = n, !.copy = docs[k][n],
                  !.pc = IF docs[k][n] # None /\ Unchanged(docs[k][n], f[n]) THEN "link" ELSE "write"]
  OBVIOUS
<1>8. n \in Names /\ docs[k][n] \in Docs \cup {None}
  BY <1>5 DEF Jobs, StoreTypes
<1>9. /\ J2 \in Jobs /\ J2.at = J.at /\ J2.listing = J.listing /\ J2.item = n
      /\ J2.offer = J.offer /\ J2.clean = J.clean /\ J2.todo = J.todo /\ J2.stale = J.stale
      /\ J2.pc = IF docs[k][n] # None /\ Unchanged(docs[k][n], f[n]) THEN "link" ELSE "write"
  BY <1>5, <1>7, <1>8 DEF Jobs
<1>10. AtWork(J2) /\ Listed(J2.stale) = {}
  BY <1>4, <1>5, <1>9 DEF AtWork, JobShape, KindOf
<1>11. J2.pc = "link" => docs[k][n] = [state |-> "committed", desc |-> f[n]]
  BY <1>8, <1>9 DEF Unchanged, Docs
<1>12. Local(J, k, f) => Local(J2, k, f)'
  BY <1>4, <1>9, <1>11 DEF Local, InPlace, Listed
<1>13. HarmlessToAll
  BY <1>4, QuietStep
<1>14. StoreTypes' /\ job' = [job EXCEPT ![t] = J2]
  BY <1>4, <1>5, <1>6, <1>7 DEF StoreTypes
<1>15. J2.pc # "end" /\ J2.pc # "archive"
  BY <1>9
<1> QED
  BY <1>1, <1>2, <1>3, <1>4, <1>9, <1>10, <1>12, <1>13, <1>14, <1>15, OnwardStep

(* A call at kind k writes what it listed of it, which is what every call  *)
(* lists if all list the same.                                             *)
LEMMA WriteHarmless ==
  ASSUME StoreTypes, NEW k \in Range(Kinds), NEW f \in told[k], NEW n \in Listed(f), links' = links,
         docs' = [docs EXCEPT ![k][n] = [state |-> "committed", desc |-> f[n]]]
  PROVE  HarmlessToAll /\ docs'[k][n] = [state |-> "committed", desc |-> f[n]]
<1>1. n \in Names
  BY DEF Listed
<1>2. \A l \in Range(Kinds), m \in Names :
        docs'[l][m] = IF l = k /\ m = n THEN [state |-> "committed", desc |-> f[n]] ELSE docs[l][m]
  BY <1>1 DEF StoreTypes
<1>3. ASSUME NEW l \in Range(Kinds), NEW g \in told[l], told[l] = {g} PROVE Harmless(l, g)
  <2>1. l = k => g = f
    BY <1>3
  <2>2. \A m \in Listed(g) : m \in Names
    BY DEF Listed
  <2>3. \A m \in Names \ Listed(g) : docs'[l][m] = docs[l][m]
    BY <1>2, <2>1
  <2>4. \A m \in Listed(g) : docs[l][m] = [state |-> "committed", desc |-> g[m]] =>
                             docs'[l][m] = [state |-> "committed", desc |-> g[m]]
    BY <1>2, <2>1, <2>2
  <2> QED
    BY <2>3, <2>4 DEF Harmless, Visible
<1> QED
  BY <1>1, <1>2, <1>3 DEF HarmlessToAll

LEMMA WriteStep ==
  ASSUME CapInv, NEW t \in Threads, Insert(t) \/ Rewrite(t)
  PROVE  CapInv'
<1>1. PICK J : J = job[t]
  OBVIOUS
<1>2. PICK k : k = KindOf(J)
  OBVIOUS
<1>3. PICK f : f = J.listing[k]
  OBVIOUS
<1>4. PICK n : n = J.item
  OBVIOUS
<1>5. J # None /\ J.pc = "write" /\ UNCHANGED <<offered, sub, links, told, kept>>
  BY <1>1 DEF Insert, Rewrite, history
<1>6. /\ J \in Jobs /\ JobShape(J) /\ AtWork(J) /\ StoreTypes /\ k \in Range(Kinds)
      /\ f \in Items /\ f \in told[k]
  BY <1>1, <1>2, <1>3, <1>5, CallFacts
<1>7. n \in J.todo /\ n \in Listed(f) /\ n \in Names
  BY <1>2, <1>3, <1>4, <1>5, <1>6 DEF AtWork, Listed
<1>8. f[n] \in Descs
  BY <1>6, <1>7 DEF Items, Listed
<1>9. CASE docs' = docs /\ job' = [job EXCEPT ![t] = None]
  BY <1>5, <1>6, <1>9, RaiseStep DEF StoreTypes
<1>10. CASE docs' = docs /\ job' = [job EXCEPT ![t] = [[J EXCEPT !.pc = "link"] EXCEPT !.clean = FALSE]]
  <2>1. PICK J2 : J2 = [[J EXCEPT !.pc = "link"] EXCEPT !.clean = FALSE]
    OBVIOUS
  <2>2. /\ J2 \in Jobs /\ J2.pc = "link" /\ J2.at = J.at /\ J2.listing = J.listing /\ J2.item = n
        /\ J2.offer = J.offer /\ J2.clean = FALSE /\ J2.todo = J.todo /\ J2.stale = J.stale
    BY <1>4, <1>6, <2>1 DEF Jobs
  <2>3. AtWork(J2) /\ Listed(J2.stale) = {}
    BY <1>5, <1>6, <1>7, <2>2 DEF AtWork, JobShape, KindOf
  <2>4. HarmlessToAll /\ StoreTypes' /\ job' = [job EXCEPT ![t] = J2]
    BY <1>5, <1>6, <1>10, <2>1, QuietStep DEF StoreTypes
  <2> QED
    BY <1>1, <1>2, <1>3, <1>5, <2>2, <2>3, <2>4, OnwardStep
<1>11. CASE /\ docs' = [docs EXCEPT ![k][n] = [state |-> "committed", desc |-> f[n]]]
            /\ job' = [job EXCEPT ![t] = [J EXCEPT !.pc = "link"]]
  <2>1. PICK J2 : J2 = [J EXCEPT !.pc = "link"]
    OBVIOUS
  <2>2. /\ J2 \in Jobs /\ J2.pc = "link" /\ J2.at = J.at /\ J2.listing = J.listing /\ J2.item = n
        /\ J2.offer = J.offer /\ J2.clean = J.clean /\ J2.todo = J.todo /\ J2.stale = J.stale
    BY <1>4, <1>6, <2>1 DEF Jobs
  <2>3. AtWork(J2) /\ Listed(J2.stale) = {}
    BY <1>5, <1>6, <1>7, <2>2 DEF AtWork, JobShape, KindOf
  <2>4. HarmlessToAll /\ docs'[k][n] = [state |-> "committed", desc |-> f[n]]
    BY <1>5, <1>6, <1>7, <1>11, WriteHarmless
  <2>5. StoreTypes'
    <3>1. [state |-> "committed", desc |-> f[n]] \in Docs
      BY <1>8 DEF Docs
    <3> QED
      BY <1>5, <1>6, <1>7, <1>11, <3>1 DEF StoreTypes
  <2>6. Agreed(k, f) /\ J2.clean /\ Local(J, k, f) => Local(J2, k, f)'
    <3> SUFFICES ASSUME told[k] = {f}, Local(J, k, f) PROVE Local(J2, k, f)'
      BY DEF Agreed
    <3>1. Harmless(k, f)
      BY <1>6, <2>4 DEF HarmlessToAll
    <3>2. \A m \in Listed(f) \ J2.todo : InPlace(k, f, m)'
      BY <1>6, <2>2, <3>1, HarmlessKeeps DEF Local
    <3> QED
      BY <2>2, <2>4, <3>2 DEF Local, Listed
  <2>7. job' = [job EXCEPT ![t] = J2] /\ J.pc # "end"
    BY <1>5, <1>11, <2>1
  <2>8. J2.pc # "end" /\ J2.pc # "archive" /\ (J2.clean => J.clean)
    BY <2>2
  <2> QED
    BY ONLY CapInv, t \in Threads, <1>1, <1>2, <1>3, <1>5, <2>2, <2>3, <2>4, <2>5, <2>6, <2>7, <2>8, OnwardStep
<1>12. Written(J) => docs' = [docs EXCEPT ![k][n] = [state |-> "committed", desc |-> f[n]]]
  BY <1>2, <1>3, <1>4 DEF Written
<1>13. CASE Insert(t)
  BY <1>1, <1>9, <1>11, <1>12, <1>13 DEF Insert, Goto, Raise
<1>14. CASE Rewrite(t)
  BY <1>1, <1>10, <1>11, <1>12, <1>14 DEF Rewrite, Swallowed, Goto
<1> QED
  BY <1>13, <1>14

LEMMA LinkItemStep ==
  ASSUME CapInv, NEW t \in Threads, Link(t)
  PROVE  CapInv'
<1>1. PICK J : J = job[t]
  OBVIOUS
<1>2. PICK k : k = KindOf(J)
  OBVIOUS
<1>3. PICK f : f = J.listing[k]
  OBVIOUS
<1>4. PICK n : n = J.item
  OBVIOUS
<1>5. J # None /\ J.pc = "link" /\ UNCHANGED <<offered, sub, docs, told, kept>>
  BY <1>1 DEF Link, history
<1>6. /\ J \in Jobs /\ JobShape(J) /\ AtWork(J) /\ StoreTypes /\ k \in Range(Kinds)
      /\ f \in Items /\ f \in told[k]
  BY <1>1, <1>2, <1>3, <1>5, CallFacts
<1>7. n \in J.todo /\ n \in Listed(f) /\ n \in Names
  BY <1>2, <1>3, <1>4, <1>5, <1>6 DEF AtWork, Listed
<1>8. PICK c \in BOOLEAN :
        /\ job' = [job EXCEPT ![t] = [J EXCEPT !.pc = "items", !.todo = J.todo \ {n},
                                               !.item = None, !.copy = None, !.clean = c]]
        /\ c => J.clean /\ links' = [links EXCEPT ![k] = links[k] \cup {n}]
        /\ links' = links \/ links' = [links EXCEPT ![k] = links[k] \cup {n}]
  <2> DEFINE next == [J EXCEPT !.pc = "items", !.todo = @ \ {J.item}, !.item = None, !.copy = None]
             With(c) == [J EXCEPT !.pc = "items", !.todo = J.todo \ {n}, !.item = None, !.copy = None, !.clean = c]
  <2>1. \/ job' = [job EXCEPT ![t] = next] /\ links' = [links EXCEPT ![k] = @ \cup {n}]
        \/ job' = [job EXCEPT ![t] = [next EXCEPT !.clean = FALSE]] /\ links' = links
    BY <1>1, <1>2, <1>4 DEF Link, Swallowed, Goto
  <2>2. next = With(J.clean) /\ [next EXCEPT !.clean = FALSE] = With(FALSE) /\ J.clean \in BOOLEAN
    BY <1>4, <1>6 DEF Jobs
  <2>3. [links EXCEPT ![k] = @ \cup {n}] = [links EXCEPT ![k] = links[k] \cup {n}]
    BY <1>6 DEF StoreTypes
  <2> HIDE DEF next
  <2>4. \/ job' = [job EXCEPT ![t] = With(J.clean)] /\ links' = [links EXCEPT ![k] = links[k] \cup {n}]
        \/ job' = [job EXCEPT ![t] = With(FALSE)] /\ links' = links
    BY <2>1, <2>2, <2>3
  <2> QED
    BY <2>2, <2>4
<1>9. PICK J2 : J2 = [J EXCEPT !.pc = "items", !.todo = J.todo \ {n}, !.item = None, !.copy = None, !.clean = c]
  OBVIOUS
<1>10. /\ J2 \in Jobs /\ J2.pc = "items" /\ J2.at = J.at /\ J2.listing = J.listing
       /\ J2.offer = J.offer /\ J2.clean = c /\ J2.todo = J.todo \ {n} /\ J2.stale = J.stale
  BY <1>6, <1>9 DEF Jobs
<1>11. AtWork(J2) /\ Listed(J2.stale) = {}
  BY <1>5, <1>6, <1>10 DEF AtWork, JobShape, KindOf
<1>12. /\ \A l \in Range(Kinds) : links[l] \subseteq links'[l] /\ (l # k => links'[l] = links[l])
       /\ \A m \in Names : m # n => (m \in links'[k] <=> m \in links[k])
       /\ c => n \in links'[k]
  BY <1>6, <1>7, <1>8 DEF StoreTypes
<1>13. HarmlessToAll
  <2>1. ASSUME NEW l \in Range(Kinds), NEW g \in told[l], told[l] = {g} PROVE Harmless(l, g)
    <3>1. l = k => g = f
      BY <1>6, <2>1
    <3>2. ASSUME NEW m \in Names \ Listed(g), Visible(l, m)' PROVE Visible(l, m)
      BY <1>5, <1>7, <1>12, <3>1, <3>2 DEF Visible
    <3> QED
      BY <1>5, <1>12, <3>2 DEF Harmless
  <2> QED
    BY <2>1 DEF HarmlessToAll
<1>14. Agreed(k, f) /\ J2.clean /\ Local(J, k, f) => Local(J2, k, f)'
  <2> SUFFICES ASSUME told[k] = {f}, J2.clean, Local(J, k, f) PROVE Local(J2, k, f)'
    BY DEF Agreed
  <2>1. \A m \in Listed(f) \ J.todo : InPlace(k, f, m)
    BY DEF Local
  <2>2. \A m \in Listed(f) \ J.todo : InPlace(k, f, m)'
    BY <1>5, <1>6, <1>12, <2>1 DEF InPlace
  <2>3. docs[k][n] = [state |-> "committed", desc |-> f[n]]
    BY <1>4, <1>5 DEF Local
  <2>4. InPlace(k, f, n)'
    BY <1>5, <1>10, <1>12, <2>3 DEF InPlace
  <2> QED
    BY <1>10, <2>2, <2>4 DEF Local, Listed
<1>15. StoreTypes'
  BY <1>5, <1>6, <1>7, <1>8 DEF StoreTypes
<1>16. job' = [job EXCEPT ![t] = J2] /\ J.pc # "end" /\ J2.pc # "end" /\ (J2.clean => J.clean)
  BY <1>5, <1>8, <1>9, <1>10
<1> QED
  BY ONLY CapInv, t \in Threads, <1>1, <1>2, <1>3, <1>5, <1>10, <1>11, <1>13, <1>14, <1>15, <1>16, OnwardStep

LEMMA ListStaleStep ==
  ASSUME CapInv, NEW t \in Threads, ListStale(t)
  PROVE  CapInv'
<1>1. PICK J : J = job[t]
  OBVIOUS
<1>2. PICK k : k = KindOf(J)
  OBVIOUS
<1>3. PICK f : f = J.listing[k]
  OBVIOUS
<1> DEFINE seen == [n \in Names |-> IF Visible(k, n) /\ f[n] = None THEN docs[k][n].desc ELSE None]
<1>5. J # None /\ J.pc = "items" /\ J.todo = {} /\ UNCHANGED <<offered, sub, docs, links, told, kept>>
  BY <1>1 DEF ListStale, history, storeVars
<1>6. /\ J \in Jobs /\ JobShape(J) /\ AtWork(J) /\ StoreTypes /\ k \in Range(Kinds)
      /\ f \in Items /\ f \in told[k]
  BY <1>1, <1>2, <1>3, <1>5, CallFacts
<1>7. seen \in Items /\ \A n \in Names : n \in Listed(seen) <=> Visible(k, n) /\ n \notin Listed(f)
  <2>1. \A n \in Names : Visible(k, n) => docs[k][n].desc \in Descs
    BY <1>6 DEF Visible, StoreTypes, Docs
  <2>2. \A d \in Descs : d # None
    BY CapabilitiesAssumption
  <2> QED
    BY <2>1, <2>2 DEF Items, Listed
<1>8. Listed(J.stale) = {}
  BY <1>5, <1>6 DEF JobShape
<1>9. PICK c \in BOOLEAN, stale \in {seen, J.stale} :
        /\ job' = [job EXCEPT ![t] = [J EXCEPT !.pc = "archive", !.stale = stale, !.clean = c]]
        /\ c => J.clean /\ stale = seen
  <2> DEFINE With(c, stale) == [J EXCEPT !.pc = "archive", !.stale = stale, !.clean = c]
  <2>1. \/ job' = [job EXCEPT ![t] = [J EXCEPT !.pc = "archive", !.stale = seen]]
        \/ job' = [job EXCEPT ![t] = [J EXCEPT !.pc = "archive", !.clean = FALSE]]
    BY <1>1, <1>2, <1>3 DEF ListStale, Goto
  <2> HIDE DEF seen
  <2>2. /\ [J EXCEPT !.pc = "archive", !.stale = seen] = With(J.clean, seen)
        /\ [J EXCEPT !.pc = "archive", !.clean = FALSE] = With(FALSE, J.stale)
        /\ J.clean \in BOOLEAN
    BY <1>6 DEF Jobs
  <2> QED
    BY <2>1, <2>2
<1> HIDE DEF seen
<1>10. PICK J2 : J2 = [J EXCEPT !.pc = "archive", !.stale = stale, !.clean = c]
  OBVIOUS
<1>11. /\ J2 \in Jobs /\ J2.pc = "archive" /\ J2.at = J.at /\ J2.listing = J.listing
       /\ J2.offer = J.offer /\ J2.clean = c /\ J2.todo = J.todo /\ J2.stale = stale
  BY <1>6, <1>7, <1>9, <1>10 DEF Jobs
<1>12. Listed(stale) \cap Listed(f) = {}
  BY <1>7, <1>8 DEF Listed
<1>13. AtWork(J2)
  BY <1>2, <1>3, <1>5, <1>6, <1>11, <1>12 DEF AtWork, KindOf
<1>14. HarmlessToAll
  BY <1>5, QuietStep
<1>15. J2.clean /\ Local(J, k, f) => Local(J2, k, f)'
  <2> SUFFICES ASSUME c, Local(J, k, f) PROVE Local(J2, k, f)'
    BY <1>11
  <2>1. stale = seen
    BY <1>9
  <2>2. \A n \in Names \ Listed(f) : Visible(k, n)' => n \in Listed(J2.stale)
    BY <1>5, <1>7, <1>11, <2>1 DEF Visible
  <2>3. \A n \in Listed(f) \ J2.todo : InPlace(k, f, n)'
    BY <1>5, <1>11 DEF Local, InPlace
  <2> QED
    BY <1>11, <2>2, <2>3 DEF Local, Listed
<1>16. StoreTypes' /\ job' = [job EXCEPT ![t] = J2] /\ J.pc # "end" /\ J2.pc # "end"
  BY <1>5, <1>6, <1>9, <1>10, <1>11 DEF StoreTypes
<1>17. J2.clean => J.clean
  BY <1>9, <1>11
<1> QED
  BY <1>1, <1>2, <1>3, <1>5, <1>11, <1>13, <1>14, <1>15, <1>16, <1>17, OnwardStep

(* What is archived was not listed.                                        *)
LEMMA ArchiveStep ==
  ASSUME CapInv, NEW t \in Threads, Archive(t)
  PROVE  CapInv'
<1>1. PICK J : J = job[t]
  OBVIOUS
<1>2. PICK k : k = KindOf(J)
  OBVIOUS
<1>3. PICK f : f = J.listing[k]
  OBVIOUS
<1>5. J # None /\ J.pc = "archive" /\ UNCHANGED <<offered, sub, links, told, kept>>
  BY <1>1 DEF Archive, history
<1>6. /\ J \in Jobs /\ JobShape(J) /\ AtWork(J) /\ StoreTypes /\ k \in Range(Kinds)
      /\ f \in Items /\ f \in told[k]
  BY <1>1, <1>2, <1>3, <1>5, CallFacts
<1>7. PICK n \in Listed(J.stale), c \in BOOLEAN :
        /\ job' = [job EXCEPT ![t] = [J EXCEPT !.stale[n] = None, !.clean = c]]
        /\ docs' = [docs EXCEPT ![k][n] = [state |-> "archived", desc |-> J.stale[n]]] \/ docs' = docs
        /\ c => J.clean /\ docs' = [docs EXCEPT ![k][n] = [state |-> "archived", desc |-> J.stale[n]]]
  <2> DEFINE With(n, c) == [J EXCEPT !.stale[n] = None, !.clean = c]
  <2>1. PICK n \in Listed(J.stale) :
          \/ /\ job' = [job EXCEPT ![t] = [J EXCEPT !.stale[n] = None]]
             /\ docs' = [docs EXCEPT ![k][n] = [state |-> "archived", desc |-> J.stale[n]]]
          \/ job' = [job EXCEPT ![t] = [[J EXCEPT !.stale[n] = None] EXCEPT !.clean = FALSE]] /\ docs' = docs
    BY <1>1, <1>2 DEF Archive, Swallowed, Goto
  <2>2. /\ [J EXCEPT !.stale[n] = None] = With(n, J.clean)
        /\ [[J EXCEPT !.stale[n] = None] EXCEPT !.clean = FALSE] = With(n, FALSE)
        /\ J.clean \in BOOLEAN
    BY <1>6 DEF Jobs
  <2> QED
    BY <2>1, <2>2
<1>8. PICK J2 : J2 = [J EXCEPT !.stale[n] = None, !.clean = c]
  OBVIOUS
<1>9. n \in Names /\ J.stale[n] \in Descs /\ n \notin Listed(f) /\ J.stale \in [Names -> Descs \cup {None}]
  BY <1>2, <1>3, <1>6 DEF AtWork, Jobs, Items, Listed
<1>10. /\ J2.pc = "archive" /\ J2.at = J.at /\ J2.listing = J.listing
       /\ J2.offer = J.offer /\ J2.clean = c /\ J2.todo = J.todo
       /\ J2.stale = [J.stale EXCEPT ![n] = None] /\ J2 \in Jobs
  <2>1. [J.stale EXCEPT ![n] = None] \in Items
    BY <1>9 DEF Items
  <2> QED
    BY <1>5, <1>6, <1>8, <2>1 DEF Jobs
<1>11. \A m \in Names : m \in Listed(J2.stale) <=> m \in Listed(J.stale) /\ m # n
  BY <1>9, <1>10 DEF Listed
<1>12. AtWork(J2)
  <2>1. Listed(J2.stale) \cap Listed(f) = {}
    BY <1>2, <1>3, <1>6, <1>11 DEF AtWork, Listed
  <2> QED
    BY <1>2, <1>3, <1>5, <1>6, <1>10, <2>1 DEF AtWork, KindOf
<1>13. /\ \A l \in Range(Kinds), m \in Names : l # k \/ m # n => docs'[l][m] = docs[l][m]
       /\ c => docs'[k][n].state = "archived"
       /\ docs'[k][n] = docs[k][n] \/ docs'[k][n].state = "archived"
  BY <1>6, <1>7, <1>9 DEF StoreTypes
<1>14. HarmlessToAll
  <2>1. ASSUME NEW l \in Range(Kinds), NEW g \in told[l], told[l] = {g} PROVE Harmless(l, g)
    <3>1. l = k => g = f
      BY <1>6, <2>1
    <3>2. \A m \in Listed(g) : m \in Names /\ docs'[l][m] = docs[l][m]
      BY <1>9, <1>13, <3>1 DEF Listed
    <3>3. ASSUME NEW m \in Names, Visible(l, m)' PROVE Visible(l, m)
      BY <1>5, <1>13, <3>3 DEF Visible
    <3> QED
      BY <1>5, <3>2, <3>3 DEF Harmless
  <2> QED
    BY <2>1 DEF HarmlessToAll
<1>15. Agreed(k, f) /\ J2.clean /\ Local(J, k, f) => Local(J2, k, f)'
  <2> SUFFICES ASSUME Agreed(k, f), c, Local(J, k, f) PROVE Local(J2, k, f)'
    BY <1>10
  <2>1. Harmless(k, f)
    BY <1>6, <1>14 DEF HarmlessToAll, Agreed
  <2>2. \A m \in Listed(f) \ J2.todo : InPlace(k, f, m)'
    BY <1>6, <1>10, <2>1, HarmlessKeeps DEF Local
  <2>3. ASSUME NEW m \in Names \ Listed(f), Visible(k, m)' PROVE m \in Listed(J2.stale)
    <3>1. m # n
      BY <1>13, <2>3 DEF Visible
    <3>2. Visible(k, m)
      BY <2>1, <2>3 DEF Harmless
    <3> QED
      BY <1>5, <1>11, <3>1, <3>2 DEF Local
  <2> QED
    BY <1>10, <2>2, <2>3 DEF Local, Listed
<1>16. StoreTypes'
  <2>1. [state |-> "archived", desc |-> J.stale[n]] \in Docs
    BY <1>9 DEF Docs
  <2>2. CASE docs' = docs
    BY <1>5, <1>6, <2>2 DEF StoreTypes
  <2>3. CASE docs' = [docs EXCEPT ![k][n] = [state |-> "archived", desc |-> J.stale[n]]]
    <3>1. docs' \in [Range(Kinds) -> [Names -> Docs \cup {None}]]
      BY <1>6, <1>9, <2>1, <2>3 DEF StoreTypes
    <3> QED
      BY <1>5, <1>6, <3>1 DEF StoreTypes
  <2> QED
    BY <1>7, <2>2, <2>3
<1>17. job' = [job EXCEPT ![t] = J2] /\ J.pc # "end" /\ J2.pc # "end" /\ (J2.clean => J.clean)
  BY <1>5, <1>7, <1>8, <1>10
<1> QED
  BY <1>1, <1>2, <1>3, <1>5, <1>10, <1>12, <1>14, <1>15, <1>16, <1>17, OnwardStep

LEMMA LeastOf ==
  ASSUME NEW S \in SUBSET Nat, S # {}
  PROVE  \E n \in S : \A m \in S : n <= m
<1> DEFINE R == {p \in Nat \X Nat : p[1] < p[2]}
<1>1. IsWellFoundedOn(R, Nat)
  BY NatLessThanWellFounded, Zenon DEF OpToRel
<1>2. \A n, m \in Nat : <<m, n>> \notin R => n <= m
  OBVIOUS
<1> HIDE DEF R
<1>3. \E n \in S : \A m \in S : <<m, n>> \notin R
  BY <1>1, WFMin
<1> QED
  BY <1>2, <1>3

(* Going on to the next kind that has items.                               *)
LEMMA ToKindIs ==
  ASSUME NEW J \in Jobs, NEW i \in Nat, i >= 1, NEW J2, J2 = ToKind(J, i)
  PROVE  /\ J2 \in Jobs /\ J2.listing = J.listing /\ J2.offer = J.offer
         /\ J2.stale = J.stale /\ J2.clean = J.clean
         /\ \/ J2.pc = "end" /\ \A m \in DOMAIN Kinds : m >= i => ~HasItems(J.listing[Kinds[m]])
            \/ /\ J2.pc = "sub" /\ J2.at \in DOMAIN Kinds /\ J2.at >= i
               /\ HasItems(J.listing[KindOf(J2)]) /\ J2.todo = Listed(J.listing[KindOf(J2)])
               /\ \A m \in DOMAIN Kinds : m >= i /\ m < J2.at => ~HasItems(J.listing[Kinds[m]])
<1> DEFINE left == {m \in i..Len(Kinds) : HasItems(J.listing[Kinds[m]])}
           next == CHOOSE m \in left : \A l \in left : m <= l
<1>1. Len(Kinds) \in Nat /\ DOMAIN Kinds = 1..Len(Kinds)
  BY CapabilitiesAssumption
<1>2. left \in SUBSET Nat /\ \A m \in left : m \in DOMAIN Kinds /\ m >= i /\ HasItems(J.listing[Kinds[m]])
  BY <1>1
<1>3. \A m \in DOMAIN Kinds : m >= i /\ HasItems(J.listing[Kinds[m]]) => m \in left
  BY <1>1
<1>4. J2 = IF left = {} THEN [J EXCEPT !.pc = "end"]
           ELSE [J EXCEPT !.pc = "sub", !.at = next, !.todo = Listed(J.listing[Kinds[next]])]
  BY DEF ToKind
<1>5. CASE left = {}
  <2>1. J2 = [J EXCEPT !.pc = "end"]
    BY <1>4, <1>5
  <2>2. \A m \in DOMAIN Kinds : m >= i => ~HasItems(J.listing[Kinds[m]])
    BY <1>3, <1>5
  <2> QED
    BY <2>1, <2>2 DEF Jobs
<1>6. CASE left # {}
  <2>1. \E m \in left : \A l \in left : m <= l
    BY <1>2, <1>6, LeastOf
  <2>2. next \in left /\ \A l \in left : next <= l
    BY <2>1
  <2>3. J2 = [J EXCEPT !.pc = "sub", !.at = next, !.todo = Listed(J.listing[Kinds[next]])]
    BY <1>4, <1>6
  <2> HIDE DEF left, next
  <2>4. next \in Nat /\ next \in DOMAIN Kinds /\ next >= i /\ HasItems(J.listing[Kinds[next]])
    BY <1>2, <2>2
  <2>5. Listed(J.listing[Kinds[next]]) \in SUBSET Names
    BY DEF Listed
  <2>6. J2 \in Jobs /\ J2.pc = "sub" /\ J2.at = next /\ J2.todo = Listed(J.listing[Kinds[next]])
        /\ J2.listing = J.listing /\ J2.offer = J.offer /\ J2.stale = J.stale /\ J2.clean = J.clean
    BY <2>3, <2>4, <2>5 DEF Jobs
  <2>7. \A m \in DOMAIN Kinds : m >= i /\ m < next => ~HasItems(J.listing[Kinds[m]])
    BY <1>1, <1>3, <2>2, <2>4
  <2> QED
    BY <2>4, <2>6, <2>7 DEF KindOf
<1> QED
  BY <1>5, <1>6

(* A call that begins, or is done with a kind, finds of the kinds that it  *)
(* goes past what it listed.                                               *)
LEMMA ToKindStep ==
  ASSUME NEW J \in Jobs, NEW i \in Nat, i >= 1, NEW J2, J2 = ToKind(J, i),
         \A k \in Range(Kinds) : J.listing[k] \in {J.offer[k], NoItems},
         Listed(J.stale) = {},
         \A k \in Range(Kinds) : J.listing[k] \in told'[k] \cup {NoItems},
         \A m \in DOMAIN Kinds : m < i => \A f :
           f \in told'[Kinds[m]] /\ told'[Kinds[m]] = {f} /\ J.clean /\ J.listing[Kinds[m]] = f
             => Found(Kinds[m], f)',
         \A k \in Range(Kinds) : \A f \in told'[k] : HasItems(f)
  PROVE  J2 \in Jobs /\ CallInv(J2)'
<1>1. /\ J2 \in Jobs /\ J2.listing = J.listing /\ J2.offer = J.offer
      /\ J2.stale = J.stale /\ J2.clean = J.clean
      /\ \/ J2.pc = "end" /\ \A m \in DOMAIN Kinds : m >= i => ~HasItems(J.listing[Kinds[m]])
         \/ /\ J2.pc = "sub" /\ J2.at \in DOMAIN Kinds /\ J2.at >= i
            /\ HasItems(J.listing[KindOf(J2)]) /\ J2.todo = Listed(J.listing[KindOf(J2)])
            /\ \A m \in DOMAIN Kinds : m >= i /\ m < J2.at => ~HasItems(J.listing[Kinds[m]])
  BY ToKindIs
<1>2. JobShape(J2)
  BY <1>1 DEF JobShape, AtWork
<1>3. JobShape(J2)'
  BY <1>2 DEF JobShape, AtWork, KindOf, HasItems, Listed, Range, NoItems
<1>4. ASSUME NEW k \in Range(Kinds), NEW f \in told'[k], told'[k] = {f}, J2.clean, J2.listing[k] = f
      PROVE  Achieved(J2, k, f)'
  <2>1. WorksAt(J2, k)' => Local(J2, k, f)'
    BY <1>1, <1>4 DEF WorksAt, KindOf, Local, Listed
  <2>2. ASSUME Passed(J2, k)' PROVE Found(k, f)'
    <3>1. HasItems(J.listing[k])
      BY <1>1, <1>4
    <3>2. PICK m \in DOMAIN Kinds : Kinds[m] = k
      BY DEF Range
    <3>3. m \in Nat /\ \A l \in DOMAIN Kinds : l \in Nat /\ (Kinds[l] = k => l = m)
      BY <3>2, CapabilitiesAssumption
    <3>4. m < i
      <4>1. CASE J2.pc = "end"
        BY <1>1, <3>1, <3>2, <3>3, <4>1
      <4>2. CASE J2.pc = "sub" /\ m < J2.at
        BY <1>1, <3>1, <3>2, <3>3, <4>2
      <4> QED
        BY <1>1, <2>2, <3>3, <4>1, <4>2 DEF Passed
    <3> QED
      BY <1>1, <1>4, <3>2, <3>4
  <2> QED
    BY <2>1, <2>2 DEF Achieved
<1> QED
  BY <1>1, <1>3, <1>4 DEF CallInv, Range, NoItems

LEMMA KindDoneStep ==
  ASSUME CapInv, NEW t \in Threads, KindDone(t)
  PROVE  CapInv'
<1>1. PICK J : J = job[t]
  OBVIOUS
<1>2. PICK J2 : J2 = ToKind(J, J.at + 1)
  OBVIOUS
<1>3. /\ J # None /\ J.pc = "archive" /\ Listed(J.stale) = {} /\ job' = [job EXCEPT ![t] = J2]
      /\ UNCHANGED <<offered, sub, docs, links, told, kept>>
  BY <1>1, <1>2 DEF KindDone, Goto, storeVars, history
<1>4. /\ J \in Jobs /\ JobShape(J) /\ AtWork(J) /\ StoreTypes /\ CallInv(J)
  BY <1>1, <1>3, CallFacts
<1>5. J.at \in Nat /\ J.at \in DOMAIN Kinds /\ J.at + 1 \in Nat /\ J.at + 1 >= 1
  <2>1. J.at \in Nat
    BY <1>4 DEF Jobs
  <2>2. J.at \in DOMAIN Kinds
    BY <1>4 DEF AtWork
  <2> QED
    BY <2>1, <2>2
<1>6. HarmlessToAll
  BY <1>3, QuietStep
<1>7. ASSUME NEW m \in DOMAIN Kinds, m < J.at + 1, NEW f, f \in told[Kinds[m]],
             told[Kinds[m]] = {f}, J.clean, J.listing[Kinds[m]] = f
      PROVE  Found(Kinds[m], f)'
  <2>1. PICK k : k = Kinds[m]
    OBVIOUS
  <2>2. k \in Range(Kinds)
    BY <2>1 DEF Range
  <2>3. Achieved(J, k, f)
    BY <1>4, <1>7, <2>1, <2>2 DEF CallInv
  <2>4. Found(k, f)
    <3>1. m \in Nat
      BY CapabilitiesAssumption
    <3>2. CASE m = J.at
      <4>1. Local(J, k, f) /\ J.todo = {}
        BY <1>3, <1>4, <2>1, <2>3, <3>2 DEF Achieved, WorksAt, KindOf, AtWork
      <4> QED
        BY <1>3, <4>1 DEF Local, Found
    <3>3. CASE m < J.at
      BY <2>1, <2>3, <3>3 DEF Achieved, Passed
    <3> QED
      BY <1>5, <1>7, <3>1, <3>2, <3>3
  <2>5. Harmless(k, f)
    BY <1>6, <1>7, <2>1, <2>2 DEF HarmlessToAll
  <2>6. Found(k, f)'
    BY <2>2, <2>4, <2>5, HarmlessKeeps
  <2> QED
    BY <2>1, <2>6
<1>8. /\ \A k \in Range(Kinds) : J.listing[k] \in {J.offer[k], NoItems}
      /\ \A k \in Range(Kinds) : J.listing[k] \in told'[k] \cup {NoItems}
      /\ \A k \in Range(Kinds) : \A f \in told'[k] : HasItems(f)
  BY <1>3, <1>4 DEF JobShape, CallInv, CapInv
<1>9. J2 \in Jobs /\ CallInv(J2)'
  BY <1>2, <1>3, <1>4, <1>5, <1>7, <1>8, ToKindStep
<1>10. StoreTypes'
  BY <1>3, <1>4 DEF StoreTypes
<1> QED
  BY <1>3, <1>6, <1>9, <1>10, CallStep

LEMMA FailStep ==
  ASSUME CapInv, NEW t \in Threads, Fail(t)
  PROVE  CapInv'
<1>1. job' = [job EXCEPT ![t] = None] /\ UNCHANGED <<offered, sub, docs, links, told, kept>>
  BY DEF Fail, Raise, Goto, storeVars, history
<1>2. StoreTypes'
  BY <1>1 DEF CapInv, CapTypeOK, StoreTypes
<1> QED
  BY <1>1, <1>2, RaiseStep

(* What a call for which nothing failed has listed is found.               *)
LEMMA ReturnStep ==
  ASSUME CapInv, NEW t \in Threads, Return(t)
  PROVE  CapInv'
<1>1. PICK J : J = job[t]
  OBVIOUS
<1>2. /\ J # None /\ J.pc = "end" /\ job' = [job EXCEPT ![t] = None]
      /\ UNCHANGED <<offered, sub, docs, links, told>>
      /\ kept' = IF J.clean THEN [k \in Range(Kinds) |-> kept[k] \cup ({J.listing[k]} \ {NoItems})] ELSE kept
  BY <1>1 DEF Return, Goto, storeVars
<1>3. J \in Jobs /\ CallInv(J)
  BY <1>1, <1>2, CallFacts
<1>4. HarmlessToAll
  BY <1>2, QuietStep
<1>5. ASSUME NEW k \in Range(Kinds)
      PROVE  /\ kept'[k] \subseteq told'[k]
             /\ \A f \in told'[k] : HasItems(f)'
             /\ \A f \in kept'[k] : told'[k] = {f} => Found(k, f)'
  <2>1. /\ kept[k] \subseteq told[k]
        /\ \A f \in told[k] : HasItems(f)
        /\ \A f \in kept[k] : told[k] = {f} => Found(k, f)
    BY DEF CapInv
  <2>2. \A f : f \in kept'[k] => f \in kept[k] \/ (J.clean /\ f = J.listing[k] /\ f # NoItems)
    BY <1>2
  <2>3. J.listing[k] \in told[k] \cup {NoItems}
    BY <1>3 DEF CallInv
  <2>4. ASSUME NEW f \in kept'[k], told[k] = {f} PROVE Found(k, f)'
    <3>1. CASE f \in kept[k]
      BY <1>4, <2>1, <2>4, <3>1, HarmlessKeeps DEF HarmlessToAll
    <3>2. CASE J.clean /\ f = J.listing[k]
      <4>1. Achieved(J, k, f)
        BY <1>3, <2>4, <3>2 DEF CallInv
      <4>2. Found(k, f)
        BY <1>2, <4>1 DEF Achieved, Passed
      <4> QED
        BY <1>4, <2>4, <4>2, HarmlessKeeps DEF HarmlessToAll
    <3> QED
      BY <2>2, <3>1, <3>2
  <2>5. kept'[k] \subseteq told[k]
    BY <2>1, <2>2, <2>3
  <2> QED
    BY <1>2, <2>1, <2>4, <2>5 DEF HasItems, Listed
<1>6. CapTypeOK'
  <2>1. CapTypeOK
    BY DEF CapInv
  <2>2. \A k \in Range(Kinds) : J.listing[k] \in Items
    BY <1>3 DEF Jobs
  <2>3. kept' \in [Range(Kinds) -> SUBSET Items]
    BY <1>2, <2>1, <2>2 DEF CapTypeOK
  <2> QED
    BY <1>2, <2>1, <2>3 DEF CapTypeOK
<1>7. ASSUME NEW s \in Threads, job'[s] # None PROVE CallInv(job[s])'
  <2>1. PICK I : I = job[s]
    OBVIOUS
  <2>2. s # t /\ job'[s] = I /\ CallInv(I) /\ I # None
    BY <1>2, <1>7, <2>1 DEF CapInv, CapTypeOK
  <2>3. CallInv(I)'
    BY <1>2, <1>4, <2>2, CallStays
  <2> QED
    BY <2>2, <2>3
<1> QED
  BY <1>5, <1>6, <1>7 DEF CapInv, Range

LEMMA NoItemsIs ==
  ASSUME NEW f \in Items, ~HasItems(f)
  PROVE  f = NoItems
BY DEF Items, HasItems, Listed, NoItems

(* A new call lists: those under way were all told the same only if they   *)
(* were so before, or had found nothing of the kind.                       *)
LEMMA MaterializeStep ==
  ASSUME CapInv, NEW t \in Threads, Materialize(t)
  PROVE  CapInv'
<1>1. PICK failed \in SUBSET Range(Kinds) :
        LET heard == [k \in Range(Kinds) |-> IF k \in failed THEN NoItems ELSE offered[k]]
        IN  /\ Goto(t, ToKind([pc |-> "sub", listing |-> heard, offer |-> offered, at |-> 1,
                               todo |-> {}, item |-> None, copy |-> None, stale |-> NoItems,
                               clean |-> TRUE], 1))
            /\ told' = [k \in Range(Kinds) |->
                          (IF Idle THEN {} ELSE told[k]) \cup ({heard[k]} \ {NoItems})]
            /\ kept' = IF Idle THEN [k \in Range(Kinds) |-> {}] ELSE kept
  BY DEF Materialize
<1>2. PICK heard : heard = [k \in Range(Kinds) |-> IF k \in failed THEN NoItems ELSE offered[k]]
  OBVIOUS
<1>3. PICK J : J = [pc |-> "sub", listing |-> heard, offer |-> offered, at |-> 1,
                    todo |-> {}, item |-> None, copy |-> None, stale |-> NoItems, clean |-> TRUE]
  OBVIOUS
<1>4. PICK J2 : J2 = ToKind(J, 1)
  OBVIOUS
<1>5. /\ job' = [job EXCEPT ![t] = J2]
      /\ told' = [k \in Range(Kinds) |-> (IF Idle THEN {} ELSE told[k]) \cup ({heard[k]} \ {NoItems})]
      /\ kept' = IF Idle THEN [k \in Range(Kinds) |-> {}] ELSE kept
  BY <1>1, <1>2, <1>3, <1>4 DEF Goto
<1>6. job[t] = None /\ UNCHANGED <<offered, sub, docs, links>>
  BY DEF Materialize, storeVars
<1>7. CapTypeOK /\ StoreTypes
  BY DEF CapInv, CapTypeOK, StoreTypes
<1>8. NoItems \in Items /\ Listed(NoItems) = {}
  BY DEF NoItems, Items, Listed
<1>9. /\ heard \in [Range(Kinds) -> Items]
      /\ \A k \in Range(Kinds) : heard[k] \in {offered[k], NoItems}
  BY <1>2, <1>7, <1>8 DEF StoreTypes
<1>10. J \in Jobs /\ J.listing = heard /\ J.offer = offered /\ J.stale = NoItems /\ J.clean = TRUE
  <2>1. offered \in [Range(Kinds) -> Items] /\ {} \in SUBSET Names /\ 1 \in Nat
    BY <1>7 DEF StoreTypes
  <2> QED
    BY <1>3, <1>8, <1>9, <2>1 DEF Jobs
<1>11. ASSUME NEW k \in Range(Kinds)
       PROVE  /\ \A f : f \in told'[k] => f = heard[k] \/ (~Idle /\ f \in told[k])
              /\ heard[k] \in told'[k] \cup {NoItems}
              /\ ~Idle => told[k] \subseteq told'[k]
              /\ \A f \in told'[k] : f \in Items /\ HasItems(f)
  <2>1. /\ \A f : f \in told'[k] => (f = heard[k] /\ f # NoItems) \/ (~Idle /\ f \in told[k])
        /\ heard[k] \in told'[k] \cup {NoItems} /\ (~Idle => told[k] \subseteq told'[k])
    BY <1>5
  <2>2. \A f \in told[k] : f \in Items /\ HasItems(f)
    BY <1>7 DEF CapInv, CapTypeOK
  <2>3. heard[k] # NoItems => HasItems(heard[k])
    BY <1>9, NoItemsIs
  <2> QED
    BY <1>9, <2>1, <2>2, <2>3
<1>12. HarmlessToAll
  BY <1>6, QuietStep
<1>13. J2 \in Jobs /\ CallInv(J2)'
  <2>1. \A k \in Range(Kinds) : J.listing[k] \in {J.offer[k], NoItems}
    BY <1>9, <1>10
  <2>2. \A k \in Range(Kinds) : J.listing[k] \in told'[k] \cup {NoItems}
    BY <1>10, <1>11
  <2>3. \A k \in Range(Kinds) : \A f \in told'[k] : HasItems(f)
    BY <1>11
  <2>4. Listed(J.stale) = {}
    BY <1>8, <1>10
  <2>5. \A m \in DOMAIN Kinds : ~(m < 1)
    BY CapabilitiesAssumption
  <2>6. 1 \in Nat /\ 1 >= 1
    OBVIOUS
  <2> QED
    BY <1>4, <1>10, <2>1, <2>2, <2>3, <2>4, <2>5, <2>6, ToKindStep
<1>14. ASSUME NEW s \in Threads, job'[s] # None PROVE CallInv(job[s])'
  <2>1. CASE s = t
    BY <1>5, <1>7, <1>13, <2>1 DEF CapTypeOK
  <2>2. CASE s # t
    <3>1. PICK I : I = job[s]
      OBVIOUS
    <3>2. job'[s] = I /\ I # None /\ CallInv(I) /\ ~Idle
      BY <1>5, <1>7, <1>14, <2>2, <3>1 DEF CapInv, CapTypeOK, Idle
    <3>3. JobShape(I) /\ JobShape(I)'
      BY <3>2 DEF CallInv, JobShape, AtWork, KindOf, HasItems, Listed, Range, NoItems
    <3>4. ASSUME NEW k \in Range(Kinds)
          PROVE  I.listing[k] \in told[k] \cup {NoItems} /\ I.listing[k] \in told'[k] \cup {NoItems}
      BY <1>11, <3>2 DEF CallInv
    <3>5. ASSUME NEW k \in Range(Kinds), NEW f \in told'[k], told'[k] = {f}, I.clean, I.listing[k] = f
          PROVE  Achieved(I, k, f)'
      <4>1. f # NoItems
        BY <1>8, <1>11 DEF HasItems
      <4>2. f \in told[k] /\ told[k] = {f}
        BY <1>11, <3>2, <3>4, <3>5, <4>1
      <4>3. Achieved(I, k, f) /\ Harmless(k, f)
        BY <1>12, <3>2, <3>5, <4>2 DEF CallInv, HarmlessToAll
      <4> QED
        BY <3>3, <3>5, <4>3, HarmlessAchieved
    <3>6. CallInv(I)'
      BY <3>3, <3>4, <3>5 DEF CallInv, Range, NoItems
    <3> QED
      BY <3>2, <3>6
  <2> QED
    BY <2>1, <2>2
<1>15. ASSUME NEW k \in Range(Kinds)
       PROVE  /\ kept'[k] \subseteq told'[k]
              /\ \A f \in told'[k] : HasItems(f)'
              /\ \A f \in kept'[k] : told'[k] = {f} => Found(k, f)'
  <2>1. /\ kept[k] \subseteq told[k]
        /\ \A f \in kept[k] : told[k] = {f} => Found(k, f)
    BY DEF CapInv
  <2>2. \A f \in told'[k] : HasItems(f)'
    BY <1>11 DEF HasItems, Listed
  <2>3. CASE Idle
    BY <1>5, <2>2, <2>3
  <2>4. CASE ~Idle
    <3>1. kept' = kept /\ told[k] \subseteq told'[k]
      BY <1>5, <1>11, <2>4
    <3>2. ASSUME NEW f \in kept[k], told'[k] = {f} PROVE Found(k, f)'
      <4>1. f \in told[k] /\ told[k] = {f}
        BY <2>1, <3>1, <3>2
      <4>2. Found(k, f) /\ Harmless(k, f)
        BY <1>12, <2>1, <4>1 DEF HarmlessToAll
      <4> QED
        BY <4>2, HarmlessKeeps
    <3> QED
      BY <2>1, <2>2, <3>1, <3>2
  <2> QED
    BY <2>3, <2>4
<1>16. CapTypeOK'
  <2>1. told' \in [Range(Kinds) -> SUBSET Items]
    <3>1. \A k \in Range(Kinds) :
            (IF Idle THEN {} ELSE told[k]) \cup ({heard[k]} \ {NoItems}) \in SUBSET Items
      BY <1>7, <1>9 DEF CapTypeOK
    <3> QED
      BY <1>5, <3>1
  <2>2. kept' \in [Range(Kinds) -> SUBSET Items]
    BY <1>5, <1>7 DEF CapTypeOK
  <2>3. job' \in [Threads -> Jobs \cup {None}]
    BY <1>5, <1>7, <1>13 DEF CapTypeOK
  <2> QED
    BY <1>6, <1>7, <2>1, <2>2, <2>3 DEF CapTypeOK
<1> QED
  BY <1>14, <1>15, <1>16 DEF CapInv, Range

LEMMA ChangeStep ==
  ASSUME CapInv, Change \/ UNCHANGED capVars
  PROVE  CapInv'
<1>1. UNCHANGED <<sub, docs, links, job, told, kept>>
  BY DEF Change, capVars, storeVars, history
<1>2. offered' \in [Range(Kinds) -> Items]
  <2>1. offered \in [Range(Kinds) -> Items]
    BY DEF CapInv, CapTypeOK
  <2>2. CASE UNCHANGED capVars
    BY <2>1, <2>2 DEF capVars
  <2>3. CASE Change
    <3>1. PICK k \in Range(Kinds), n \in Names, d \in Descs \cup {None} :
            offered' = [offered EXCEPT ![k][n] = d]
      BY <2>3 DEF Change
    <3>2. [offered[k] EXCEPT ![n] = d] \in Items
      BY <2>1 DEF Items
    <3> QED
      BY <2>1, <3>1, <3>2
  <2> QED
    BY <2>2, <2>3
<1>3. HarmlessToAll
  BY <1>1, QuietStep
<1>4. CapTypeOK'
  BY <1>1, <1>2 DEF CapInv, CapTypeOK
<1>5. ASSUME NEW s \in Threads, job'[s] # None PROVE CallInv(job[s])'
  <2>1. PICK I : I = job[s]
    OBVIOUS
  <2>2. job'[s] = I /\ CallInv(I)
    BY <1>1, <1>5, <2>1 DEF CapInv
  <2> QED
    BY <1>1, <1>3, <2>2, CallStays
<1>6. ASSUME NEW k \in Range(Kinds)
      PROVE  /\ kept'[k] \subseteq told'[k]
             /\ \A f \in told'[k] : HasItems(f)'
             /\ \A f \in kept'[k] : told'[k] = {f} => Found(k, f)'
  <2>1. /\ kept[k] \subseteq told[k]
        /\ \A f \in told[k] : HasItems(f)
        /\ \A f \in kept[k] : told[k] = {f} => Found(k, f)
    BY DEF CapInv
  <2>2. \A f \in kept[k] : told[k] = {f} => Found(k, f)'
    BY <1>3, <2>1, HarmlessKeeps DEF HarmlessToAll
  <2> QED
    BY <1>1, <2>1, <2>2 DEF HasItems, Listed
<1> QED
  BY <1>4, <1>5, <1>6 DEF CapInv, Range

LEMMA CapInvInit == CapInit => CapInv
<1> SUFFICES ASSUME CapInit PROVE CapInv
  OBVIOUS
<1>1. CapTypeOK
  BY DEF CapInit, CapTypeOK
<1> QED
  BY <1>1 DEF CapInit, CapInv

LEMMA CapInvNext == CapInv /\ [CapNext]_capVars => CapInv'
<1> SUFFICES ASSUME CapInv, [CapNext]_capVars PROVE CapInv'
  OBVIOUS
<1>1. CASE Change \/ UNCHANGED capVars
  BY <1>1, ChangeStep
<1>2. ASSUME NEW t \in Threads, Step(t) PROVE CapInv'
  BY <1>2, MaterializeStep, SubStep, FindItemStep, WriteStep, LinkItemStep, ListStaleStep, ArchiveStep,
     KindDoneStep, ReturnStep, FailStep DEF Step
<1> QED
  BY <1>1, <1>2 DEF CapNext

(* Whatever earlier calls left half done, and however many calls run side  *)
(* by side: when all that run have listed the same items of a kind and one *)
(* of them ended with nothing failing, exactly these items are found, for  *)
(* any kinds, names, threads, changes and failures.                        *)
THEOREM CapabilitiesLastListingHolds == CapSpec => []LastListingHolds
<1>1. CapInv => LastListingHolds
  <2> SUFFICES ASSUME CapInv, NEW k \in Range(Kinds), NEW f \in kept[k], told[k] = {f}
               PROVE  Shown(k) = f
    BY DEF LastListingHolds
  <2>1. Found(k, f) /\ f \in Items
    BY DEF CapInv, CapTypeOK
  <2>2. \A n \in Names : Shown(k)[n] = f[n]
    <3>1. ASSUME NEW n \in Listed(f) PROVE Visible(k, n) /\ docs[k][n].desc = f[n]
      <4>1. n \in links[k] /\ docs[k][n] = [state |-> "committed", desc |-> f[n]]
        BY <2>1 DEF Found, InPlace
      <4>2. f[n] \in Descs /\ n \in Names
        BY <2>1 DEF Items, Listed
      <4>3. docs[k][n] \in Docs
        BY <4>1, <4>2 DEF Docs
      <4>4. docs[k][n] # None
        BY <4>3, CapabilitiesAssumption
      <4> QED
        BY <4>1, <4>4 DEF Visible
    <3>2. ASSUME NEW n \in Names \ Listed(f) PROVE ~Visible(k, n) /\ f[n] = None
      BY <2>1 DEF Found, Listed
    <3> QED
      BY <3>1, <3>2 DEF Shown
  <2> QED
    BY <2>1, <2>2 DEF Shown, Items
<1>2. CapInit => CapInv
  BY CapInvInit
<1>3. CapInv /\ [CapNext]_capVars => CapInv'
  BY CapInvNext
<1> QED
  BY <1>1, <1>2, <1>3, PTL DEF CapSpec

(* A call writes at one place: what it listed, or an archived copy of what *)
(* it did not list.                                                        *)
LEMMA WritesDocs ==
  ASSUME CapInv, CapNext, docs' # docs
  PROVE  \E t \in Threads, n \in Names :
           LET k == KindOf(job[t])
           IN  /\ job[t] # None /\ job[t].pc \in {"write", "archive"}
               /\ \/ docs' = [docs EXCEPT ![k][n] = [state |-> "committed", desc |-> job[t].listing[k][n]]]
                  \/ /\ docs' = [docs EXCEPT ![k][n] = [state |-> "archived", desc |-> job[t].stale[n]]]
                     /\ job[t].pc = "archive" /\ n \in Listed(job[t].stale)
<1>1. PICK t \in Threads : Insert(t) \/ Rewrite(t) \/ Archive(t)
  BY DEF CapNext, Step, Change, Materialize, FindSub, CreateSub, LinkSub, FindItem, Link, ListStale,
         KindDone, Return, Fail, storeVars
<1>2. PICK J : J = job[t]
  OBVIOUS
<1>3. J # None /\ J.pc \in {"write", "archive"}
  BY <1>1, <1>2 DEF Insert, Rewrite, Archive
<1>4. AtWork(J) /\ J \in Jobs
  BY <1>2, <1>3, CallFacts
<1>5. CASE Insert(t) \/ Rewrite(t)
  <2>1. Written(J) /\ J.pc = "write"
    BY <1>2, <1>5 DEF Insert, Rewrite, Swallowed
  <2>2. J.item \in Names
    BY <1>4, <2>1 DEF AtWork, Jobs
  <2> QED
    BY <1>2, <1>3, <2>1, <2>2 DEF Written
<1>6. CASE Archive(t)
  <2>1. PICK n \in Listed(J.stale) :
          docs' = [docs EXCEPT ![KindOf(J)][n] = [state |-> "archived", desc |-> J.stale[n]]]
    BY <1>2, <1>6 DEF Archive, Swallowed
  <2>2. n \in Names /\ J.pc = "archive"
    BY <1>2, <1>6 DEF Listed, Archive
  <2> QED
    BY <1>2, <1>3, <2>1, <2>2
<1> QED
  BY <1>1, <1>5, <1>6

(* A list that failed archives nothing: what is archived was not offered   *)
(* when a call that is under way asked.                                    *)
THEOREM CapabilitiesArchivedForAReason == CapSpec => ArchivedForAReason
<1>1. ASSUME CapInv, CapNext, NEW k \in Range(Kinds), NEW n \in Names,
             docs[k][n] # docs'[k][n], docs'[k][n].state = "archived"
      PROVE  \E t \in Threads : job[t] # None /\ job[t].offer[k][n] = None
  <2>1. PICK t \in Threads, m \in Names :
           LET l == KindOf(job[t])
           IN  /\ job[t] # None /\ job[t].pc \in {"write", "archive"}
               /\ \/ docs' = [docs EXCEPT ![l][m] = [state |-> "committed", desc |-> job[t].listing[l][m]]]
                  \/ /\ docs' = [docs EXCEPT ![l][m] = [state |-> "archived", desc |-> job[t].stale[m]]]
                     /\ job[t].pc = "archive" /\ m \in Listed(job[t].stale)
    BY <1>1, WritesDocs
  <2>2. PICK J : J = job[t]
    OBVIOUS
  <2>3. PICK l : l = KindOf(J)
    OBVIOUS
  <2>4. /\ J \in Jobs /\ AtWork(J) /\ l \in Range(Kinds) /\ StoreTypes
        /\ J.listing[l] \in {J.offer[l], NoItems} /\ HasItems(J.listing[l])
    BY <1>1, <2>1, <2>2, <2>3, CallFacts DEF JobShape, AtWork
  <2>5. \A c : docs' = [docs EXCEPT ![l][m] = c] => k = l /\ n = m /\ docs'[k][n] = c
    BY <1>1, <2>4 DEF StoreTypes
  <2>6. /\ k = l /\ n = m /\ J.pc = "archive" /\ m \in Listed(J.stale)
    <3>1. CASE docs' = [docs EXCEPT ![l][m] = [state |-> "committed", desc |-> J.listing[l][m]]]
      BY <1>1, <2>5, <3>1
    <3>2. CASE docs' = [docs EXCEPT ![l][m] = [state |-> "archived", desc |-> J.stale[m]]]
               /\ J.pc = "archive" /\ m \in Listed(J.stale)
      BY <2>5, <3>2
    <3> QED
      BY <2>1, <2>2, <2>3, <3>1, <3>2
  <2>7. J.listing[l] = J.offer[l]
    BY <2>4 DEF HasItems, Listed, NoItems
  <2>8. J.listing[l][n] = None
    BY <1>1, <2>3, <2>4, <2>6 DEF AtWork, Listed
  <2> QED
    BY <2>1, <2>2, <2>6, <2>7, <2>8
<1>2. CapInv /\ [CapNext]_capVars =>
        [\A k \in Range(Kinds), n \in Names :
           (docs[k][n] # docs'[k][n] /\ docs'[k][n].state = "archived")
             => \E t \in Threads : job[t] # None /\ job[t].offer[k][n] = None]_capVars
  BY <1>1
<1>3. CapInit => CapInv
  BY CapInvInit
<1>4. CapInv /\ [CapNext]_capVars => CapInv'
  BY CapInvNext
<1> QED
  BY <1>2, <1>3, <1>4, PTL DEF CapSpec, ArchivedForAReason
=============================================================================
