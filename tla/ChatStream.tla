----------------------------- MODULE ChatStream -----------------------------
(***************************************************************************)
(* A chat turn streamed to a browser: Aria's posts (ChatTurn) arrive at    *)
(* Mantle, which publishes them on the event bus (EventStream), and the    *)
(* browser's client (EventsClient) subscribes to them.  Services of Mantle *)
(* publish the changes of other users' artifacts meanwhile.                *)
(***************************************************************************)
EXTENDS EventsClient, ChatTurn

CONSTANTS
  Chat,      \* the container of the chat artifact
  Scenarios  \* bounds: the turns that run, their iterations gone by, the
             \* subscriptions taken back and connections spent before, the
             \* troubles

ASSUME ChatAssumption == Chat \in Containers

vars == <<clientVars, streamVars, turnVars>>

Init ==
  /\ ClientInit /\ StreamInit /\ TurnInit
  /\ \E s \in Scenarios : /\ at = [t \in Turns |-> IF t \in s.turns THEN "idle" ELSE "never"]
                         /\ round = [t \in Turns |-> s.gone]
                         /\ nextSubId = s.first
                         /\ Cardinality(Unused) = MaxConns - s.spent
                         /\ trouble = s.trouble

(* emit_event: the request of a post reaches Mantle; its actor is the user *)
(* for whom Aria acts.                                                     *)
Arrive(p) ==
  /\ p \in posts /\ ~p.arrived
  /\ Publish([name |-> p.what, container |-> Chat, mine |-> TRUE,
              turn |-> p.turn, round |-> p.round, n |-> p.n, late |-> ~p.awaited])
  /\ posts' = IF p.awaited THEN (posts \ {p}) \cup {[p EXCEPT !.arrived = TRUE]} ELSE posts \ {p}
  /\ UNCHANGED <<at, round, chunks, lost, clientVars, trouble>>

(* A service announces another user's change (emit_artifact_event_sync).   *)
Announce(k) ==
  /\ Trouble
  /\ Publish([name |-> "artifact", container |-> k, mine |-> FALSE])
  /\ UNCHANGED <<turnVars, clientVars>>

(* A post goes wrong, and nothing else happens.                            *)
Fails == Trouble /\ UNCHANGED <<clientVars, netVars, serverVars, log, readable>>

Next ==
  \/ Client /\ UNCHANGED turnVars
  \/ \E c \in Conns : Stream(c) /\ UNCHANGED <<clientVars, turnVars>>
  \/ \E k \in Containers : ChangeGrant(k) /\ UNCHANGED <<clientVars, turnVars>>
  \/ \E k \in Containers : Announce(k)
  \/ \E t \in Turns : Turn(t) /\ UNCHANGED <<clientVars, streamVars>>
  \/ \E p \in posts : Answered(p) /\ UNCHANGED <<clientVars, streamVars>>
  \/ \E p \in posts : (PostFails(p) \/ GiveUp(p)) /\ Fails
  \/ \E p \in posts : Arrive(p)

Spec == Init /\ [][Next]_vars

FairSpec == Spec /\ StreamFairness /\ ClientFairness

-----------------------------------------------------------------------------

(* The order in which a turn should tell of itself.                        *)
Stage(e) == 3 * e.round + (CASE e.name = "streaming" -> 0
                             [] e.name = "delta" -> 1
                             [] OTHER -> 2)

(* The i-th event published is told by turn t.                             *)
Tells(t, i) == log[i].mine /\ log[i].turn = t

(* What a turn tells is told stage by stage: only a request that was given *)
(* up can be published after one of a later stage.  In particular no delta *)
(* follows "completed", although each is posted by a task of its own.      *)
ToldInStages ==
  \A i, j \in DOMAIN log :
    (i < j /\ log[i].mine /\ log[j].mine /\ ~log[j].late /\ log[i].turn = log[j].turn)
      => Stage(log[i]) <= Stage(log[j])

(* A turn that returned with none of its posts lost or given up was told   *)
(* in full: every chunk of its last answer, and "completed" at the end.    *)
ToldInFull ==
  \A t \in Turns : (at[t] = "returned" /\ t \notin lost) =>
    /\ \E last \in DOMAIN log :
         /\ Tells(t, last) /\ log[last].name = "completed"
         /\ \A i \in DOMAIN log : Tells(t, i) => i <= last
    /\ \A k \in 1..chunks[t] : \E i \in DOMAIN log :
         Tells(t, i) /\ log[i].round = round[t] /\ log[i].name = "delta" /\ log[i].n = k
=============================================================================
