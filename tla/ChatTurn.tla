------------------------------ MODULE ChatTurn ------------------------------
(***************************************************************************)
(* Aria's chat turn (chorus/aria/server.py, _run_chat_turn_impl) with a    *)
(* chat artifact to stream to.  The turn posts status events and one event *)
(* per chunk of the model's answer to Mantle's /events/emit; a post may be *)
(* answered, fail, or be given up after five seconds while its request is  *)
(* still on the way.                                                       *)
(*                                                                         *)
(* What Mantle does with a post that arrives is left to the module that    *)
(* composes this one with the event stream.                                *)
(***************************************************************************)
EXTENDS Naturals, Sequences, FiniteSets

CONSTANTS
  Turns,          \* chat turns of one chat artifact
  MaxIterations,  \* _MAX_TOOL_ITERATIONS
  MaxChunks       \* bound: chunks of one answer of the model

ASSUME TurnAssumption == MaxIterations \in Nat \ {0} /\ MaxChunks \in Nat

VARIABLES
  at,      \* what each turn is doing
  round,   \* the iteration of its tool loop
  chunks,  \* the chunks of the current answer so far
  posts,   \* requests to /events/emit that are on the way or awaited
  lost     \* the turns that lost a post, or gave one up

turnVars == <<at, round, chunks, posts, lost>>

\* arrived: Mantle has handled the request; awaited: the turn waits for it
Post(t, r, what, n) == [turn |-> t, round |-> r, what |-> what, n |-> n,
                        arrived |-> FALSE, awaited |-> TRUE]

TurnInit ==
  /\ at \in [Turns -> {"idle", "never"}]
  /\ round \in [Turns -> 0..(MaxIterations - 1)]  \* those already gone by
  /\ chunks = [t \in Turns |-> 0]
  /\ posts = {}
  /\ lost = {}

Awaited(t) == {p \in posts : p.turn = t /\ p.awaited}

Goes(t, place) == at' = [at EXCEPT ![t] = place]

(* _push_chat_status: the turn waits for the post, whatever becomes of it. *)
PushStatus(t, r, status) == posts' = posts \cup {Post(t, r, status, 0)}

(* Mutant: nothing is told when the iterations are used up.                *)
IterateSilent(t) ==
  /\ at[t] \in {"idle", "tools"}
  /\ IF round[t] < MaxIterations
     THEN /\ round' = [round EXCEPT ![t] = @ + 1]
          /\ chunks' = [chunks EXCEPT ![t] = 0]
          /\ PushStatus(t, round[t] + 1, "streaming")
          /\ Goes(t, "opening")
     ELSE /\ Goes(t, "returned")
          /\ UNCHANGED <<round, chunks, posts>>
  /\ UNCHANGED lost

(* An iteration begins with the status "streaming"; after the last one the *)
(* turn ends with "completed" all the same.                                *)
Iterate(t) ==
  /\ at[t] \in {"idle", "tools"}
  /\ IF round[t] < MaxIterations
     THEN /\ round' = [round EXCEPT ![t] = @ + 1]
          /\ chunks' = [chunks EXCEPT ![t] = 0]
          /\ PushStatus(t, round[t] + 1, "streaming")
          /\ Goes(t, "opening")
     ELSE /\ PushStatus(t, round[t], "completed")
          /\ Goes(t, "completing")
          /\ UNCHANGED <<round, chunks>>
  /\ UNCHANGED lost

(* The model answers; the turn reads its stream.                           *)
OpenStream(t) ==
  /\ at[t] = "opening" /\ Awaited(t) = {}
  /\ Goes(t, "streaming")
  /\ UNCHANGED <<round, chunks, posts, lost>>

(* A chunk with text: its post is a task of its own.                       *)
Chunk(t) ==
  /\ at[t] = "streaming" /\ chunks[t] < MaxChunks
  /\ chunks' = [chunks EXCEPT ![t] = @ + 1]
  /\ UNCHANGED <<at, round, lost>>
  /\ posts' = posts \cup {Post(t, round[t], "delta", chunks[t] + 1)}

EndStream(t) ==
  /\ at[t] = "streaming"
  /\ Goes(t, "draining")
  /\ UNCHANGED <<round, chunks, posts, lost>>

(* Mutant: the tasks of the deltas are not gathered.                       *)
DrainedAtOnce(t) == TRUE

(* The gather of the tasks returns when the last of them has ended.        *)
Drained(t) == Awaited(t) = {}

(* The status that closes an iteration: completed, or tool_calling.        *)
CloseRound(t) ==
  /\ at[t] = "draining" /\ Drained(t)
  /\ \E status \in {"completed", "tool_calling"} :
       /\ PushStatus(t, round[t], status)
       /\ Goes(t, IF status = "completed" THEN "completing" ELSE "calling")
  /\ UNCHANGED <<round, chunks, lost>>

CallTools(t) ==
  /\ at[t] = "calling" /\ Awaited(t) = {}
  /\ Goes(t, "tools")
  /\ UNCHANGED <<round, chunks, posts, lost>>

Return(t) ==
  /\ at[t] = "completing" /\ Awaited(t) = {}
  /\ Goes(t, "returned")
  /\ UNCHANGED <<round, chunks, posts, lost>>

(* The model or a tool raises; no status is sent, and the posts of the     *)
(* deltas are left to themselves.                                          *)
Raise(t) ==
  /\ at[t] \in {"streaming", "tools"} \/ (at[t] = "opening" /\ Awaited(t) = {})
  /\ Goes(t, "raised")
  /\ posts' = {IF p \in Awaited(t) THEN [p EXCEPT !.awaited = FALSE] ELSE p : p \in posts}
  /\ UNCHANGED <<round, chunks, lost>>

(* The answer of Mantle reaches the turn.                                  *)
Answered(p) ==
  /\ p \in posts /\ p.arrived
  /\ posts' = posts \ {p}
  /\ UNCHANGED <<at, round, chunks, lost>>

(* A post cannot be sent, or its answer is lost.                           *)
PostFails(p) ==
  /\ p \in posts
  /\ posts' = posts \ {p}
  /\ lost' = lost \cup {p.turn}
  /\ UNCHANGED <<at, round, chunks>>

(* The five seconds are over; the request may still arrive.                *)
GiveUp(p) ==
  /\ p \in posts /\ p.awaited /\ ~p.arrived
  /\ posts' = (posts \ {p}) \cup {[p EXCEPT !.awaited = FALSE]}
  /\ lost' = lost \cup {p.turn}
  /\ UNCHANGED <<at, round, chunks>>

Turn(t) ==
  \/ Iterate(t) \/ OpenStream(t) \/ Chunk(t) \/ EndStream(t) \/ CloseRound(t)
  \/ CallTools(t) \/ Return(t) \/ Raise(t)
=============================================================================
