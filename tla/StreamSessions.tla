--------------------------- MODULE StreamSessions ---------------------------
(***************************************************************************)
(* The live sessions of mantle/routers/stream_router.py.  The streaming    *)
(* server (SRS) calls a hook when somebody begins to publish a stream and  *)
(* another when they stop; Mantle keeps one session per stream key in      *)
(* memory and one artifact per session, which says whether it is live.     *)
(*                                                                         *)
(* The handlers and the deferred task work under one lock and await        *)
(* nothing there, so each is one step.  A session survives a gap between   *)
(* a stop and the next start of up to Window ticks.                        *)
(*                                                                         *)
(* Nothing is assumed of the order in which SRS calls: a hook may be lost, *)
(* told late or told twice.  An entry is never taken out of memory, so     *)
(* that a stop told when its session has ended sets the time of that       *)
(* session and puts it on air again; `late` remembers for which keys.      *)
(***************************************************************************)
EXTENDS Naturals, Sequences

CONSTANTS
  Keys,           \* stream keys: a source artifact and an API key
  Window,         \* _IDLE_WINDOW
  None,           \* no session in memory
  MaxSessions,    \* bound: session artifacts ever made
  MaxUnpublish,   \* bound: unpublish hooks
  MaxRestarts     \* bound: restarts of Mantle

ASSUME SessionAssumption ==
  /\ Window \in Nat /\ MaxSessions \in Nat
  /\ MaxUnpublish \in Nat /\ MaxRestarts \in Nat
  /\ None \notin [session : 1..MaxSessions, up : BOOLEAN, idle : 0..(Window + 1)]

VARIABLES
  entry,       \* _ACTIVE_SESSIONS: key -> session, whether up, time since it stopped
  status,      \* what the artifact of each session says
  sleeping,    \* the age of each _defer_finalize of a key, oldest first
  unpublished, \* unpublish hooks handled
  restarts,    \* restarts of Mantle
  unended,     \* history: sessions whose end could not be written
  late         \* history: keys whose session was told a stop when it was over

sessionVars == <<entry, status, sleeping, unpublished, restarts, unended, late>>

Sessions == 1..MaxSessions
Ages == 0..(Window + 1)     \* older than the window is all the same
Entry == [session : Sessions, up : BOOLEAN, idle : Ages]

SessionTypeOK ==
  /\ entry \in [Keys -> Entry \cup {None}]
  /\ status \in [Sessions -> {"none", "live", "ended", "deleted"}]
  /\ sleeping \in [Keys -> Seq(Ages)]
  /\ unpublished \in 0..MaxUnpublish
  /\ restarts \in 0..MaxRestarts
  /\ unended \subseteq Sessions
  /\ late \subseteq Keys

(* _is_session_active                                                      *)
IsActive(e) == e.up \/ e.idle <= Window

SessionInit ==
  /\ entry = [k \in Keys |-> None]
  /\ status = [s \in Sessions |-> "none"]
  /\ sleeping = [k \in Keys |-> <<>>]
  /\ unpublished = 0
  /\ restarts = 0
  /\ unended = {}
  /\ late = {}

-----------------------------------------------------------------------------
(* Mutant: whatever session the key has is taken up again.                 *)
ReusableAlways(k) == entry[k] # None

(* The session a publisher comes back to.                                  *)
Reusable(k) == entry[k] # None /\ IsActive(entry[k])

(* on_publish: the session goes on, or a new one takes its place.  A hook  *)
(* that is refused changes nothing; one that fails after the artifact was  *)
(* made, while the source is told of it, leaves the artifact behind.       *)
OnPublish(k) ==
  /\ IF Reusable(k)
       THEN /\ entry' = [entry EXCEPT ![k].up = TRUE, ![k].idle = 0]
            /\ UNCHANGED <<status, late>>
       ELSE \E s \in Sessions :
              /\ status[s] = "none"
              /\ \A r \in Sessions : r < s => status[r] # "none"
              /\ status' = [status EXCEPT ![s] = "live"]
              /\ \/ /\ entry' = [entry EXCEPT ![k] = [session |-> s, up |-> TRUE, idle |-> 0]]
                    /\ late' = late \ {k}
                 \/ UNCHANGED <<entry, late>>
  /\ UNCHANGED <<sleeping, unpublished, restarts, unended>>

(* A stop for a session that is over already is late.                      *)
LateStop(k) == IF IsActive(entry[k]) THEN late ELSE late \cup {k}

(* Mutant: a task that is asleep already is thought to be enough.          *)
OnUnpublishDefersOnce(k) ==
  /\ unpublished < MaxUnpublish
  /\ entry[k] # None
  /\ entry' = [entry EXCEPT ![k].up = FALSE, ![k].idle = 0]
  /\ sleeping' = [sleeping EXCEPT ![k] = IF @ = <<>> THEN <<0>> ELSE @]
  /\ unpublished' = unpublished + 1
  /\ late' = LateStop(k)
  /\ UNCHANGED <<status, restarts, unended>>

(* on_unpublish: whatever session the key has is down from now on, and a   *)
(* task will look at it when the window is over.  Without a session        *)
(* nothing happens: the stop of a publisher from before a restart is no    *)
(* step.                                                                   *)
OnUnpublish(k) ==
  /\ unpublished < MaxUnpublish
  /\ entry[k] # None
  /\ entry' = [entry EXCEPT ![k].up = FALSE, ![k].idle = 0]
  /\ sleeping' = [sleeping EXCEPT ![k] = Append(@, 0)]
  /\ unpublished' = unpublished + 1
  /\ late' = LateStop(k)
  /\ UNCHANGED <<status, restarts, unended>>

(* Mutant: the task ends whatever session the key has.                     *)
FinalizeAnyway(k) ==
  /\ sleeping[k] # <<>>
  /\ Head(sleeping[k]) > Window
  /\ sleeping' = [sleeping EXCEPT ![k] = Tail(@)]
  /\ status' = IF entry[k] # None /\ status[entry[k].session] # "deleted"
                 THEN [status EXCEPT ![entry[k].session] = "ended"] ELSE status
  /\ UNCHANGED <<entry, unpublished, restarts, unended, late>>

(* _defer_finalize wakes, some time after the window: the session the key  *)
(* has by now ends if it is not active.  The write may fail, and nobody    *)
(* tries again.                                                            *)
Finalize(k) ==
  /\ sleeping[k] # <<>>
  /\ Head(sleeping[k]) > Window
  /\ sleeping' = [sleeping EXCEPT ![k] = Tail(@)]
  /\ IF entry[k] # None /\ ~IsActive(entry[k]) /\ status[entry[k].session] # "deleted"
       THEN LET s == entry[k].session IN
              \/ status' = [status EXCEPT ![s] = "ended"] /\ UNCHANGED unended
              \/ unended' = unended \cup {s} /\ UNCHANGED status
       ELSE UNCHANGED <<status, unended>>
  /\ UNCHANGED <<entry, unpublished, restarts, late>>

(* Somebody deletes the artifact of a session; its entry stays.            *)
Delete(s) ==
  /\ status[s] \in {"live", "ended"}
  /\ status' = [status EXCEPT ![s] = "deleted"]
  /\ UNCHANGED <<entry, sleeping, unpublished, restarts, unended, late>>

(* Mantle restarts: sessions and tasks are gone, the artifacts stay.       *)
Restart ==
  /\ restarts < MaxRestarts
  /\ entry' = [k \in Keys |-> None]
  /\ sleeping' = [k \in Keys |-> <<>>]
  /\ restarts' = restarts + 1
  /\ late' = {}
  /\ UNCHANGED <<status, unpublished, unended>>

(* Time goes on.                                                           *)
Older(t) == IF t > Window THEN t ELSE t + 1

Tick ==
  /\ entry' = [k \in Keys |->
                 IF entry[k] = None \/ entry[k].up THEN entry[k]
                 ELSE [entry[k] EXCEPT !.idle = Older(@)]]
  /\ sleeping' = [k \in Keys |-> [i \in DOMAIN sleeping[k] |-> Older(sleeping[k][i])]]
  /\ UNCHANGED <<status, unpublished, restarts, unended, late>>

SessionNext ==
  \/ \E k \in Keys : OnPublish(k) \/ OnUnpublish(k) \/ Finalize(k)
  \/ \E s \in Sessions : Delete(s)
  \/ Restart
  \/ Tick

(* Time passes, and a task whose time has come runs.                       *)
SessionFairness ==
  /\ WF_sessionVars(Tick)
  /\ \A k \in Keys : WF_sessionVars(Finalize(k))

SessionSpec == SessionInit /\ [][SessionNext]_sessionVars /\ SessionFairness

-----------------------------------------------------------------------------
(* Properties                                                              *)

(* What list_sessions shows as live has not ended, although a session is   *)
(* taken up again, stopped twice, replaced and ended by hooks and tasks    *)
(* that may have been meant for an earlier one, as long as no stop was     *)
(* told after its window; and no two keys ever share a session.            *)
ListedHasNotEnded ==
  /\ \A k \in Keys : entry[k] # None /\ IsActive(entry[k]) /\ k \notin late =>
       status[entry[k].session] \in {"live", "deleted"}
  /\ \A k, l \in Keys :
       entry[k] # None /\ entry[l] # None /\ entry[k].session = entry[l].session => k = l

(* A session that is down ends, unless a publisher comes back to it or     *)
(* begins the next one before the task looks, Mantle restarts, somebody    *)
(* deletes its artifact, or the write fails.                               *)
Down(k, s) == entry[k] # None /\ entry[k].session = s /\ ~entry[k].up
Over(k, s) ==
  \/ status[s] \in {"ended", "deleted"}
  \/ s \in unended
  \/ ~Down(k, s)

EndsWhenIdle == \A k \in Keys, s \in Sessions : Down(k, s) ~> Over(k, s)
=============================================================================
