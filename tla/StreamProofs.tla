---------------------------- MODULE StreamProofs ----------------------------
(***************************************************************************)
(* Proofs about Mantle's streams.  Of the live sessions (StreamSessions):  *)
(* no key lists a session that has ended, for any keys, window and numbers *)
(* of sessions, hooks and restarts.  Of a chat turn (ChatTurn): what the   *)
(* chat is told of each message.  Of the event stream (EventStream): what  *)
(* a connection is sent, and in which order, for any containers, events    *)
(* and connections.                                                        *)
(***************************************************************************)
EXTENDS ChatStream, StreamSessions, SequenceTheorems, FiniteSetTheorems, TLAPS

(* What is known at any time of the entries e and the artifacts a, when    *)
(* the keys w were told a stop too late.  Every entry names a session that *)
(* was made, no two keys name the same, and what an active entry names has *)
(* not ended unless a late stop made it active.                            *)
Statuses == {"none", "live", "ended", "deleted"}
WellTyped(e, a) == e \in [Keys -> Entry \cup {None}] /\ a \in [Sessions -> Statuses]
Made(e, a, k) == e[k] # None => a[e[k].session] # "none"
Apart(e, k, l) == e[k] # None /\ e[l] # None /\ e[k].session = e[l].session => k = l
OnAir(e, a, w, k) == e[k] # None /\ IsActive(e[k]) /\ k \notin w => a[e[k].session] # "ended"
Fit(e, a, w) ==
  /\ WellTyped(e, a)
  /\ \A k \in Keys : Made(e, a, k) /\ OnAir(e, a, w, k)
  /\ \A k, l \in Keys : Apart(e, k, l)

SessionInv == Fit(entry, status, late)

-----------------------------------------------------------------------------
(* An entry other than None is a record of its three fields.               *)
LEMMA EntryFields ==
  ASSUME NEW e, e \in [Keys -> Entry \cup {None}], NEW k \in Keys, e[k] # None
  PROVE  e[k] \in Entry /\ e[k].session \in Sessions /\ e[k].up \in BOOLEAN /\ e[k].idle \in Ages
<1>1. e[k] \in Entry
  OBVIOUS
<1> QED
  BY <1>1 DEF Entry

(* Entries f with artifacts b come from entries e with artifacts a without *)
(* a new session: entries keep theirs, no artifact is unmade, and what an  *)
(* entry that is active now names has not ended.                           *)
Follows(e, a, f, b, x) ==
  /\ \A k \in Keys : f[k] # None => e[k] # None /\ f[k].session = e[k].session
  /\ \A s \in Sessions : b[s] = "none" => a[s] = "none"
  /\ \A k \in Keys : f[k] # None /\ IsActive(f[k]) /\ k \notin x => b[e[k].session] # "ended"

(* Such a change keeps what is known.                                      *)
LEMMA FitStays ==
  ASSUME NEW e, NEW a, NEW w, NEW f, NEW b, NEW x,
         Fit(e, a, w), WellTyped(f, b), Follows(e, a, f, b, x)
  PROVE  Fit(f, b, x)
<1>1. ASSUME NEW k \in Keys PROVE Made(f, b, k)
  <2> SUFFICES ASSUME f[k] # None PROVE b[f[k].session] # "none"
    BY DEF Made
  <2>1. f[k].session \in Sessions
    BY EntryFields DEF WellTyped
  <2>2. e[k] # None /\ f[k].session = e[k].session
    BY DEF Follows
  <2>3. a[e[k].session] # "none"
    BY <2>2 DEF Fit, Made
  <2> QED
    BY <2>1, <2>2, <2>3 DEF Follows
<1>2. ASSUME NEW k \in Keys PROVE OnAir(f, b, x, k)
  BY DEF OnAir, Follows
<1>3. ASSUME NEW k \in Keys, NEW l \in Keys PROVE Apart(f, k, l)
  BY DEF Fit, Apart, Follows
<1> QED
  BY <1>1, <1>2, <1>3 DEF Fit

(* A session that was not there before takes the place of a key's entry.   *)
LEMMA FitStarts ==
  ASSUME NEW e, NEW a, NEW w, Fit(e, a, w), NEW k \in Keys, NEW s \in Sessions, a[s] = "none",
         NEW f, NEW b, NEW x, b = [a EXCEPT ![s] = "live"],
         \/ f = e /\ x = w
         \/ f = [e EXCEPT ![k] = [session |-> s, up |-> TRUE, idle |-> 0]] /\ x = w \ {k}
  PROVE  Fit(f, b, x)
<1> DEFINE new == [session |-> s, up |-> TRUE, idle |-> 0]
<1>0. new \in Entry /\ new.session = s
  BY SessionAssumption DEF Entry, Ages
<1>1. WellTyped(f, b)
  BY <1>0 DEF WellTyped, Fit, Statuses
<1>2. \A l \in Keys : e[l] # None => e[l].session \in Sessions /\ e[l].session # s
  BY EntryFields DEF Fit, WellTyped, Made
<1>3. ASSUME NEW l \in Keys, f[l] # None
      PROVE  \/ /\ f[l] = e[l] /\ e[l].session # s /\ b[e[l].session] = a[e[l].session]
                /\ l \notin x => l \notin w
             \/ l = k /\ f[l] = new /\ b[s] = "live" /\ f[l].session = s
  <2>1. a \in [Sessions -> Statuses] /\ e \in [Keys -> Entry \cup {None}]
    BY DEF Fit, WellTyped
  <2>2. CASE f[l] = e[l]
    <3>1. e[l].session # s /\ b[e[l].session] = a[e[l].session]
      BY <2>1, <2>2, <1>2, <1>3
    <3>2. l \notin x => l \notin w
      BY <2>1, <2>2, <3>1, <1>0
    <3> QED
      BY <2>2, <3>1, <3>2
  <2>3. CASE f[l] # e[l]
    <3>1. l = k /\ f[l] = new
      BY <2>1, <2>3
    <3>2. b[s] = "live"
      BY <2>1
    <3> QED
      BY <3>1, <3>2, <1>0
  <2> QED
    BY <2>2, <2>3
<1>4. ASSUME NEW l \in Keys PROVE Made(f, b, l) /\ OnAir(f, b, x, l)
  BY <1>3 DEF Fit, Made, OnAir
<1>5. ASSUME NEW l \in Keys, NEW j \in Keys PROVE Apart(f, l, j)
  BY <1>3 DEF Fit, Apart
<1> QED
  BY <1>1, <1>4, <1>5 DEF Fit

-----------------------------------------------------------------------------
(* Every step keeps the invariant, one action at a time.                   *)
LEMMA StepKeeps == SessionInv /\ [SessionNext]_sessionVars => SessionInv'
<1> SUFFICES ASSUME SessionInv, [SessionNext]_sessionVars PROVE Fit(entry', status', late')
  BY DEF SessionInv
<1>t. /\ entry \in [Keys -> Entry \cup {None}]
      /\ status \in [Sessions -> Statuses]
  BY DEF SessionInv, Fit, WellTyped
<1>a. \A k \in Keys :
        entry[k] # None /\ IsActive(entry[k]) /\ k \notin late => status[entry[k].session] # "ended"
  BY DEF SessionInv, Fit, OnAir
<1>z. 0 \in Ages
  BY SessionAssumption DEF Ages
<1>1. ASSUME NEW k \in Keys, OnPublish(k) PROVE Fit(entry', status', late')
  <2>1. CASE Reusable(k)
    <3>1. /\ entry' = [entry EXCEPT ![k] = [entry[k] EXCEPT !.up = TRUE, !.idle = 0]]
          /\ status' = status /\ late' = late
      BY <1>1, <2>1 DEF OnPublish
    <3>2. entry[k] # None /\ entry[k] \in Entry /\ IsActive(entry[k])
      BY <2>1, <1>t, EntryFields DEF Reusable
    <3> DEFINE on == [entry[k] EXCEPT !.up = TRUE, !.idle = 0]
    <3>3. on \in Entry /\ on.session = entry[k].session
      BY <3>2, <1>z DEF Entry
    <3>4. WellTyped(entry', status')
      BY <1>t, <3>1, <3>3 DEF WellTyped
    <3>5. \A l \in Keys : entry'[l] # None =>
            entry[l] # None /\ entry'[l].session = entry[l].session
      BY <1>t, <3>1, <3>2, <3>3
    <3>6. \A l \in Keys :
            entry'[l] # None /\ IsActive(entry'[l]) /\ l \notin late' => status'[entry[l].session] # "ended"
      BY <1>t, <1>a, <3>1, <3>2
    <3>f. Follows(entry, status, entry', status', late')
      BY <3>1, <3>4, <3>5, <3>6 DEF Follows
    <3> QED
      BY <3>4, <3>f, FitStays DEF SessionInv
  <2>2. CASE ~Reusable(k)
    <3>1. PICK s \in Sessions :
            /\ status[s] = "none"
            /\ status' = [status EXCEPT ![s] = "live"]
            /\ \/ entry' = entry /\ late' = late
               \/ /\ entry' = [entry EXCEPT ![k] = [session |-> s, up |-> TRUE, idle |-> 0]]
                  /\ late' = late \ {k}
      BY <1>1, <2>2 DEF OnPublish
    <3> QED
      BY <3>1, FitStarts DEF SessionInv
  <2> QED
    BY <2>1, <2>2
<1>2. ASSUME NEW k \in Keys, OnUnpublish(k) PROVE Fit(entry', status', late')
  <2>1. /\ entry' = [entry EXCEPT ![k] = [entry[k] EXCEPT !.up = FALSE, !.idle = 0]]
        /\ status' = status
        /\ late' = IF IsActive(entry[k]) THEN late ELSE late \cup {k}
    BY <1>2 DEF OnUnpublish, LateStop
  <2>2. entry[k] # None /\ entry[k] \in Entry
    BY <1>2, <1>t, EntryFields DEF OnUnpublish
  <2> DEFINE off == [entry[k] EXCEPT !.up = FALSE, !.idle = 0]
  <2>3. off \in Entry /\ off.session = entry[k].session
    BY <2>2, <1>z DEF Entry
  <2>4. WellTyped(entry', status')
    BY <1>t, <2>1, <2>3 DEF WellTyped
  <2>5. \A l \in Keys : entry'[l] # None =>
          entry[l] # None /\ entry'[l].session = entry[l].session
    BY <1>t, <2>1, <2>2, <2>3
  <2>6. \A l \in Keys :
          entry'[l] # None /\ IsActive(entry'[l]) /\ l \notin late' => status'[entry[l].session] # "ended"
    BY <1>t, <1>a, <2>1, <2>2
  <2>f. Follows(entry, status, entry', status', late')
    BY <2>1, <2>4, <2>5, <2>6 DEF Follows
  <2> QED
    BY <2>4, <2>f, FitStays DEF SessionInv
<1>3. ASSUME NEW k \in Keys, Finalize(k) PROVE Fit(entry', status', late')
  <2>1. CASE status' = status
    BY <1>3, <2>1 DEF Finalize, SessionInv
  <2>2. CASE status' # status
    <3>1. /\ entry' = entry /\ late' = late /\ entry[k] # None /\ ~IsActive(entry[k])
          /\ status' = [status EXCEPT ![entry[k].session] = "ended"]
      BY <1>3, <2>2 DEF Finalize
    <3>2. WellTyped(entry', status')
      BY <1>t, <3>1 DEF WellTyped, Statuses
    <3>3. \A s \in Sessions : status'[s] = "none" => status[s] = "none"
      BY <1>t, <3>1
    <3>4. ASSUME NEW l \in Keys, entry[l] # None, IsActive(entry[l]), l \notin late
          PROVE  status'[entry[l].session] # "ended"
      <4>1. entry[l].session # entry[k].session
        BY <3>1, <3>4 DEF SessionInv, Fit, Apart
      <4>2. entry[l].session \in Sessions
        BY <1>t, <3>4, EntryFields
      <4> QED
        BY <1>t, <1>a, <3>1, <3>4, <4>1, <4>2
    <3>f. Follows(entry, status, entry', status', late')
      BY <3>1, <3>2, <3>3, <3>4 DEF Follows
    <3> QED
      BY <3>2, <3>f, FitStays DEF SessionInv
  <2> QED
    BY <2>1, <2>2
<1>4. ASSUME NEW s \in Sessions, Delete(s) PROVE Fit(entry', status', late')
  <2>1. entry' = entry /\ late' = late /\ status' = [status EXCEPT ![s] = "deleted"]
    BY <1>4 DEF Delete
  <2>2. WellTyped(entry', status')
    BY <1>t, <2>1 DEF WellTyped, Statuses
  <2>3. \A r \in Sessions : status'[r] = "none" => status[r] = "none"
    BY <1>t, <2>1
  <2>4. ASSUME NEW l \in Keys, entry[l] # None, IsActive(entry[l]), l \notin late
        PROVE  status'[entry[l].session] # "ended"
    BY <1>t, <1>a, <2>1, <2>4, EntryFields
  <2>f. Follows(entry, status, entry', status', late')
    BY <2>1, <2>2, <2>3, <2>4 DEF Follows
  <2> QED
    BY <2>2, <2>f, FitStays DEF SessionInv
<1>5. CASE Restart
  <2>1. entry' = [k \in Keys |-> None] /\ status' = status
    BY <1>5 DEF Restart
  <2>2. WellTyped(entry', status')
    BY <1>t, <2>1 DEF WellTyped
  <2>3. \A k \in Keys : entry'[k] = None
    BY <2>1
  <2>f. Follows(entry, status, entry', status', late')
    BY <2>1, <2>2, <2>3 DEF Follows
  <2> QED
    BY <2>2, <2>f, FitStays DEF SessionInv
<1>6. CASE Tick
  <2>1. /\ status' = status /\ late' = late
        /\ entry' = [k \in Keys |->
                       IF entry[k] = None \/ entry[k].up THEN entry[k]
                       ELSE [entry[k] EXCEPT !.idle = Older(entry[k].idle)]]
    BY <1>6 DEF Tick
  <2>2. ASSUME NEW k \in Keys
        PROVE  /\ entry'[k] \in Entry \cup {None}
               /\ entry'[k] # None =>
                    /\ entry[k] # None /\ entry'[k].session = entry[k].session
                    /\ IsActive(entry'[k]) => IsActive(entry[k])
    <3>1. CASE entry[k] = None \/ entry[k].up
      BY <1>t, <2>1, <3>1
    <3>2. CASE entry[k] # None /\ ~entry[k].up
      <4> DEFINE old == Older(entry[k].idle)
      <4>1. entry'[k] = [entry[k] EXCEPT !.idle = old]
        BY <2>1, <3>2
      <4>2. entry[k] \in Entry /\ entry[k].idle \in Ages
        BY <1>t, <3>2, EntryFields
      <4>3. old \in Ages /\ (old <= Window => entry[k].idle <= Window)
        BY <4>2, SessionAssumption DEF Older, Ages
      <4>4. entry'[k] \in Entry
        BY <4>1, <4>2, <4>3 DEF Entry
      <4>5. /\ entry'[k].session = entry[k].session
            /\ entry'[k].up = entry[k].up
            /\ entry'[k].idle = old
        BY <4>1, <4>2 DEF Entry
      <4> QED
        BY <3>2, <4>3, <4>4, <4>5 DEF IsActive
    <3> QED
      BY <3>1, <3>2
  <2>3. WellTyped(entry', status')
    <3>1. DOMAIN entry' = Keys /\ entry' = [k \in Keys |-> entry'[k]]
      BY <2>1
    <3> QED
      BY <1>t, <2>1, <2>2, <3>1 DEF WellTyped
  <2>f. Follows(entry, status, entry', status', late')
    BY <1>a, <2>1, <2>2, <2>3 DEF Follows
  <2> QED
    BY <2>3, <2>f, FitStays DEF SessionInv
<1>7. CASE UNCHANGED sessionVars
  BY <1>7 DEF sessionVars, SessionInv
<1> QED
  BY <1>1, <1>2, <1>3, <1>4, <1>5, <1>6, <1>7 DEF SessionNext

(* Of a key with an active session the artifact has not ended, unless a    *)
(* stop was told after its window, and no two keys share a session,        *)
(* whatever hooks, tasks, deletions and restarts come in whatever order.   *)
THEOREM StreamListedHasNotEnded == SessionSpec => []ListedHasNotEnded
<1>1. SessionInit => SessionInv
  <2> SUFFICES ASSUME SessionInit PROVE Fit(entry, status, late)
    BY DEF SessionInv
  <2>1. \A k \in Keys : entry[k] = None
    BY DEF SessionInit
  <2>2. WellTyped(entry, status)
    BY DEF SessionInit, WellTyped, Statuses
  <2> QED
    BY <2>1, <2>2 DEF Fit, Made, OnAir, Apart
<1>2. SessionInv => ListedHasNotEnded
  <2> SUFFICES ASSUME SessionInv PROVE ListedHasNotEnded
    OBVIOUS
  <2>1. ASSUME NEW k \in Keys, entry[k] # None, IsActive(entry[k]), k \notin late
        PROVE  status[entry[k].session] \in {"live", "deleted"}
    <3>1. entry[k].session \in Sessions
      BY <2>1, EntryFields DEF SessionInv, Fit, WellTyped
    <3> QED
      BY <2>1, <3>1 DEF SessionInv, Fit, WellTyped, Statuses, Made, OnAir
  <2> QED
    BY <2>1 DEF ListedHasNotEnded, SessionInv, Fit, Apart
<1> QED
  BY <1>1, <1>2, StepKeeps, PTL DEF SessionSpec

-----------------------------------------------------------------------------
(* The chat turn                                                           *)

Places == {"idle", "never", "opening", "streaming", "draining", "calling", "tools",
           "completing", "returned", "raised"}
Whats == {"streaming", "delta", "tool_calling", "completed"}

Requests == [turn : Turns, round : Nat, what : Whats, n : Nat, arrived : BOOLEAN, awaited : BOOLEAN]

(* The events that turns tell, and those of other users' artifacts.        *)
Own == [name : Whats, container : {Chat}, mine : {TRUE},
        turn : Turns, round : Nat, n : Nat, late : BOOLEAN]
Others == [name : {"artifact"}, container : Containers, mine : {FALSE}]

TurnTypes ==
  /\ at \in [Turns -> Places]
  /\ round \in [Turns -> Nat]
  /\ chunks \in [Turns -> Nat]
  /\ posts \subseteq Requests
  /\ log \in Seq(Own \cup Others)

(* The stage that an event of an iteration belongs to, and the one that a  *)
(* turn has reached.                                                       *)
Part(what) == IF what = "streaming" THEN 0 ELSE IF what = "delta" THEN 1 ELSE 2
PartOf(place) == IF place = "opening" THEN 0 ELSE IF place \in {"streaming", "draining"} THEN 1 ELSE 2
PostStage(p) == 3 * p.round + Part(p.what)
Reached(t) == 3 * round[t] + PartOf(at[t])

(* Nothing on the way or told is ahead of the turn, and what it waits for  *)
(* is of the stage that it has reached.                                    *)
NotAhead(t) ==
  /\ \A p \in posts : p.turn = t =>
       PostStage(p) <= Reached(t) /\ (p.awaited => PostStage(p) = Reached(t))
  /\ \A i \in DOMAIN log : Tells(t, i) => Stage(log[i]) <= Reached(t)
  /\ at[t] \in {"idle", "never", "tools", "returned", "raised"} =>
       \A p \in posts : p.turn = t => ~p.awaited

Heard(t, k) == \E i \in DOMAIN log :
  Tells(t, i) /\ log[i].round = round[t] /\ log[i].name = "delta" /\ log[i].n = k
Coming(t, k) == \E p \in posts :
  p.turn = t /\ ~p.arrived /\ p.round = round[t] /\ p.what = "delta" /\ p.n = k
SaidCompleted(t) == \E last \in DOMAIN log :
  /\ Tells(t, last) /\ log[last].name = "completed"
  /\ \A i \in DOMAIN log : Tells(t, i) => i <= last

(* A turn that lost nothing waits for every post; each chunk was told or   *)
(* is on the way, and so is "completed" once the turn is about to return.  *)
InFull(t) ==
  /\ \A p \in posts : p.turn = t => p.awaited
  /\ \A k \in 1..chunks[t] : Heard(t, k) \/ Coming(t, k)
  /\ at[t] = "completing" =>
       /\ \A p \in posts : p.turn = t => p.what = "completed"
       /\ SaidCompleted(t) \/ \E p \in posts : p.turn = t /\ ~p.arrived
  /\ at[t] = "returned" => SaidCompleted(t)

Telling(t) == NotAhead(t) /\ (t \notin lost /\ at[t] # "raised" => InFull(t))

TurnInv == TurnTypes /\ (\A t \in Turns : Telling(t)) /\ ToldInStages

LEMMA StageIs ==
  ASSUME NEW e
  PROVE  Stage(e) = 3 * e.round + Part(e.name)
  BY DEF Stage, Part

(* What a step that publishes nothing keeps of a turn whose own variables, *)
(* posts and losses it leaves alone.                                       *)
LEMMA BystandersTell ==
  ASSUME NEW u \in Turns, Telling(u), log' = log,
         at'[u] = at[u], round'[u] = round[u], chunks'[u] = chunks[u],
         \A p : p.turn = u => (p \in posts' <=> p \in posts),
         u \in lost' <=> u \in lost
  PROVE  Telling(u)'
<1>1. Reached(u)' = Reached(u)
  BY DEF Reached
<1>2. NotAhead(u)'
  BY <1>1 DEF Telling, NotAhead, Tells
<1>3. ASSUME u \notin lost', at'[u] # "raised" PROVE InFull(u)'
  <2>1. InFull(u)
    BY <1>3 DEF Telling
  <2>2. SaidCompleted(u) => SaidCompleted(u)'
    BY DEF SaidCompleted, Tells
  <2>3. ASSUME NEW k \in 1..chunks[u] PROVE Heard(u, k)' \/ Coming(u, k)'
    <3>1. CASE Heard(u, k)
      BY <3>1 DEF Heard, Tells
    <3>2. CASE Coming(u, k)
      BY <3>2 DEF Coming
    <3> QED
      BY <2>1, <2>3, <3>1, <3>2 DEF InFull
  <2>4. \A p \in posts' : p.turn = u => p \in posts
    OBVIOUS
  <2>5. (\E p \in posts : p.turn = u /\ ~p.arrived) => \E p \in posts' : p.turn = u /\ ~p.arrived
    OBVIOUS
  <2> QED
    BY <2>1, <2>2, <2>3, <2>4, <2>5 DEF InFull
<1> QED
  BY <1>2, <1>3 DEF Telling


LEMMA ToldIsOwn ==
  ASSUME TurnTypes, NEW i \in DOMAIN log, log[i].mine
  PROVE  log[i] \in Own /\ Stage(log[i]) \in Nat
<1>1. log[i] \in Own \cup Others
  BY DEF TurnTypes
<1>2. log[i] \in Own
  BY <1>1 DEF Others
<1>3. log[i].round \in Nat /\ Part(log[i].name) \in Nat
  BY <1>2 DEF Own, Part
<1>4. 3 * log[i].round + Part(log[i].name) \in Nat
  BY <1>3
<1> QED
  BY <1>2, <1>4, StageIs

(* A turn that goes on without a post: to a stage beyond the one that it   *)
(* has reached only when it waits for nothing.                             *)
LEMMA MovesTell ==
  ASSUME TurnTypes, NEW t \in Turns, Telling(t), NEW place \in Places, at[t] # "raised",
         Goes(t, place), UNCHANGED <<round, chunks, posts, lost, log>>,
         PartOf(place) >= PartOf(at[t]),
         PartOf(place) = PartOf(at[t]) \/ Awaited(t) = {},
         place \notin {"idle", "never", "completing", "raised"},
         place \in {"tools", "returned"} => Awaited(t) = {},
         place = "returned" => at[t] = "completing"
  PROVE  Telling(t)'
<1>1. at'[t] = place
  BY DEF Goes, TurnTypes
<1>2. round[t] \in Nat /\ PartOf(at[t]) \in 0..2 /\ PartOf(place) \in 0..2
  BY DEF TurnTypes, PartOf
<1>3. Reached(t) \in Nat /\ Reached(t)' \in Nat /\ Reached(t) <= Reached(t)'
  BY <1>1, <1>2 DEF Reached
<1>4. \A p \in posts : p.turn = t /\ p.awaited => Reached(t)' = Reached(t)
  BY <1>1 DEF Awaited, Reached
<1>5. NotAhead(t)'
  <2>1. ASSUME NEW p \in posts, p.turn = t
        PROVE  PostStage(p) <= Reached(t)' /\ (p.awaited => PostStage(p) = Reached(t)')
    <3>1. PostStage(p) \in Nat
      BY DEF TurnTypes, Requests, PostStage, Part
    <3> QED
      BY <1>3, <1>4, <2>1, <3>1 DEF Telling, NotAhead
  <2>2. ASSUME NEW i \in DOMAIN log, Tells(t, i) PROVE Stage(log[i]) <= Reached(t)'
    <3>1. Stage(log[i]) \in Nat
      BY <2>2, ToldIsOwn DEF Tells
    <3> QED
      BY <1>3, <2>2, <3>1 DEF Telling, NotAhead
  <2>3. at'[t] \in {"idle", "never", "tools", "returned", "raised"} =>
          \A p \in posts : p.turn = t => ~p.awaited
    BY <1>1 DEF Awaited
  <2> QED
    BY <2>1, <2>2, <2>3 DEF NotAhead, Tells
<1>6. ASSUME t \notin lost PROVE InFull(t)'
  <2>1. InFull(t)
    BY <1>6 DEF Telling
  <2>2. ASSUME place = "returned" PROVE SaidCompleted(t)
    BY <2>1, <2>2 DEF InFull, Awaited
  <2> QED
    BY <1>1, <2>1, <2>2 DEF InFull, SaidCompleted, Heard, Coming, Tells
<1> QED
  BY <1>5, <1>6 DEF Telling

(* A turn that waits for nothing and posts a status of a later stage.      *)
LEMMA StatusTells ==
  ASSUME TurnTypes, NEW t \in Turns, Telling(t), at[t] # "raised", Awaited(t) = {},
         NEW place \in {"opening", "calling", "completing"}, NEW r \in Nat, NEW what \in Whats,
         Goes(t, place), PushStatus(t, r, what),
         round'[t] = r, UNCHANGED <<lost, log>>,
         Part(what) = PartOf(place), 3 * r + Part(what) >= Reached(t),
         chunks'[t] = 0 \/ (r = round[t] /\ chunks'[t] = chunks[t]),
         place = "completing" => what = "completed"
  PROVE  Telling(t)'
<1> DEFINE new == Post(t, r, what, 0)
<1>1. at'[t] = place /\ posts' = posts \cup {new}
  BY DEF Goes, TurnTypes, PushStatus
<1>2. new.turn = t /\ new.round = r /\ new.what = what /\ ~new.arrived /\ new.awaited
  BY DEF Post
<1> HIDE DEF new
<1>3. Reached(t)' = 3 * r + Part(what) /\ PostStage(new) = Reached(t)'
  BY <1>1, <1>2 DEF Reached, PostStage
<1>4. Reached(t) \in Nat /\ Reached(t)' \in Nat /\ Reached(t) <= Reached(t)'
  <2>1. round[t] \in Nat /\ PartOf(at[t]) \in Nat /\ Part(what) \in Nat
    BY DEF TurnTypes, PartOf, Part
  <2> QED
    BY <1>3, <2>1 DEF Reached
<1>5. NotAhead(t)'
  <2>1. ASSUME NEW p \in posts', p.turn = t
        PROVE  PostStage(p) <= Reached(t)' /\ (p.awaited => PostStage(p) = Reached(t)')
    <3>1. CASE p = new
      BY <1>3, <1>4, <3>1
    <3>2. CASE p \in posts
      <4>1. PostStage(p) \in Nat /\ ~p.awaited
        BY <2>1, <3>2 DEF TurnTypes, Requests, PostStage, Part, Awaited
      <4> QED
        BY <1>4, <2>1, <3>2, <4>1 DEF Telling, NotAhead
    <3> QED
      BY <1>1, <3>1, <3>2
  <2>2. ASSUME NEW i \in DOMAIN log, Tells(t, i) PROVE Stage(log[i]) <= Reached(t)'
    <3>1. Stage(log[i]) \in Nat
      BY <2>2, ToldIsOwn DEF Tells
    <3> QED
      BY <1>4, <2>2, <3>1 DEF Telling, NotAhead
  <2> QED
    BY <1>1, <2>1, <2>2 DEF NotAhead, Tells
<1>6. ASSUME t \notin lost PROVE InFull(t)'
  <2>1. InFull(t)
    BY <1>6 DEF Telling
  <2>2. \A p \in posts : p.turn # t
    BY <2>1 DEF InFull, Awaited
  <2>3. \A p \in posts' : p.turn = t => p = new
    BY <1>1, <2>2
  <2>4. ASSUME NEW k \in 1..chunks'[t] PROVE Heard(t, k)'
    <3>1. k \in 1..chunks[t] /\ r = round[t]
      BY <2>4
    <3>2. Heard(t, k)
      BY <2>1, <2>2, <3>1 DEF InFull, Coming
    <3> QED
      BY <3>1, <3>2 DEF Heard, Tells
  <2>5. new \in posts'
    BY <1>1
  <2> QED
    BY <1>1, <1>2, <2>3, <2>4, <2>5 DEF InFull
<1> QED
  BY <1>5, <1>6 DEF Telling

LEMMA ChunkTells ==
  ASSUME TurnTypes, NEW t \in Turns, Telling(t), Chunk(t), log' = log
  PROVE  Telling(t)'
<1> DEFINE new == Post(t, round[t], "delta", chunks[t] + 1)
<1>1. /\ at[t] = "streaming" /\ at' = at /\ round' = round /\ lost' = lost
      /\ posts' = posts \cup {new}
      /\ chunks' = [chunks EXCEPT ![t] = chunks[t] + 1]
  BY DEF Chunk
<1>2. new.turn = t /\ new.round = round[t] /\ new.what = "delta" /\ new.n = chunks[t] + 1
      /\ ~new.arrived /\ new.awaited
  BY DEF Post
<1> HIDE DEF new
<1>3. Reached(t)' = Reached(t) /\ PostStage(new) = Reached(t)
  <2>1. PartOf(at[t]) = 1 /\ Part(new.what) = 1
    BY <1>1, <1>2 DEF PartOf, Part
  <2> QED
    BY <1>1, <1>2, <2>1 DEF Reached, PostStage
<1>4. Reached(t) \in Nat /\ chunks[t] \in Nat /\ chunks'[t] = chunks[t] + 1
  <2>1. round[t] \in Nat /\ PartOf(at[t]) \in Nat
    BY DEF TurnTypes, PartOf
  <2>2. Reached(t) \in Nat
    BY <2>1 DEF Reached
  <2> QED
    BY <1>1, <2>2 DEF TurnTypes
<1>5. NotAhead(t)'
  <2>1. \A p \in posts' : p.turn = t => PostStage(p) <= Reached(t) /\ (p.awaited => PostStage(p) = Reached(t))
    BY <1>1, <1>3, <1>4 DEF Telling, NotAhead
  <2> QED
    BY <1>1, <1>3, <2>1 DEF Telling, NotAhead, Tells
<1>6. ASSUME t \notin lost PROVE InFull(t)'
  <2>1. InFull(t)
    BY <1>1, <1>6 DEF Telling
  <2>2. ASSUME NEW k \in 1..chunks'[t] PROVE Heard(t, k)' \/ Coming(t, k)'
    <3>1. CASE k = chunks[t] + 1
      BY <1>1, <1>2, <3>1 DEF Coming
    <3>2. CASE k # chunks[t] + 1
      <4>1. k \in 1..chunks[t]
        BY <1>4, <3>2
      <4>2. CASE Heard(t, k)
        BY <1>1, <4>2 DEF Heard, Tells
      <4>3. CASE Coming(t, k)
        BY <1>1, <4>3 DEF Coming
      <4> QED
        BY <2>1, <4>1, <4>2, <4>3 DEF InFull
    <3> QED
      BY <3>1, <3>2
  <2> QED
    BY <1>1, <1>2, <2>1, <2>2 DEF InFull
<1> QED
  BY <1>1, <1>5, <1>6 DEF Telling

(* What a turn that raises leaves of a post.                               *)
LEMMA LeftAlone ==
  ASSUME TurnTypes, NEW t, Raise(t)
  PROVE  /\ \A p \in posts' : p \in Requests
         /\ \A p \in posts' : p.turn = t =>
              ~p.awaited /\ \E q \in posts : q.turn = t /\ q.round = p.round /\ q.what = p.what
         /\ \A p : p.turn # t => (p \in posts' <=> p \in posts)
<1>1. posts' = {IF p \in Awaited(t) THEN [p EXCEPT !.awaited = FALSE] ELSE p : p \in posts}
  BY DEF Raise
<1> DEFINE left(p) == IF p \in Awaited(t) THEN [p EXCEPT !.awaited = FALSE] ELSE p
<1>2. ASSUME NEW p \in posts
      PROVE  /\ left(p) \in Requests /\ left(p).turn = p.turn
             /\ left(p).round = p.round /\ left(p).what = p.what
             /\ p.turn = t => ~left(p).awaited
             /\ p.turn # t => left(p) = p
  <2>1. p \in Requests
    BY DEF TurnTypes
  <2>2. CASE p \in Awaited(t)
    BY <2>1, <2>2 DEF Requests, Awaited
  <2>3. CASE p \notin Awaited(t)
    BY <2>1, <2>3 DEF Requests, Awaited
  <2> QED
    BY <2>2, <2>3
<1>3. posts' = {left(p) : p \in posts}
  BY <1>1
<1> HIDE DEF left
<1> QED
  BY <1>2, <1>3

LEMMA RaiseTells ==
  ASSUME TurnTypes, NEW t \in Turns, Telling(t), Raise(t), log' = log
  PROVE  Telling(t)'
<1>1. at'[t] = "raised" /\ round' = round
  BY DEF Raise, Goes, TurnTypes
<1>2. Reached(t) \in Nat /\ Reached(t)' \in Nat /\ Reached(t) <= Reached(t)'
  <2>1. round[t] \in Nat /\ PartOf(at[t]) \in 0..2 /\ PartOf(at[t])' = 2
    BY <1>1 DEF TurnTypes, PartOf
  <2> QED
    BY <1>1, <2>1 DEF Reached
<1>3. ASSUME NEW p \in posts', p.turn = t PROVE PostStage(p) <= Reached(t)' /\ ~p.awaited
  <2>1. PICK q \in posts : q.turn = t /\ q.round = p.round /\ q.what = p.what
    BY <1>3, LeftAlone
  <2>2. PostStage(p) = PostStage(q)
    BY <2>1 DEF PostStage
  <2>3. PostStage(q) <= Reached(t)
    BY <2>1 DEF Telling, NotAhead
  <2>4. PostStage(q) \in Nat
    BY DEF TurnTypes, Requests, PostStage, Part
  <2> QED
    BY <1>2, <1>3, <2>2, <2>3, <2>4, LeftAlone
<1>4. ASSUME NEW i \in DOMAIN log, Tells(t, i) PROVE Stage(log[i]) <= Reached(t)'
  <2>1. Stage(log[i]) \in Nat
    BY <1>4, ToldIsOwn DEF Tells
  <2> QED
    BY <1>2, <1>4, <2>1 DEF Telling, NotAhead
<1> QED
  BY <1>1, <1>3, <1>4 DEF Telling, NotAhead, Tells

(* A step of a turn leaves the others to themselves.                       *)
LEMMA TurnLeaves ==
  ASSUME TurnTypes, NEW t \in Turns, Turn(t), NEW u \in Turns, u # t
  PROVE  /\ at'[u] = at[u] /\ round'[u] = round[u] /\ chunks'[u] = chunks[u]
         /\ \A p : p.turn = u => (p \in posts' <=> p \in posts)
         /\ lost' = lost
<1>0. /\ at \in [Turns -> Places] /\ round \in [Turns -> Nat] /\ chunks \in [Turns -> Nat]
  BY DEF TurnTypes
<1>1. \A r, what, n : Post(t, r, what, n).turn = t
  BY DEF Post
<1>2. CASE Iterate(t)
  <2>1. /\ \E place : at' = [at EXCEPT ![t] = place]
        /\ round' \in {round, [round EXCEPT ![t] = round[t] + 1]}
        /\ chunks' \in {chunks, [chunks EXCEPT ![t] = 0]}
        /\ \E r, what : posts' = posts \cup {Post(t, r, what, 0)}
        /\ lost' = lost
    BY <1>2 DEF Iterate, Goes, PushStatus
  <2> QED
    BY <1>0, <1>1, <2>1
<1>3. CASE CloseRound(t)
  <2>1. /\ \E place : at' = [at EXCEPT ![t] = place]
        /\ \E r, what : posts' = posts \cup {Post(t, r, what, 0)}
        /\ round' = round /\ chunks' = chunks /\ lost' = lost
    BY <1>3 DEF CloseRound, Goes, PushStatus
  <2> QED
    BY <1>0, <1>1, <2>1
<1>4. CASE Chunk(t)
  <2>1. /\ posts' = posts \cup {Post(t, round[t], "delta", chunks[t] + 1)}
        /\ chunks' = [chunks EXCEPT ![t] = chunks[t] + 1]
        /\ at' = at /\ round' = round /\ lost' = lost
    BY <1>4 DEF Chunk
  <2> QED
    BY <1>0, <1>1, <2>1
<1>5. CASE Raise(t)
  <2>1. at' = [at EXCEPT ![t] = "raised"] /\ round' = round /\ chunks' = chunks /\ lost' = lost
    BY <1>5 DEF Raise, Goes
  <2>2. \A p : p.turn = u => (p \in posts' <=> p \in posts)
    BY <1>5, LeftAlone
  <2> QED
    BY <1>0, <2>1, <2>2
<1>6. CASE OpenStream(t) \/ EndStream(t) \/ CallTools(t) \/ Return(t)
  <2>1. /\ \E place : at' = [at EXCEPT ![t] = place]
        /\ round' = round /\ chunks' = chunks /\ lost' = lost /\ posts' = posts
    BY <1>6 DEF OpenStream, EndStream, CallTools, Return, Goes
  <2> QED
    BY <1>0, <2>1
<1> QED
  BY <1>2, <1>3, <1>4, <1>5, <1>6 DEF Turn

LEMMA TurnTells ==
  ASSUME TurnTypes, NEW t \in Turns, Telling(t), Turn(t), log' = log
  PROVE  Telling(t)'
<1>0. /\ at[t] \in Places /\ round[t] \in Nat /\ chunks[t] \in Nat
      /\ PartOf(at[t]) \in 0..2
  BY DEF TurnTypes, PartOf
<1>1. CASE Iterate(t)
  <2>1. at[t] \in {"idle", "tools"} /\ lost' = lost /\ PartOf(at[t]) = 2
    BY <1>1 DEF Iterate, PartOf
  <2>2. Awaited(t) = {}
    BY <2>1 DEF Telling, NotAhead, Awaited
  <2>3. CASE round[t] < MaxIterations
    <3>1. /\ round' = [round EXCEPT ![t] = round[t] + 1]
          /\ chunks' = [chunks EXCEPT ![t] = 0]
          /\ PushStatus(t, round[t] + 1, "streaming")
          /\ Goes(t, "opening")
      BY <1>1, <2>3 DEF Iterate
    <3>2. round'[t] = round[t] + 1 /\ chunks'[t] = 0 /\ round[t] + 1 \in Nat
      BY <1>0, <3>1 DEF TurnTypes
    <3>3. Part("streaming") = 0 /\ PartOf("opening") = 0
      BY DEF Part, PartOf
    <3>4. 3 * (round[t] + 1) + 0 >= Reached(t)
      BY <1>0, <2>1 DEF Reached
    <3> QED
      BY <2>1, <2>2, <3>1, <3>2, <3>3, <3>4, StatusTells DEF Whats
  <2>4. CASE ~(round[t] < MaxIterations)
    <3>1. /\ PushStatus(t, round[t], "completed") /\ Goes(t, "completing")
          /\ round' = round /\ chunks' = chunks
      BY <1>1, <2>4 DEF Iterate
    <3>2. Part("completed") = 2 /\ PartOf("completing") = 2
      BY DEF Part, PartOf
    <3>3. 3 * round[t] + 2 >= Reached(t)
      BY <1>0, <2>1 DEF Reached
    <3> QED
      BY <1>0, <2>1, <2>2, <3>1, <3>2, <3>3, StatusTells DEF Whats
  <2> QED
    BY <2>3, <2>4
<1>2. CASE CloseRound(t)
  <2>1. PICK what \in {"completed", "tool_calling"} :
          /\ PushStatus(t, round[t], what)
          /\ Goes(t, IF what = "completed" THEN "completing" ELSE "calling")
    BY <1>2 DEF CloseRound
  <2>2. /\ at[t] = "draining" /\ Awaited(t) = {} /\ PartOf(at[t]) = 1
        /\ round' = round /\ chunks' = chunks /\ lost' = lost
    BY <1>2 DEF CloseRound, Drained, PartOf
  <2> DEFINE place == IF what = "completed" THEN "completing" ELSE "calling"
  <2>3. /\ Part(what) = 2 /\ PartOf(place) = 2 /\ what \in Whats
        /\ place \in {"opening", "calling", "completing"}
        /\ place = "completing" => what = "completed"
    BY DEF Part, PartOf, Whats
  <2>4. 3 * round[t] + 2 >= Reached(t)
    BY <1>0, <2>2 DEF Reached
  <2>5. Goes(t, place)
    BY <2>1
  <2> HIDE DEF place
  <2> QED
    BY <1>0, <2>1, <2>2, <2>3, <2>4, <2>5, StatusTells
<1>3. CASE OpenStream(t)
  <2>1. PartOf("streaming") = 1 /\ PartOf(at[t]) = 0
    BY <1>3 DEF PartOf, OpenStream
  <2> QED
    BY <1>3, <2>1, MovesTell DEF OpenStream, Places
<1>4. CASE EndStream(t)
  <2>1. PartOf("draining") = 1 /\ PartOf(at[t]) = 1
    BY <1>4 DEF PartOf, EndStream
  <2> QED
    BY <1>4, <2>1, MovesTell DEF EndStream, Places
<1>5. CASE CallTools(t)
  <2>1. PartOf("tools") = 2 /\ PartOf(at[t]) = 2
    BY <1>5 DEF PartOf, CallTools
  <2> QED
    BY <1>5, <2>1, MovesTell DEF CallTools, Places
<1>6. CASE Return(t)
  <2>1. PartOf("returned") = 2 /\ PartOf(at[t]) = 2
    BY <1>6 DEF PartOf, Return
  <2> QED
    BY <1>6, <2>1, MovesTell DEF Return, Places
<1> QED
  BY <1>1, <1>2, <1>3, <1>4, <1>5, <1>6, ChunkTells, RaiseTells DEF Turn

LEMMA TurnTyped ==
  ASSUME TurnTypes, NEW t \in Turns, Turn(t), log' = log
  PROVE  TurnTypes'
<1>0. /\ at \in [Turns -> Places] /\ round \in [Turns -> Nat] /\ chunks \in [Turns -> Nat]
      /\ posts \subseteq Requests
  BY DEF TurnTypes
<1>1. \A r \in Nat, what \in Whats, n \in Nat : Post(t, r, what, n) \in Requests
  BY DEF Post, Requests
<1>2. CASE Iterate(t)
  <2>1. round[t] + 1 \in Nat /\ round[t] \in Nat
    BY <1>0
  <2>2. /\ at' \in [Turns -> Places] /\ round' \in [Turns -> Nat] /\ chunks' \in [Turns -> Nat]
    BY <1>0, <1>2, <2>1 DEF Iterate, Goes, Places
  <2>3. posts' \in {posts \cup {Post(t, round[t] + 1, "streaming", 0)},
                    posts \cup {Post(t, round[t], "completed", 0)}}
    BY <1>2 DEF Iterate, PushStatus
  <2>4. "streaming" \in Whats /\ "completed" \in Whats
    BY DEF Whats
  <2>5. posts' \subseteq Requests
    BY <1>0, <1>1, <2>1, <2>3, <2>4
  <2> QED
    BY <2>2, <2>5 DEF TurnTypes
<1>3. CASE CloseRound(t)
  <2>1. PICK what \in {"completed", "tool_calling"} :
          /\ posts' = posts \cup {Post(t, round[t], what, 0)}
          /\ at' = [at EXCEPT ![t] = IF what = "completed" THEN "completing" ELSE "calling"]
    BY <1>3 DEF CloseRound, PushStatus, Goes
  <2>2. at' \in [Turns -> Places]
    BY <1>0, <2>1 DEF Places
  <2>3. posts' \subseteq Requests
    BY <1>0, <1>1, <2>1 DEF Whats
  <2> QED
    BY <1>3, <2>2, <2>3 DEF TurnTypes, CloseRound
<1>4. CASE Chunk(t)
  <2>1. chunks[t] + 1 \in Nat /\ "delta" \in Whats /\ round[t] \in Nat
    BY <1>0 DEF Whats
  <2>2. posts' = posts \cup {Post(t, round[t], "delta", chunks[t] + 1)}
    BY <1>4 DEF Chunk
  <2>3. posts' \subseteq Requests
    BY <1>0, <1>1, <2>1, <2>2
  <2>4. chunks' \in [Turns -> Nat]
    BY <1>0, <1>4, <2>1 DEF Chunk
  <2> QED
    BY <1>4, <2>3, <2>4 DEF TurnTypes, Chunk
<1>5. CASE Raise(t)
  <2>1. posts' \subseteq Requests
    BY <1>5, LeftAlone
  <2>2. at' \in [Turns -> Places]
    BY <1>0, <1>5 DEF Raise, Goes, Places
  <2> QED
    BY <1>5, <2>1, <2>2 DEF TurnTypes, Raise
<1>6. CASE OpenStream(t) \/ EndStream(t) \/ CallTools(t) \/ Return(t)
  <2>1. at' \in [Turns -> Places]
    BY <1>0, <1>6 DEF OpenStream, EndStream, CallTools, Return, Goes, Places
  <2> QED
    BY <1>6, <2>1 DEF TurnTypes, OpenStream, EndStream, CallTools, Return
<1> QED
  BY <1>2, <1>3, <1>4, <1>5, <1>6 DEF Turn

LEMMA TurnKeeps ==
  ASSUME TurnInv, NEW t \in Turns, Turn(t), log' = log
  PROVE  TurnInv'
<1>1. TurnTypes'
  BY TurnTyped DEF TurnInv
<1>2. ASSUME NEW u \in Turns PROVE Telling(u)'
  <2>1. CASE u = t
    BY <2>1, TurnTells DEF TurnInv
  <2>2. CASE u # t
    <3>1. /\ at'[u] = at[u] /\ round'[u] = round[u] /\ chunks'[u] = chunks[u]
          /\ \A p : p.turn = u => (p \in posts' <=> p \in posts)
          /\ lost' = lost
      BY <2>2, TurnLeaves DEF TurnInv
    <3> QED
      BY <3>1, BystandersTell DEF TurnInv
  <2> QED
    BY <2>1, <2>2
<1>3. ToldInStages'
  BY DEF TurnInv, ToldInStages
<1> QED
  BY <1>1, <1>2, <1>3 DEF TurnInv

(* Posts that are answered, fail or are given up.                          *)
LEMMA PostsTell ==
  ASSUME NEW u \in Turns, Telling(u), log' = log,
         at' = at, round' = round, chunks' = chunks, lost \subseteq lost',
         \A p \in posts' : \E q \in posts :
           q.turn = p.turn /\ q.round = p.round /\ q.what = p.what /\ (p.awaited => q.awaited),
         u \notin lost' => \A p : p.turn = u =>
           (p \in posts' => p \in posts) /\ (p \in posts /\ ~p.arrived => p \in posts')
  PROVE  Telling(u)'
<1>1. Reached(u)' = Reached(u)
  BY DEF Reached
<1>2. ASSUME NEW p \in posts', p.turn = u
      PROVE  /\ PostStage(p) <= Reached(u) /\ (p.awaited => PostStage(p) = Reached(u))
             /\ at[u] \in {"idle", "never", "tools", "returned", "raised"} => ~p.awaited
  <2>1. PICK q \in posts :
          q.turn = p.turn /\ q.round = p.round /\ q.what = p.what /\ (p.awaited => q.awaited)
    OBVIOUS
  <2>2. PostStage(p) = PostStage(q)
    BY <2>1 DEF PostStage
  <2> QED
    BY <1>2, <2>1, <2>2 DEF Telling, NotAhead
<1>3. NotAhead(u)'
  BY <1>1, <1>2 DEF Telling, NotAhead, Tells
<1>4. ASSUME u \notin lost', at[u] # "raised" PROVE InFull(u)'
  <2>1. InFull(u)
    BY <1>4 DEF Telling
  <2>2. \A p : p.turn = u =>
          (p \in posts' => p \in posts) /\ (p \in posts /\ ~p.arrived => p \in posts')
    BY <1>4
  <2>3. ASSUME NEW k \in 1..chunks[u] PROVE Heard(u, k)' \/ Coming(u, k)'
    <3>1. CASE Heard(u, k)
      BY <3>1 DEF Heard, Tells
    <3>2. CASE Coming(u, k)
      BY <2>2, <3>2 DEF Coming
    <3> QED
      BY <2>1, <3>1, <3>2 DEF InFull
  <2>4. SaidCompleted(u)' <=> SaidCompleted(u)
    BY DEF SaidCompleted, Tells
  <2>5. \A p \in posts' : p.turn = u => p \in posts
    BY <2>2
  <2>6. (\E p \in posts : p.turn = u /\ ~p.arrived) => \E p \in posts' : p.turn = u /\ ~p.arrived
    BY <2>2
  <2> QED
    BY <2>1, <2>3, <2>4, <2>5, <2>6 DEF InFull
<1> QED
  BY <1>3, <1>4 DEF Telling

LEMMA PostStepKeeps ==
  ASSUME TurnInv, NEW p \in posts, Answered(p) \/ PostFails(p) \/ GiveUp(p), log' = log
  PROVE  TurnInv'
<1> DEFINE given == [p EXCEPT !.awaited = FALSE]
<1>0. p \in Requests
  BY DEF TurnInv, TurnTypes
<1>1. /\ given \in Requests
      /\ given.turn = p.turn /\ given.round = p.round /\ given.what = p.what /\ ~given.awaited
  BY <1>0 DEF Requests
<1>2. /\ at' = at /\ round' = round /\ chunks' = chunks
      /\ posts' \in {posts \ {p}, (posts \ {p}) \cup {given}}
      /\ \/ lost' = lost /\ p.arrived /\ posts' = posts \ {p}
         \/ lost' = lost \cup {p.turn}
  BY DEF Answered, PostFails, GiveUp
<1> HIDE DEF given
<1>3. ASSUME NEW q \in posts'
      PROVE  \E r \in posts :
               r.turn = q.turn /\ r.round = q.round /\ r.what = q.what /\ (q.awaited => r.awaited)
  BY <1>1, <1>2, <1>3
<1>4. ASSUME NEW u \in Turns, u \notin lost'
      PROVE  \A q : q.turn = u =>
               (q \in posts' => q \in posts) /\ (q \in posts /\ ~q.arrived => q \in posts')
  BY <1>1, <1>2, <1>4
<1>5. lost \subseteq lost'
  BY <1>2
<1>6. \A u \in Turns : Telling(u)'
  BY <1>2, <1>3, <1>4, <1>5, PostsTell DEF TurnInv
<1>7. TurnTypes'
  BY <1>1, <1>2 DEF TurnInv, TurnTypes
<1>8. ToldInStages'
  BY DEF TurnInv, ToldInStages
<1> QED
  BY <1>6, <1>7, <1>8 DEF TurnInv

(* An event e is published at the end of the log.                          *)
LEMMA LogGrows ==
  ASSUME TurnTypes, NEW e \in Own \cup Others, log' = Append(log, e)
  PROVE  /\ log' \in Seq(Own \cup Others)
         /\ Len(log) \in Nat /\ DOMAIN log = 1..Len(log)
         /\ DOMAIN log' = DOMAIN log \cup {Len(log) + 1}
         /\ \A i \in DOMAIN log : i <= Len(log) /\ i \in Nat /\ log'[i] = log[i]
         /\ log'[Len(log) + 1] = e
  BY DEF TurnTypes

(* A turn that does not tell of e: all that was told of it stays.          *)
LEMMA OthersTell ==
  ASSUME TurnTypes, NEW u \in Turns, Telling(u), NEW e \in Own \cup Others, log' = Append(log, e),
         ~(e.mine /\ e.turn = u), at' = at, round' = round, chunks' = chunks, lost' = lost,
         \A p : p.turn = u => (p \in posts' <=> p \in posts)
  PROVE  Telling(u)'
<1>1. ASSUME NEW i
      PROVE  (i \in DOMAIN log' /\ Tells(u, i)') <=> (i \in DOMAIN log /\ Tells(u, i))
  BY LogGrows DEF Tells
<1>2. \A i \in DOMAIN log : log'[i] = log[i]
  BY LogGrows
<1>3. Reached(u)' = Reached(u)
  BY DEF Reached
<1>4. NotAhead(u)'
  <2>1. \A i \in DOMAIN log' : Tells(u, i)' => Stage(log'[i]) <= Reached(u)
    BY <1>1, <1>2 DEF Telling, NotAhead
  <2>2. \A p \in posts' : p.turn = u =>
          /\ PostStage(p) <= Reached(u) /\ (p.awaited => PostStage(p) = Reached(u))
          /\ at[u] \in {"idle", "never", "tools", "returned", "raised"} => ~p.awaited
    BY DEF Telling, NotAhead
  <2> QED
    BY <1>3, <2>1, <2>2 DEF NotAhead
<1>5. ASSUME u \notin lost, at[u] # "raised" PROVE InFull(u)'
  <2>1. InFull(u)
    BY <1>5 DEF Telling
  <2>2. SaidCompleted(u) => SaidCompleted(u)'
    BY <1>1, <1>2 DEF SaidCompleted
  <2>3. ASSUME NEW k \in 1..chunks[u] PROVE Heard(u, k)' \/ Coming(u, k)'
    <3>1. CASE Heard(u, k)
      BY <1>1, <1>2, <3>1 DEF Heard
    <3>2. CASE Coming(u, k)
      BY <3>2 DEF Coming
    <3> QED
      BY <2>1, <3>1, <3>2 DEF InFull
  <2>4. \A p \in posts' : p.turn = u => p \in posts
    OBVIOUS
  <2>5. (\E p \in posts : p.turn = u /\ ~p.arrived) => \E p \in posts' : p.turn = u /\ ~p.arrived
    OBVIOUS
  <2> QED
    BY <2>1, <2>2, <2>3, <2>4, <2>5 DEF InFull
<1> QED
  BY <1>4, <1>5 DEF Telling

(* Stages stay in order when e, if it is told in time, is of the stage     *)
(* that its turn has reached.                                              *)
LEMMA StagesGrow ==
  ASSUME TurnInv, NEW e \in Own \cup Others, log' = Append(log, e),
         e.mine /\ ~e.late => Stage(e) = Reached(e.turn)
  PROVE  ToldInStages'
<1> SUFFICES ASSUME NEW i \in DOMAIN log', NEW j \in DOMAIN log', i < j,
                    log'[i].mine, log'[j].mine, ~log'[j].late, log'[i].turn = log'[j].turn
             PROVE  Stage(log'[i]) <= Stage(log'[j])
  BY DEF ToldInStages
<1>1. i \in DOMAIN log /\ log'[i] = log[i]
  BY LogGrows DEF TurnInv
<1>2. CASE j \in DOMAIN log
  <2>1. log'[j] = log[j]
    BY <1>2, LogGrows DEF TurnInv
  <2> QED
    BY <1>1, <1>2, <2>1 DEF TurnInv, ToldInStages
<1>3. CASE j \notin DOMAIN log
  <2>1. log'[j] = e
    BY <1>3, LogGrows DEF TurnInv
  <2>2. Tells(e.turn, i) /\ e.turn \in Turns
    BY <1>1, <2>1, ToldIsOwn DEF Tells, TurnInv, Own
  <2> QED
    BY <1>1, <2>1, <2>2 DEF TurnInv, Telling, NotAhead
<1> QED
  BY <1>2, <1>3

LEMMA AnnounceKeeps ==
  ASSUME TurnInv, NEW k \in Containers,
         log' = Append(log, [name |-> "artifact", container |-> k, mine |-> FALSE]),
         UNCHANGED turnVars
  PROVE  TurnInv'
<1> DEFINE e == [name |-> "artifact", container |-> k, mine |-> FALSE]
<1>1. e \in Own \cup Others /\ ~e.mine
  BY DEF Others
<1> HIDE DEF e
<1>2. log' = Append(log, e)
  BY DEF e
<1>3. \A u \in Turns : Telling(u)'
  BY <1>1, <1>2, OthersTell DEF TurnInv, turnVars
<1>4. ToldInStages'
  BY <1>1, <1>2, StagesGrow
<1>5. TurnTypes'
  BY <1>1, <1>2, LogGrows DEF TurnInv, TurnTypes, turnVars
<1> QED
  BY <1>3, <1>4, <1>5 DEF TurnInv

(* A post p of turn u arrives: what was on the way is told.                *)
LEMMA ArriveTells ==
  ASSUME TurnTypes, NEW p \in posts, ~p.arrived, NEW e \in Own, log' = Append(log, e),
         e.turn = p.turn, e.round = p.round, e.name = p.what, e.n = p.n, e.mine, p.turn \in Turns,
         Telling(p.turn), at' = at, round' = round, chunks' = chunks, lost' = lost,
         posts' = IF p.awaited THEN (posts \ {p}) \cup {[p EXCEPT !.arrived = TRUE]}
                  ELSE posts \ {p}
  PROVE  Telling(p.turn)'
<1> DEFINE u == p.turn
           there == [p EXCEPT !.arrived = TRUE]
<1>0. p \in Requests
  BY DEF TurnTypes
<1>1. /\ there.turn = p.turn /\ there.round = p.round /\ there.what = p.what
      /\ there.arrived /\ there.awaited = p.awaited
  BY <1>0 DEF Requests
<1>2. posts' = IF p.awaited THEN (posts \ {p}) \cup {there} ELSE posts \ {p}
  OBVIOUS
<1> HIDE DEF there, u
<1>u. u = p.turn
  BY DEF u
<1>3. e \in Own \cup Others
  OBVIOUS
<1>4. /\ DOMAIN log' = DOMAIN log \cup {Len(log) + 1}
      /\ \A i \in DOMAIN log : i <= Len(log) /\ i \in Nat /\ log'[i] = log[i]
      /\ log'[Len(log) + 1] = e /\ Len(log) \in Nat
  BY <1>3, LogGrows
<1>5. Reached(u)' = Reached(u)
  BY DEF Reached
<1>6. PostStage(p) = Stage(e)
  BY StageIs DEF PostStage
<1>7. NotAhead(u)'
  <2>1. ASSUME NEW q \in posts', q.turn = u
        PROVE  /\ PostStage(q) <= Reached(u) /\ (q.awaited => PostStage(q) = Reached(u))
               /\ at[u] \in {"idle", "never", "tools", "returned", "raised"} => ~q.awaited
    <3>1. CASE q \in posts
      BY <1>u, <2>1, <3>1 DEF Telling, NotAhead
    <3>2. CASE q = there
      <4>1. PostStage(q) = PostStage(p)
        BY <1>1, <3>2 DEF PostStage
      <4> QED
        BY <1>1, <1>u, <3>2, <4>1 DEF Telling, NotAhead
    <3> QED
      BY <1>2, <3>1, <3>2
  <2>2. ASSUME NEW i \in DOMAIN log', Tells(u, i)' PROVE Stage(log'[i]) <= Reached(u)
    <3>1. CASE i \in DOMAIN log
      <4>1. log'[i] = log[i]
        BY <1>4, <3>1
      <4> QED
        BY <1>u, <2>2, <3>1, <4>1 DEF Telling, NotAhead, Tells
    <3>2. CASE i = Len(log) + 1
      BY <1>4, <1>6, <1>u, <3>2 DEF Telling, NotAhead
    <3> QED
      BY <1>4, <3>1, <3>2
  <2> QED
    BY <1>5, <2>1, <2>2 DEF NotAhead
<1>8. ASSUME u \notin lost, at[u] # "raised" PROVE InFull(u)'
  <2>1. InFull(u) /\ NotAhead(u)
    BY <1>8, <1>u DEF Telling
  <2>2. p.awaited /\ posts' = (posts \ {p}) \cup {there}
    BY <1>2, <1>u, <2>1 DEF InFull
  <2>3. \A q \in posts' : q.turn = u => q.awaited
    BY <1>1, <2>1, <2>2 DEF InFull
  <2>4. ASSUME NEW k \in 1..chunks[u] PROVE Heard(u, k)' \/ Coming(u, k)'
    <3>1. CASE Heard(u, k)
      <4>1. PICK i \in DOMAIN log :
              Tells(u, i) /\ log[i].round = round[u] /\ log[i].name = "delta" /\ log[i].n = k
        BY <3>1 DEF Heard
      <4>2. i \in DOMAIN log' /\ log'[i] = log[i]
        BY <1>4
      <4> QED
        BY <4>1, <4>2 DEF Heard, Tells
    <3>2. CASE Coming(u, k)
      <4>1. PICK q \in posts : q.turn = u /\ ~q.arrived /\ q.round = round[u] /\ q.what = "delta" /\ q.n = k
        BY <3>2 DEF Coming
      <4>2. CASE q = p
        <5>1. Len(log) + 1 \in DOMAIN log' /\ log'[Len(log) + 1] = e
          BY <1>4
        <5>2. Heard(u, k)'
          BY <1>u, <4>1, <4>2, <5>1 DEF Heard, Tells
        <5> QED
          BY <5>2
      <4>3. CASE q # p
        <5>1. q \in posts'
          BY <2>2, <4>3
        <5> QED
          BY <4>1, <5>1 DEF Coming
      <4> QED
        BY <4>2, <4>3
    <3> QED
      BY <2>1, <2>4, <3>1, <3>2 DEF InFull
  <2>5. ASSUME at[u] = "completing"
        PROVE  (\A q \in posts' : q.turn = u => q.what = "completed") /\ SaidCompleted(u)'
    <3>1. \A q \in posts : q.turn = u => q.what = "completed"
      BY <2>1, <2>5 DEF InFull
    <3>2. e.name = "completed"
      BY <1>u, <3>1
    <3>3. SaidCompleted(u)'
      BY <1>4, <1>u, <3>2 DEF SaidCompleted, Tells
    <3> QED
      BY <1>1, <1>u, <2>2, <3>1, <3>3
  <2>6. at[u] # "returned"
    BY <1>u, <2>1, <2>2 DEF NotAhead
  <2> QED
    BY <2>3, <2>4, <2>5, <2>6 DEF InFull
<1>9. Telling(u)'
  BY <1>7, <1>8 DEF Telling
<1> QED
  BY <1>9, <1>u

LEMMA ArriveKeeps ==
  ASSUME TurnInv, NEW p \in posts, Arrive(p)
  PROVE  TurnInv'
<1> DEFINE e == [name |-> p.what, container |-> Chat, mine |-> TRUE,
                 turn |-> p.turn, round |-> p.round, n |-> p.n, late |-> ~p.awaited]
<1>0. p \in Requests
  BY DEF TurnInv, TurnTypes
<1>1. /\ log' = Append(log, e) /\ ~p.arrived
      /\ posts' = IF p.awaited THEN (posts \ {p}) \cup {[p EXCEPT !.arrived = TRUE]} ELSE posts \ {p}
      /\ at' = at /\ round' = round /\ chunks' = chunks /\ lost' = lost
  BY DEF Arrive, Publish
<1>2. e \in Own
  BY <1>0 DEF Requests, Own
<1>3. /\ e.turn = p.turn /\ e.round = p.round /\ e.name = p.what /\ e.n = p.n
      /\ e.mine /\ e.late = ~p.awaited
  OBVIOUS
<1> HIDE DEF e
<1>4. p.turn \in Turns /\ e \in Own \cup Others
  BY <1>0, <1>2 DEF Requests
<1>5. ASSUME NEW u \in Turns PROVE Telling(u)'
  <2>1. CASE u = p.turn
    <3>1. Telling(p.turn)
      BY <1>4 DEF TurnInv
    <3> QED
      BY <1>1, <1>2, <1>3, <1>4, <2>1, <3>1, ArriveTells DEF TurnInv
  <2>2. CASE u # p.turn
    <3>1. [p EXCEPT !.arrived = TRUE].turn = p.turn
      BY <1>0 DEF Requests
    <3>2. \A q : q.turn = u => (q \in posts' <=> q \in posts)
      BY <1>1, <2>2, <3>1
    <3> QED
      BY <1>1, <1>3, <1>4, <2>2, <3>2, OthersTell DEF TurnInv
  <2> QED
    BY <2>1, <2>2
<1>6. ToldInStages'
  <2>1. ASSUME ~e.late PROVE Stage(e) = Reached(e.turn)
    <3>1. PostStage(p) = Stage(e)
      BY <1>3, StageIs DEF PostStage
    <3>2. p.awaited
      BY <1>3, <2>1
    <3> QED
      BY <1>3, <1>4, <3>1, <3>2 DEF TurnInv, Telling, NotAhead
  <2> QED
    BY <1>1, <1>4, <2>1, StagesGrow
<1>7. TurnTypes'
  <2>1. [p EXCEPT !.arrived = TRUE] \in Requests
    BY <1>0 DEF Requests
  <2>2. posts' \subseteq Requests
    BY <1>1, <2>1 DEF TurnInv, TurnTypes
  <2>3. log' \in Seq(Own \cup Others)
    BY <1>1, <1>4, LogGrows DEF TurnInv
  <2> QED
    BY <1>1, <2>2, <2>3 DEF TurnInv, TurnTypes
<1> QED
  BY <1>5, <1>6, <1>7 DEF TurnInv

LEMMA TurnInvStays ==
  ASSUME TurnInv, UNCHANGED <<turnVars, log>>
  PROVE  TurnInv'
BY DEF TurnInv, TurnTypes, Telling, NotAhead, InFull, ToldInStages, turnVars,
       Reached, Heard, Coming, SaidCompleted, Tells

LEMMA TurnInvKept == TurnInv /\ [Next]_vars => TurnInv'
<1> SUFFICES ASSUME TurnInv, [Next]_vars PROVE TurnInv'
  OBVIOUS
<1>1. CASE Client /\ UNCHANGED turnVars
  <2>1. UNCHANGED log
    BY <1>1 DEF Client, AskSubscribe, AskUnsubscribe, OnOpen, Lose, OnClose, Reconnect, worldVars
  <2> QED
    BY <1>1, <2>1, TurnInvStays
<1>2. ASSUME NEW c \in Conns, Stream(c), UNCHANGED <<clientVars, turnVars>> PROVE TurnInv'
  <2>1. UNCHANGED log
    BY <1>2 DEF Stream, Subscribe, SubscribeAgain, Unsubscribe, Receives, Take, Send, SendFails,
                Disconnect, CloseAll, worldVars
  <2> QED
    BY <1>2, <2>1, TurnInvStays
<1>3. ASSUME NEW k \in Containers, ChangeGrant(k), UNCHANGED turnVars PROVE TurnInv'
  BY <1>3, TurnInvStays DEF ChangeGrant
<1>4. ASSUME NEW k \in Containers, Announce(k) PROVE TurnInv'
  BY <1>4, AnnounceKeeps DEF Announce, Publish
<1>5. ASSUME NEW t \in Turns, Turn(t), UNCHANGED <<clientVars, streamVars>> PROVE TurnInv'
  BY <1>5, TurnKeeps DEF streamVars, worldVars
<1>6. ASSUME NEW p \in posts, Answered(p), UNCHANGED <<clientVars, streamVars>> PROVE TurnInv'
  BY <1>6, PostStepKeeps DEF streamVars, worldVars
<1>7. ASSUME NEW p \in posts, PostFails(p) \/ GiveUp(p), Fails PROVE TurnInv'
  BY <1>7, PostStepKeeps DEF Fails
<1>8. ASSUME NEW p \in posts, Arrive(p) PROVE TurnInv'
  BY <1>8, ArriveKeeps
<1>9. CASE UNCHANGED vars
  BY <1>9, TurnInvStays DEF vars, streamVars, worldVars
<1> QED
  BY <1>1, <1>2, <1>3, <1>4, <1>5, <1>6, <1>7, <1>8, <1>9 DEF Next

LEMMA TurnInvStarts ==
  ASSUME Init
  PROVE  TurnInv
<1>1. /\ at \in [Turns -> {"idle", "never"}] /\ round \in [Turns -> 0..(MaxIterations - 1)]
      /\ chunks = [t \in Turns |-> 0] /\ posts = {} /\ lost = {} /\ log = <<>>
  BY DEF Init, TurnInit, StreamInit
<1>2. at \in [Turns -> Places] /\ round \in [Turns -> Nat]
  BY <1>1, TurnAssumption DEF Places
<1>3. TurnTypes
  BY <1>1, <1>2 DEF TurnTypes
<1>4. ASSUME NEW t \in Turns PROVE Telling(t)
  BY <1>1 DEF Telling, NotAhead, InFull
<1>5. ToldInStages
  BY <1>1 DEF ToldInStages
<1> QED
  BY <1>3, <1>4, <1>5 DEF TurnInv

(* What a chat turn tells is told stage by stage, but for the requests     *)
(* that were given up: no delta is published after "completed", for any    *)
(* number of turns, iterations and chunks and any posts that are late or   *)
(* fail.                                                                   *)
THEOREM TurnToldInStages == Spec => []ToldInStages
<1>1. TurnInv => ToldInStages
  BY DEF TurnInv
<1> QED
  BY <1>1, TurnInvStarts, TurnInvKept, PTL DEF Spec

(* A turn that returned with none of its posts lost or given up was told   *)
(* in full, "completed" last.                                              *)
THEOREM TurnToldInFull == Spec => []ToldInFull
<1>1. TurnInv => ToldInFull
  <2> SUFFICES ASSUME TurnInv, NEW t \in Turns, at[t] = "returned", t \notin lost
               PROVE  SaidCompleted(t) /\ \A k \in 1..chunks[t] : Heard(t, k)
    BY DEF ToldInFull, SaidCompleted, Heard
  <2>1. InFull(t) /\ NotAhead(t)
    BY DEF TurnInv, Telling
  <2>2. \A p \in posts : p.turn # t
    BY <2>1 DEF InFull, NotAhead
  <2> QED
    BY <2>1, <2>2 DEF InFull, Coming
<1> QED
  BY <1>1, TurnInvStarts, TurnInvKept, PTL DEF Spec

-----------------------------------------------------------------------------
(* The event stream: the frames sq of a connection and the queue q of a    *)
(* subscription, when lg is published                                      *)

FrameSet == [type : {"ack", "error", "unack", "event"}, id : SubIds, n : Nat]

IsEvent(f, id) == f.type = "event" /\ f.id = id

(* The event at place j comes after the ack at place i.                    *)
Acknowledges(sq, lg, i, j) ==
  /\ i < j
  /\ IsAck(sq[i], sq[j].id)
  /\ sq[i].n < sq[j].n
  /\ \A m \in (i + 1)..(j - 1) : sq[m] # Frame("unack", sq[j].id, 0)
  /\ Matches(FilterOf[sq[j].id], lg[sq[j].n])

Proper(sq, lg) ==
  \A j \in DOMAIN sq : sq[j].type = "event" =>
    sq[j].n \in DOMAIN lg /\ \E i \in DOMAIN sq : Acknowledges(sq, lg, i, j)

(* Subscription id stands since the ack at place k: what has been sent     *)
(* since and, behind it, what is in the queue are matching events from     *)
(* after the ack, in order, with all of the user's own among them.         *)
StandsFrom(k, sq, q, lg, id) ==
  /\ IsAck(sq[k], id)
  /\ \A m \in DOMAIN sq : m > k => sq[m] # Frame("unack", id, 0)
  /\ \A j \in DOMAIN q : q[j] \in DOMAIN lg /\ q[j] > sq[k].n /\ Matches(FilterOf[id], lg[q[j]])
  /\ \A i, j \in DOMAIN q : i < j => q[i] < q[j]
  /\ \A i \in DOMAIN sq : i > k /\ IsEvent(sq[i], id) =>
       /\ sq[i].n \in DOMAIN lg /\ sq[i].n > sq[k].n /\ Matches(FilterOf[id], lg[sq[i].n])
       /\ \A j \in DOMAIN q : sq[i].n < q[j]
  /\ \A i, j \in DOMAIN sq : k < i /\ i < j /\ IsEvent(sq[i], id) /\ IsEvent(sq[j], id) =>
       sq[i].n < sq[j].n
  /\ \A n \in DOMAIN lg : n > sq[k].n /\ lg[n].mine /\ Matches(FilterOf[id], lg[n]) =>
       \/ \E i \in DOMAIN sq : i > k /\ IsEvent(sq[i], id) /\ sq[i].n = n
       \/ \E j \in DOMAIN q : q[j] = n

Stands(sq, q, lg, id) == \E k \in DOMAIN sq : StandsFrom(k, sq, q, lg, id)

LEMMA Appended ==
  ASSUME NEW S, NEW sq \in Seq(S), NEW f \in S, NEW sq2, sq2 = Append(sq, f)
  PROVE  /\ sq2 \in Seq(S) /\ Len(sq) \in Nat
         /\ DOMAIN sq = 1..Len(sq) /\ DOMAIN sq2 = 1..(Len(sq) + 1)
         /\ \A i \in DOMAIN sq : sq2[i] = sq[i] /\ i \in DOMAIN sq2
         /\ sq2[Len(sq) + 1] = f
         /\ \A i \in DOMAIN sq2 : i \in DOMAIN sq \/ i = Len(sq) + 1
  OBVIOUS

(* A frame that is no event comes to the line.                             *)
LEMMA ProperReply ==
  ASSUME NEW sq \in Seq(FrameSet), NEW lg, Proper(sq, lg),
         NEW f \in FrameSet, f.type # "event", NEW sq2, sq2 = Append(sq, f)
  PROVE  Proper(sq2, lg)
<1>1. /\ Len(sq) \in Nat /\ DOMAIN sq = 1..Len(sq) /\ DOMAIN sq2 = 1..(Len(sq) + 1)
      /\ \A i \in DOMAIN sq : sq2[i] = sq[i] /\ i \in DOMAIN sq2
      /\ sq2[Len(sq) + 1] = f
  BY Appended
<1> SUFFICES ASSUME NEW j \in DOMAIN sq2, sq2[j].type = "event"
             PROVE  sq2[j].n \in DOMAIN lg /\ \E i \in DOMAIN sq2 : Acknowledges(sq2, lg, i, j)
  BY DEF Proper
<1>2. j \in DOMAIN sq /\ sq2[j] = sq[j]
  BY <1>1
<1>3. PICK i \in DOMAIN sq : Acknowledges(sq, lg, i, j)
  BY <1>2 DEF Proper
<1>4. Acknowledges(sq2, lg, i, j)
  <2>1. sq2[i] = sq[i] /\ i < j
    BY <1>1, <1>3 DEF Acknowledges
  <2>2. \A m \in (i + 1)..(j - 1) : sq2[m] = sq[m]
    BY <1>1, <1>2
  <2> QED
    BY <1>2, <1>3, <2>1, <2>2 DEF Acknowledges
<1> QED
  BY <1>1, <1>2, <1>4 DEF Proper

LEMMA StandsReply ==
  ASSUME NEW sq \in Seq(FrameSet), NEW q, NEW lg, NEW id, Stands(sq, q, lg, id),
         NEW f \in FrameSet, ~IsEvent(f, id), f # Frame("unack", id, 0), NEW sq2, sq2 = Append(sq, f)
  PROVE  Stands(sq2, q, lg, id)
<1>1. /\ Len(sq) \in Nat /\ DOMAIN sq = 1..Len(sq)
      /\ \A i \in DOMAIN sq : sq2[i] = sq[i] /\ i \in DOMAIN sq2
      /\ sq2[Len(sq) + 1] = f
      /\ \A i \in DOMAIN sq2 : i \in DOMAIN sq \/ i = Len(sq) + 1
  BY Appended
<1>2. PICK k \in DOMAIN sq : StandsFrom(k, sq, q, lg, id)
  BY DEF Stands
<1>3. ASSUME NEW i \in DOMAIN sq2, IsEvent(sq2[i], id) PROVE i \in DOMAIN sq /\ sq2[i] = sq[i]
  BY <1>1, <1>3
<1>4. sq2[k] = sq[k] /\ k \in DOMAIN sq2
  BY <1>1
<1>5. \A m \in DOMAIN sq2 : m > k => sq2[m] # Frame("unack", id, 0)
  BY <1>1, <1>2 DEF StandsFrom
<1>6. StandsFrom(k, sq2, q, lg, id)
  BY <1>1, <1>2, <1>3, <1>4, <1>5 DEF StandsFrom
<1> QED
  BY <1>4, <1>6 DEF Stands

(* A new subscription stands since its ack.                                *)
LEMMA StandsNew ==
  ASSUME NEW sq \in Seq(FrameSet), NEW id \in SubIds, NEW T, NEW lg \in Seq(T),
         NEW sq2, sq2 = Append(sq, Frame("ack", id, Len(lg)))
  PROVE  Stands(sq2, <<>>, lg, id)
<1> DEFINE f == Frame("ack", id, Len(lg))
           k == Len(sq) + 1
<1>1. f \in FrameSet /\ IsAck(f, id) /\ f.n = Len(lg) /\ Len(lg) \in Nat
  BY DEF Frame, FrameSet, IsAck
<1> HIDE DEF f
<1>2. sq2 = Append(sq, f)
  BY DEF f
<1>3. /\ Len(sq) \in Nat /\ DOMAIN sq2 = 1..(Len(sq) + 1) /\ sq2[k] = f /\ k \in DOMAIN sq2
      /\ \A i \in DOMAIN sq2 : ~(i > k)
  BY <1>1, <1>2, Appended
<1>4. \A n \in DOMAIN lg : ~(n > f.n)
  BY <1>1
<1> HIDE DEF k
<1>6. \A j \in DOMAIN <<>> : FALSE
  OBVIOUS
<1>5. StandsFrom(k, sq2, <<>>, lg, id)
  BY <1>1, <1>3, <1>4, <1>6 DEF StandsFrom
<1> QED
  BY <1>3, <1>5 DEF Stands

(* The first of a queue of numbers, and the rest.                          *)
LEMMA HeadOff ==
  ASSUME NEW q \in Seq(Nat), q # <<>>, NEW r, r = Tail(q)
  PROVE  /\ 1 \in DOMAIN q /\ Head(q) = q[1] /\ Head(q) \in Nat
         /\ r \in Seq(Nat)
         /\ \A j \in DOMAIN r : j + 1 \in DOMAIN q /\ r[j] = q[j + 1] /\ j \in Nat /\ j >= 1
         /\ \A j \in DOMAIN q : j # 1 => j - 1 \in DOMAIN r /\ r[j - 1] = q[j]
<1>1. Len(q) \in Nat /\ Len(q) # 0 /\ DOMAIN q = 1..Len(q)
  OBVIOUS
<1>2. r \in Seq(Nat) /\ DOMAIN r = 1..(Len(q) - 1) /\ \A j \in 1..(Len(q) - 1) : r[j] = q[j + 1]
  BY <1>1
<1>3. Head(q) = q[1]
  OBVIOUS
<1> QED
  BY <1>1, <1>2, <1>3

(* A pump takes an event and waits with it for the lock.                   *)
LEMMA StandsTake ==
  ASSUME NEW sq \in Seq(FrameSet), NEW q \in Seq(Nat), q # <<>>, NEW lg, NEW id \in SubIds,
         Stands(sq, q, lg, id),
         NEW sq2, sq2 = Append(sq, Frame("event", id, Head(q))), NEW r, r = Tail(q)
  PROVE  Stands(sq2, r, lg, id)
<1> DEFINE f == Frame("event", id, Head(q))
           last == Len(sq) + 1
<1>0. /\ 1 \in DOMAIN q /\ Head(q) = q[1] /\ Head(q) \in Nat
      /\ \A j \in DOMAIN r : j + 1 \in DOMAIN q /\ r[j] = q[j + 1] /\ j \in Nat /\ j >= 1
      /\ \A j \in DOMAIN q : j # 1 => j - 1 \in DOMAIN r /\ r[j - 1] = q[j]
  BY HeadOff
<1>1. f \in FrameSet /\ IsEvent(f, id) /\ f.n = q[1] /\ f # Frame("unack", id, 0)
  BY <1>0 DEF Frame, FrameSet, IsEvent
<1> HIDE DEF f
<1>2. sq2 = Append(sq, f)
  BY DEF f
<1>3. /\ Len(sq) \in Nat /\ DOMAIN sq = 1..Len(sq)
      /\ \A i \in DOMAIN sq : sq2[i] = sq[i] /\ i \in DOMAIN sq2
      /\ sq2[last] = f /\ last \in DOMAIN sq2
      /\ \A i \in DOMAIN sq2 : i \in DOMAIN sq \/ i = last
  BY <1>1, <1>2, Appended
<1>4. PICK k \in DOMAIN sq : StandsFrom(k, sq, q, lg, id)
  BY DEF Stands
<1>5. k \in DOMAIN sq2 /\ sq2[k] = sq[k] /\ last > k
  BY <1>3
<1>6. /\ \A i \in DOMAIN sq : i < last
      /\ last \in Nat
  BY <1>3
<1> HIDE DEF last
<1>7. \A m \in DOMAIN sq2 : m > k => sq2[m] # Frame("unack", id, 0)
  BY <1>1, <1>3, <1>4 DEF StandsFrom
<1>8. \A j \in DOMAIN r : r[j] \in DOMAIN lg /\ r[j] > sq2[k].n /\ Matches(FilterOf[id], lg[r[j]])
                          /\ q[1] < r[j]
  <2> SUFFICES ASSUME NEW j \in DOMAIN r
               PROVE  /\ r[j] \in DOMAIN lg /\ r[j] > sq2[k].n /\ Matches(FilterOf[id], lg[r[j]])
                      /\ q[1] < r[j]
    OBVIOUS
  <2>1. j + 1 \in DOMAIN q /\ r[j] = q[j + 1] /\ 1 < j + 1
    BY <1>0
  <2> QED
    BY <1>0, <1>4, <1>5, <2>1 DEF StandsFrom
<1>9. \A i, j \in DOMAIN r : i < j => r[i] < r[j]
  <2> SUFFICES ASSUME NEW i \in DOMAIN r, NEW j \in DOMAIN r, i < j PROVE r[i] < r[j]
    OBVIOUS
  <2>1. i + 1 \in DOMAIN q /\ j + 1 \in DOMAIN q /\ i + 1 < j + 1 /\ r[i] = q[i + 1] /\ r[j] = q[j + 1]
    BY <1>0
  <2> QED
    BY <1>4, <2>1 DEF StandsFrom
<1>10. ASSUME NEW i \in DOMAIN sq2, i > k, IsEvent(sq2[i], id)
       PROVE  /\ sq2[i].n \in DOMAIN lg /\ sq2[i].n > sq2[k].n
              /\ Matches(FilterOf[id], lg[sq2[i].n])
              /\ \A j \in DOMAIN r : sq2[i].n < r[j]
  <2>1. CASE i \in DOMAIN sq
    <3>1. sq2[i] = sq[i]
      BY <1>3, <2>1
    <3>2. \A j \in DOMAIN r : j + 1 \in DOMAIN q /\ r[j] = q[j + 1]
      BY <1>0
    <3> QED
      BY <1>4, <1>5, <1>10, <2>1, <3>1, <3>2 DEF StandsFrom
  <2>2. CASE i = last
    <3>1. sq2[i].n = q[1]
      BY <1>1, <1>3, <2>2
    <3> QED
      BY <1>0, <1>4, <1>5, <1>8, <3>1 DEF StandsFrom
  <2> QED
    BY <1>3, <2>1, <2>2
<1>11. ASSUME NEW i \in DOMAIN sq2, NEW j \in DOMAIN sq2, k < i, i < j,
              IsEvent(sq2[i], id), IsEvent(sq2[j], id)
       PROVE  sq2[i].n < sq2[j].n
  <2>1. i \in DOMAIN sq /\ sq2[i] = sq[i]
    BY <1>3, <1>6, <1>11
  <2>2. CASE j \in DOMAIN sq
    BY <1>3, <1>4, <1>11, <2>1, <2>2 DEF StandsFrom
  <2>3. CASE j = last
    <3>1. sq2[j].n = q[1]
      BY <1>1, <1>3, <2>3
    <3> QED
      BY <1>0, <1>4, <1>11, <2>1, <3>1 DEF StandsFrom
  <2> QED
    BY <1>3, <2>2, <2>3
<1>12. ASSUME NEW n \in DOMAIN lg, n > sq2[k].n, lg[n].mine, Matches(FilterOf[id], lg[n])
       PROVE  \/ \E i \in DOMAIN sq2 : i > k /\ IsEvent(sq2[i], id) /\ sq2[i].n = n
              \/ \E j \in DOMAIN r : r[j] = n
  <2>1. CASE \E i \in DOMAIN sq : i > k /\ IsEvent(sq[i], id) /\ sq[i].n = n
    BY <1>3, <2>1
  <2>2. CASE \E j \in DOMAIN q : q[j] = n
    <3>1. PICK j \in DOMAIN q : q[j] = n
      BY <2>2
    <3>2. CASE j = 1
      BY <1>1, <1>3, <1>5, <3>1, <3>2
    <3>3. CASE j # 1
      BY <1>0, <3>1, <3>3
    <3> QED
      BY <3>2, <3>3
  <2> QED
    BY <1>4, <1>5, <1>12, <2>1, <2>2 DEF StandsFrom
<1>13. IsAck(sq2[k], id)
  BY <1>4, <1>5 DEF StandsFrom
<1>14. StandsFrom(k, sq2, r, lg, id)
  BY <1>7, <1>8, <1>9, <1>10, <1>11, <1>12, <1>13 DEF StandsFrom
<1> QED
  BY <1>5, <1>14 DEF Stands

(* The event that a pump waits with has been acknowledged.                 *)
LEMMA ProperTake ==
  ASSUME NEW sq \in Seq(FrameSet), NEW q \in Seq(Nat), q # <<>>, NEW lg, NEW id \in SubIds,
         Stands(sq, q, lg, id), Proper(sq, lg),
         NEW sq2, sq2 = Append(sq, Frame("event", id, Head(q)))
  PROVE  Proper(sq2, lg)
<1> DEFINE f == Frame("event", id, Head(q))
           last == Len(sq) + 1
<1>0. 1 \in DOMAIN q /\ Head(q) = q[1] /\ Head(q) \in Nat
  BY HeadOff
<1>1. f \in FrameSet /\ f.type = "event" /\ f.id = id /\ f.n = q[1]
  BY <1>0 DEF Frame, FrameSet
<1> HIDE DEF f
<1>2. sq2 = Append(sq, f)
  BY DEF f
<1>3. /\ Len(sq) \in Nat /\ DOMAIN sq = 1..Len(sq)
      /\ \A i \in DOMAIN sq : sq2[i] = sq[i] /\ i \in DOMAIN sq2
      /\ sq2[last] = f /\ last \in DOMAIN sq2
      /\ \A i \in DOMAIN sq2 : i \in DOMAIN sq \/ i = last
  BY <1>1, <1>2, Appended
<1>4. PICK k \in DOMAIN sq : StandsFrom(k, sq, q, lg, id)
  BY DEF Stands
<1>5. ASSUME NEW j \in DOMAIN sq, sq2[j].type = "event"
      PROVE  sq2[j].n \in DOMAIN lg /\ \E i \in DOMAIN sq2 : Acknowledges(sq2, lg, i, j)
  <2>1. sq2[j] = sq[j]
    BY <1>3
  <2>2. PICK i \in DOMAIN sq : Acknowledges(sq, lg, i, j)
    BY <1>5, <2>1 DEF Proper
  <2>3. sq2[i] = sq[i] /\ \A m \in (i + 1)..(j - 1) : sq2[m] = sq[m]
    BY <1>3
  <2>4. Acknowledges(sq2, lg, i, j)
    BY <2>1, <2>2, <2>3 DEF Acknowledges
  <2> QED
    BY <1>3, <1>5, <2>1, <2>4 DEF Proper
<1>6. Acknowledges(sq2, lg, k, last)
  <2>1. sq2[last].id = id /\ sq2[last].n = q[1] /\ sq2[k] = sq[k] /\ k < last
    BY <1>1, <1>3
  <2>2. \A m \in (k + 1)..(last - 1) : m \in DOMAIN sq /\ m > k /\ sq2[m] = sq[m]
    BY <1>3
  <2>3. /\ IsAck(sq[k], id) /\ q[1] > sq[k].n /\ Matches(FilterOf[id], lg[q[1]])
        /\ \A m \in DOMAIN sq : m > k => sq[m] # Frame("unack", id, 0)
    BY <1>0, <1>4 DEF StandsFrom
  <2>4. sq[k].n < q[1]
    <3>1. sq[k] \in FrameSet
      OBVIOUS
    <3>2. sq[k].n \in Nat
      BY <3>1 DEF FrameSet
    <3> QED
      BY <1>0, <2>3, <3>2
  <2> HIDE DEF last
  <2> QED
    BY <2>1, <2>2, <2>3, <2>4 DEF Acknowledges
<1>7. sq2[last].n \in DOMAIN lg
  BY <1>0, <1>1, <1>3, <1>4 DEF StandsFrom
<1>8. k \in DOMAIN sq2
  BY <1>3
<1> HIDE DEF last
<1> QED
  BY <1>3, <1>5, <1>6, <1>7, <1>8 DEF Proper

(* A pump drops an event that is not the user's own.                       *)
LEMMA StandsDrop ==
  ASSUME NEW sq \in Seq(FrameSet), NEW q \in Seq(Nat), q # <<>>, NEW lg, NEW id,
         Stands(sq, q, lg, id), ~lg[Head(q)].mine, NEW r, r = Tail(q)
  PROVE  Stands(sq, r, lg, id)
<1>0. /\ 1 \in DOMAIN q /\ Head(q) = q[1]
      /\ \A j \in DOMAIN r : j + 1 \in DOMAIN q /\ r[j] = q[j + 1] /\ j \in Nat
      /\ \A j \in DOMAIN q : j # 1 => j - 1 \in DOMAIN r /\ r[j - 1] = q[j]
  BY HeadOff
<1>1. PICK k \in DOMAIN sq : StandsFrom(k, sq, q, lg, id)
  BY DEF Stands
<1>2. \A i, j \in DOMAIN r : i < j => r[i] < r[j]
  <2> SUFFICES ASSUME NEW i \in DOMAIN r, NEW j \in DOMAIN r, i < j PROVE r[i] < r[j]
    OBVIOUS
  <2>1. i + 1 \in DOMAIN q /\ j + 1 \in DOMAIN q /\ i + 1 < j + 1 /\ r[i] = q[i + 1] /\ r[j] = q[j + 1]
    BY <1>0
  <2> QED
    BY <1>1, <2>1 DEF StandsFrom
<1>3. \A j \in DOMAIN r : \E i \in DOMAIN q : r[j] = q[i]
  BY <1>0
<1>4. ASSUME NEW n, lg[n].mine, NEW j \in DOMAIN q, q[j] = n PROVE \E i \in DOMAIN r : r[i] = n
  BY <1>0, <1>4
<1>5. StandsFrom(k, sq, r, lg, id)
  <2>1. \A j \in DOMAIN r : r[j] \in DOMAIN lg /\ r[j] > sq[k].n /\ Matches(FilterOf[id], lg[r[j]])
    BY <1>1, <1>3 DEF StandsFrom
  <2>2. \A i \in DOMAIN sq : i > k /\ IsEvent(sq[i], id) =>
          /\ sq[i].n \in DOMAIN lg /\ sq[i].n > sq[k].n /\ Matches(FilterOf[id], lg[sq[i].n])
          /\ \A j \in DOMAIN r : sq[i].n < r[j]
    BY <1>1, <1>3 DEF StandsFrom
  <2>3. \A n \in DOMAIN lg : n > sq[k].n /\ lg[n].mine /\ Matches(FilterOf[id], lg[n]) =>
          \/ \E i \in DOMAIN sq : i > k /\ IsEvent(sq[i], id) /\ sq[i].n = n
          \/ \E j \in DOMAIN r : r[j] = n
    BY <1>1, <1>4 DEF StandsFrom
  <2> QED
    BY <1>1, <1>2, <2>1, <2>2, <2>3 DEF StandsFrom
<1> QED
  BY <1>5 DEF Stands

(* An event is published: it comes to the queue if the filter lets it      *)
(* through.                                                                *)
LEMMA StandsPublish ==
  ASSUME NEW sq \in Seq(FrameSet), NEW q \in Seq(Nat), NEW T, NEW lg \in Seq(T), NEW id,
         Stands(sq, q, lg, id), NEW e \in T, NEW lg2, lg2 = Append(lg, e),
         \A i \in DOMAIN sq : IsAck(sq[i], id) => sq[i].n <= Len(lg),
         NEW q2, q2 = IF Matches(FilterOf[id], e) THEN Append(q, Len(lg) + 1) ELSE q
  PROVE  Stands(sq, q2, lg2, id)
<1> DEFINE last == Len(lg) + 1
<1>1. /\ Len(lg) \in Nat /\ last \in Nat /\ lg2[last] = e /\ last \in DOMAIN lg2
      /\ \A n \in DOMAIN lg : n \in DOMAIN lg2 /\ lg2[n] = lg[n] /\ n < last /\ n \in Nat
      /\ \A n \in DOMAIN lg2 : n \in DOMAIN lg \/ n = last
  BY Appended
<1>2. q2 = IF Matches(FilterOf[id], e) THEN Append(q, last) ELSE q
  OBVIOUS
<1> HIDE DEF last
<1>3. PICK k \in DOMAIN sq : StandsFrom(k, sq, q, lg, id)
  BY DEF Stands
<1>4. sq[k].n < last
  <2>1. sq[k] \in FrameSet /\ sq[k].n <= Len(lg)
    BY <1>3 DEF StandsFrom
  <2>2. sq[k].n \in Nat
    BY <2>1 DEF FrameSet
  <2> QED
    BY <1>1, <2>1, <2>2 DEF last
<1>5. /\ \A j \in DOMAIN q : j \in DOMAIN q2 /\ q2[j] = q[j] /\ q[j] < last
      /\ \A j \in DOMAIN q2 : j \in DOMAIN q \/ (Matches(FilterOf[id], e) /\ q2[j] = last)
      /\ \A i, j \in DOMAIN q2 : i < j => q2[i] < q2[j]
      /\ Matches(FilterOf[id], e) => \E j \in DOMAIN q2 : q2[j] = last
  <2>1. \A j \in DOMAIN q : q[j] < last
    BY <1>1, <1>3 DEF StandsFrom
  <2>2. \A i, j \in DOMAIN q : i < j => q[i] < q[j]
    BY <1>3 DEF StandsFrom
  <2>3. CASE Matches(FilterOf[id], e)
    <3>1. /\ Len(q) \in Nat /\ DOMAIN q = 1..Len(q) /\ DOMAIN q2 = 1..(Len(q) + 1)
          /\ \A j \in DOMAIN q : q2[j] = q[j] /\ j \in DOMAIN q2
          /\ q2[Len(q) + 1] = last
          /\ \A j \in DOMAIN q2 : j \in DOMAIN q \/ j = Len(q) + 1
      <4>1. q2 = Append(q, last)
        BY <1>2, <2>3
      <4> QED
        BY <1>1, <4>1, Appended
    <3> QED
      BY <2>1, <2>2, <2>3, <3>1
  <2>4. CASE ~Matches(FilterOf[id], e)
    BY <1>2, <2>1, <2>2, <2>4
  <2> QED
    BY <2>3, <2>4
<1>6. \A j \in DOMAIN q2 : q2[j] \in DOMAIN lg2 /\ q2[j] > sq[k].n /\ Matches(FilterOf[id], lg2[q2[j]])
  <2>1. ASSUME NEW j \in DOMAIN q
        PROVE  q[j] \in DOMAIN lg2 /\ q[j] > sq[k].n /\ Matches(FilterOf[id], lg2[q[j]])
    BY <1>1, <1>3 DEF StandsFrom
  <2>2. last > sq[k].n
    <3>1. sq[k] \in FrameSet
      OBVIOUS
    <3>2. sq[k].n \in Nat
      BY <3>1 DEF FrameSet
    <3> QED
      BY <1>1, <1>4, <3>2
  <2> QED
    BY <1>1, <1>5, <2>1, <2>2
<1>7. \A i \in DOMAIN sq : i > k /\ IsEvent(sq[i], id) =>
        /\ sq[i].n \in DOMAIN lg2 /\ sq[i].n > sq[k].n /\ Matches(FilterOf[id], lg2[sq[i].n])
        /\ \A j \in DOMAIN q2 : sq[i].n < q2[j]
  <2> SUFFICES ASSUME NEW i \in DOMAIN sq, i > k, IsEvent(sq[i], id)
               PROVE  /\ sq[i].n \in DOMAIN lg2 /\ sq[i].n > sq[k].n
                      /\ Matches(FilterOf[id], lg2[sq[i].n])
                      /\ \A j \in DOMAIN q2 : sq[i].n < q2[j]
    OBVIOUS
  <2>1. /\ sq[i].n \in DOMAIN lg /\ sq[i].n > sq[k].n /\ Matches(FilterOf[id], lg[sq[i].n])
        /\ \A j \in DOMAIN q : sq[i].n < q[j]
    BY <1>3 DEF StandsFrom
  <2>2. sq[i].n < last /\ lg2[sq[i].n] = lg[sq[i].n] /\ sq[i].n \in DOMAIN lg2
    BY <1>1, <2>1
  <2> QED
    BY <1>5, <2>1, <2>2
<1>8. \A n \in DOMAIN lg2 : n > sq[k].n /\ lg2[n].mine /\ Matches(FilterOf[id], lg2[n]) =>
        \/ \E i \in DOMAIN sq : i > k /\ IsEvent(sq[i], id) /\ sq[i].n = n
        \/ \E j \in DOMAIN q2 : q2[j] = n
  <2> SUFFICES ASSUME NEW n \in DOMAIN lg2, n > sq[k].n, lg2[n].mine, Matches(FilterOf[id], lg2[n])
               PROVE  \/ \E i \in DOMAIN sq : i > k /\ IsEvent(sq[i], id) /\ sq[i].n = n
                      \/ \E j \in DOMAIN q2 : q2[j] = n
    OBVIOUS
  <2>1. CASE n \in DOMAIN lg
    <3>1. \/ \E i \in DOMAIN sq : i > k /\ IsEvent(sq[i], id) /\ sq[i].n = n
          \/ \E j \in DOMAIN q : q[j] = n
      BY <1>1, <1>3, <2>1 DEF StandsFrom
    <3> QED
      BY <1>5, <3>1
  <2>2. CASE n = last
    BY <1>1, <1>5, <2>2
  <2> QED
    BY <1>1, <2>1, <2>2
<1>9. StandsFrom(k, sq, q2, lg2, id)
  BY <1>3, <1>5, <1>6, <1>7, <1>8 DEF StandsFrom
<1> QED
  BY <1>9 DEF Stands

LEMMA ProperPublish ==
  ASSUME NEW sq, NEW T, NEW lg \in Seq(T), NEW e \in T, NEW lg2, lg2 = Append(lg, e), Proper(sq, lg)
  PROVE  Proper(sq, lg2)
<1>1. \A n \in DOMAIN lg : n \in DOMAIN lg2 /\ lg2[n] = lg[n]
  BY Appended
<1> QED
  BY <1>1 DEF Proper, Acknowledges

(* What was sent is proper when the whole line is.                         *)
LEMMA ProperPrefix ==
  ASSUME NEW S, NEW w \in Seq(S), NEW sq \in Seq(S), NEW lg, Proper(sq, lg),
         Len(w) <= Len(sq), \A i \in DOMAIN w : w[i] = sq[i]
  PROVE  Proper(w, lg)
<1>1. Len(w) \in Nat /\ Len(sq) \in Nat /\ DOMAIN w = 1..Len(w) /\ DOMAIN sq = 1..Len(sq)
  OBVIOUS
<1> SUFFICES ASSUME NEW j \in DOMAIN w, w[j].type = "event"
             PROVE  w[j].n \in DOMAIN lg /\ \E i \in DOMAIN w : Acknowledges(w, lg, i, j)
  BY DEF Proper
<1>2. j \in DOMAIN sq /\ w[j] = sq[j]
  BY <1>1
<1>3. PICK i \in DOMAIN sq : Acknowledges(sq, lg, i, j)
  BY <1>2 DEF Proper
<1>4. i \in DOMAIN w /\ w[i] = sq[i] /\ \A m \in (i + 1)..(j - 1) : w[m] = sq[m]
  BY <1>1, <1>3 DEF Acknowledges
<1>5. Acknowledges(w, lg, i, j)
  BY <1>2, <1>3, <1>4 DEF Acknowledges
<1> QED
  BY <1>2, <1>4, <1>5 DEF Proper

(* The place r of a line is given up.                                      *)
GivenUp(sq, r) == [i \in 1..(Len(sq) - 1) |-> sq[IF i < r THEN i ELSE i + 1]]

(* Where a place of the new line was in the old one, and the reverse.      *)
LEMMA Shifted ==
  ASSUME NEW S, NEW sq \in Seq(S), NEW r \in DOMAIN sq, NEW sq2, sq2 = GivenUp(sq, r)
  PROVE  /\ sq2 \in Seq(S) /\ Len(sq2) = Len(sq) - 1
         /\ DOMAIN sq2 = 1..(Len(sq) - 1) /\ DOMAIN sq = 1..Len(sq) /\ Len(sq) \in Nat
         /\ \A i \in DOMAIN sq2 : i < r => i \in DOMAIN sq /\ sq2[i] = sq[i]
         /\ \A i \in DOMAIN sq2 : ~(i < r) => i + 1 \in DOMAIN sq /\ sq2[i] = sq[i + 1]
         /\ \A i \in DOMAIN sq : i < r => i \in DOMAIN sq2
         /\ \A i \in DOMAIN sq : i > r => i - 1 \in DOMAIN sq2 /\ ~(i - 1 < r) /\ sq2[i - 1] = sq[i]
<1>1. Len(sq) \in Nat /\ DOMAIN sq = 1..Len(sq) /\ r \in 1..Len(sq)
  OBVIOUS
<1>2. \A i \in 1..(Len(sq) - 1) : (IF i < r THEN i ELSE i + 1) \in DOMAIN sq
  BY <1>1
<1>3. sq2 \in [1..(Len(sq) - 1) -> S]
  BY <1>2 DEF GivenUp
<1>4. Len(sq) - 1 \in Nat
  BY <1>1
<1>5. sq2 \in Seq(S) /\ Len(sq2) = Len(sq) - 1 /\ DOMAIN sq2 = 1..(Len(sq) - 1)
  BY <1>3, <1>4
<1>6. \A i \in 1..(Len(sq) - 1) : sq2[i] = sq[IF i < r THEN i ELSE i + 1]
  BY DEF GivenUp
<1> QED
  BY <1>1, <1>5, <1>6

Old(i, r) == IF i < r THEN i ELSE i + 1
New(j, r) == IF j < r THEN j ELSE j - 1

LEMMA PlacesKept ==
  ASSUME NEW S, NEW sq \in Seq(S), NEW r \in DOMAIN sq, NEW sq2, sq2 = GivenUp(sq, r)
  PROVE  /\ \A i \in DOMAIN sq2 : Old(i, r) \in DOMAIN sq \ {r} /\ sq2[i] = sq[Old(i, r)]
         /\ \A j \in DOMAIN sq \ {r} : New(j, r) \in DOMAIN sq2 /\ Old(New(j, r), r) = j
                                       /\ sq2[New(j, r)] = sq[j]
         /\ \A i, j \in DOMAIN sq2 : i < j <=> Old(i, r) < Old(j, r)
         /\ \A i, j \in DOMAIN sq \ {r} : i < j <=> New(i, r) < New(j, r)
<1>1. /\ Len(sq) \in Nat /\ DOMAIN sq = 1..Len(sq) /\ DOMAIN sq2 = 1..(Len(sq) - 1)
      /\ r \in 1..Len(sq)
      /\ \A i \in DOMAIN sq2 : sq2[i] = sq[Old(i, r)]
  BY Shifted DEF Old
<1>2. \A i \in DOMAIN sq2 : Old(i, r) \in DOMAIN sq \ {r}
  BY <1>1 DEF Old
<1>3. \A j \in DOMAIN sq \ {r} : New(j, r) \in DOMAIN sq2 /\ Old(New(j, r), r) = j
  BY <1>1 DEF Old, New
<1>4. \A j \in DOMAIN sq \ {r} : sq2[New(j, r)] = sq[j]
  BY <1>1, <1>3
<1>5. \A i, j \in DOMAIN sq2 : i < j <=> Old(i, r) < Old(j, r)
  BY <1>1 DEF Old
<1>6. \A i, j \in DOMAIN sq \ {r} : i < j <=> New(i, r) < New(j, r)
  BY <1>1 DEF New
<1> QED
  BY <1>1, <1>2, <1>3, <1>4, <1>5, <1>6

(* A waiting event leaves the line.                                        *)
LEMMA ProperGivenUp ==
  ASSUME NEW sq \in Seq(FrameSet), NEW lg, Proper(sq, lg), NEW r \in DOMAIN sq,
         sq[r].type = "event", NEW sq2, sq2 = GivenUp(sq, r)
  PROVE  Proper(sq2, lg)
<1>1. /\ \A i \in DOMAIN sq2 : Old(i, r) \in DOMAIN sq \ {r} /\ sq2[i] = sq[Old(i, r)]
      /\ \A j \in DOMAIN sq \ {r} : New(j, r) \in DOMAIN sq2 /\ Old(New(j, r), r) = j
                                    /\ sq2[New(j, r)] = sq[j]
      /\ \A i, j \in DOMAIN sq2 : i < j <=> Old(i, r) < Old(j, r)
  BY PlacesKept
<1>2. DOMAIN sq2 = 1..(Len(sq) - 1) /\ Len(sq) \in Nat /\ DOMAIN sq = 1..Len(sq)
  BY Shifted
<1> SUFFICES ASSUME NEW j \in DOMAIN sq2, sq2[j].type = "event"
             PROVE  sq2[j].n \in DOMAIN lg /\ \E i \in DOMAIN sq2 : Acknowledges(sq2, lg, i, j)
  BY DEF Proper
<1> DEFINE b == Old(j, r)
<1>3. b \in DOMAIN sq /\ sq2[j] = sq[b]
  BY <1>1
<1>4. PICK a \in DOMAIN sq : Acknowledges(sq, lg, a, b)
  BY <1>3 DEF Proper
<1>5. a # r
  BY <1>4 DEF Acknowledges, IsAck
<1> DEFINE i == New(a, r)
<1>6. i \in DOMAIN sq2 /\ Old(i, r) = a /\ sq2[i] = sq[a]
  BY <1>1, <1>5
<1>7. i < j
  BY <1>1, <1>4, <1>6 DEF Acknowledges
<1>8. ASSUME NEW m \in (i + 1)..(j - 1) PROVE sq2[m] # Frame("unack", sq2[j].id, 0)
  <2> HIDE DEF i, b
  <2>1. m \in DOMAIN sq2 /\ i < m /\ m < j
    BY <1>2, <1>6, <1>8
  <2>2. Old(m, r) \in DOMAIN sq /\ sq2[m] = sq[Old(m, r)] /\ a < Old(m, r) /\ Old(m, r) < b
    BY <1>1, <1>6, <2>1 DEF b
  <2>3. Old(m, r) \in (a + 1)..(b - 1)
    BY <1>2, <1>3, <2>2
  <2> QED
    BY <1>3, <1>4, <2>2, <2>3 DEF Acknowledges
<1>9. Acknowledges(sq2, lg, i, j)
  <2> HIDE DEF i, b
  <2> QED
    BY <1>3, <1>4, <1>6, <1>7, <1>8 DEF Acknowledges
<1>10. sq2[j].n \in DOMAIN lg
  BY <1>3 DEF Proper
<1> QED
  BY <1>6, <1>9, <1>10

LEMMA StandsGivenUp ==
  ASSUME NEW sq \in Seq(FrameSet), NEW q, NEW lg, NEW id, Stands(sq, q, lg, id),
         NEW r \in DOMAIN sq, sq[r].type = "event", ~IsEvent(sq[r], id),
         NEW sq2, sq2 = GivenUp(sq, r)
  PROVE  Stands(sq2, q, lg, id)
<1>1. /\ \A i \in DOMAIN sq2 : Old(i, r) \in DOMAIN sq \ {r} /\ sq2[i] = sq[Old(i, r)]
      /\ \A j \in DOMAIN sq \ {r} : New(j, r) \in DOMAIN sq2 /\ Old(New(j, r), r) = j
                                    /\ sq2[New(j, r)] = sq[j]
      /\ \A i, j \in DOMAIN sq2 : i < j <=> Old(i, r) < Old(j, r)
  BY PlacesKept
<1>2. DOMAIN sq2 = 1..(Len(sq) - 1) /\ Len(sq) \in Nat /\ DOMAIN sq = 1..Len(sq)
  BY Shifted
<1>3. PICK a \in DOMAIN sq : StandsFrom(a, sq, q, lg, id)
  BY DEF Stands
<1>4. a # r
  BY <1>3 DEF StandsFrom, IsAck
<1> DEFINE k == New(a, r)
<1>5. k \in DOMAIN sq2 /\ Old(k, r) = a /\ sq2[k] = sq[a]
  BY <1>1, <1>4
<1> HIDE DEF k
<1>6. \A i \in DOMAIN sq2 : i > k => Old(i, r) > a
  <2> SUFFICES ASSUME NEW i \in DOMAIN sq2, i > k PROVE Old(i, r) > a
    OBVIOUS
  <2>1. k < i
    BY <1>2, <1>5
  <2>2. a < Old(i, r)
    BY <1>1, <1>5, <2>1
  <2> QED
    BY <1>1, <1>2, <2>2
<1>7. \A m \in DOMAIN sq2 : m > k => sq2[m] # Frame("unack", id, 0)
  BY <1>1, <1>3, <1>6 DEF StandsFrom
<1>8. \A i \in DOMAIN sq2 : i > k /\ IsEvent(sq2[i], id) =>
        /\ sq2[i].n \in DOMAIN lg /\ sq2[i].n > sq2[k].n /\ Matches(FilterOf[id], lg[sq2[i].n])
        /\ \A j \in DOMAIN q : sq2[i].n < q[j]
  BY <1>1, <1>3, <1>5, <1>6 DEF StandsFrom
<1>9. ASSUME NEW i \in DOMAIN sq2, NEW j \in DOMAIN sq2, k < i, i < j,
             IsEvent(sq2[i], id), IsEvent(sq2[j], id)
      PROVE  sq2[i].n < sq2[j].n
  <2>1. a < Old(i, r) /\ Old(i, r) < Old(j, r)
    BY <1>1, <1>5, <1>9
  <2> QED
    BY <1>1, <1>3, <1>9, <2>1 DEF StandsFrom
<1>10. ASSUME NEW n \in DOMAIN lg, n > sq2[k].n, lg[n].mine, Matches(FilterOf[id], lg[n])
       PROVE  \/ \E i \in DOMAIN sq2 : i > k /\ IsEvent(sq2[i], id) /\ sq2[i].n = n
              \/ \E j \in DOMAIN q : q[j] = n
  <2>1. CASE \E i \in DOMAIN sq : i > a /\ IsEvent(sq[i], id) /\ sq[i].n = n
    <3>1. PICK i \in DOMAIN sq : i > a /\ IsEvent(sq[i], id) /\ sq[i].n = n
      BY <2>1
    <3>2. i # r
      BY <3>1
    <3>3. New(i, r) \in DOMAIN sq2 /\ sq2[New(i, r)] = sq[i] /\ Old(New(i, r), r) = i
      BY <1>1, <3>2
    <3>4. a < i
      BY <1>2, <3>1
    <3>5. k < New(i, r)
      BY <1>1, <1>5, <3>3, <3>4
    <3>6. New(i, r) > k
      BY <1>2, <1>5, <3>3, <3>5
    <3> QED
      BY <3>1, <3>3, <3>6
  <2>2. CASE \E j \in DOMAIN q : q[j] = n
    BY <2>2
  <2> QED
    BY <1>3, <1>5, <1>10, <2>1, <2>2 DEF StandsFrom
<1>11. IsAck(sq2[k], id)
  BY <1>3, <1>5 DEF StandsFrom
<1>12. StandsFrom(k, sq2, q, lg, id)
  BY <1>3, <1>5, <1>7, <1>8, <1>9, <1>10, <1>11 DEF StandsFrom
<1> QED
  BY <1>5, <1>12 DEF Stands

(* Frames that were sent, w, and frames that wait, l.                      *)
LEMMA LineOf ==
  ASSUME NEW S, NEW w \in Seq(S), NEW l \in Seq(S), NEW sq, sq = w \o l
  PROVE  /\ sq \in Seq(S) /\ Len(w) \in Nat /\ Len(l) \in Nat /\ Len(sq) = Len(w) + Len(l)
         /\ DOMAIN sq = 1..(Len(w) + Len(l)) /\ DOMAIN w = 1..Len(w) /\ DOMAIN l = 1..Len(l)
         /\ \A i \in DOMAIN w : i \in DOMAIN sq /\ sq[i] = w[i]
         /\ \A i \in DOMAIN l : Len(w) + i \in DOMAIN sq /\ sq[Len(w) + i] = l[i]
<1>1. /\ Len(sq) = Len(w) + Len(l) /\ sq \in Seq(S)
      /\ \A i \in 1..(Len(w) + Len(l)) : sq[i] = IF i <= Len(w) THEN w[i] ELSE l[i - Len(w)]
  BY ConcatProperties
<1>2. Len(w) \in Nat /\ Len(l) \in Nat /\ DOMAIN w = 1..Len(w) /\ DOMAIN l = 1..Len(l)
  OBVIOUS
<1>3. DOMAIN sq = 1..(Len(w) + Len(l))
  BY <1>1
<1>4. ASSUME NEW i \in DOMAIN w PROVE i \in DOMAIN sq /\ sq[i] = w[i]
  BY <1>1, <1>2, <1>3
<1>5. ASSUME NEW i \in DOMAIN l PROVE Len(w) + i \in DOMAIN sq /\ sq[Len(w) + i] = l[i]
  <2>1. Len(w) + i \in 1..(Len(w) + Len(l)) /\ ~(Len(w) + i <= Len(w)) /\ Len(w) + i - Len(w) = i
    BY <1>2
  <2> QED
    BY <1>1, <1>3, <2>1
<1> QED
  BY <1>1, <1>2, <1>3, <1>4, <1>5

LEMMA SameSeq ==
  ASSUME NEW S, NEW s \in Seq(S), NEW t \in Seq(S), Len(s) = Len(t), \A i \in DOMAIN s : s[i] = t[i]
  PROVE  s = t
<1>1. \A i \in 1..Len(s) : s[i] = t[i]
  OBVIOUS
<1> QED
  BY <1>1, SeqEqual

LEMMA LineGrows ==
  ASSUME NEW S, NEW w \in Seq(S), NEW l \in Seq(S), NEW f \in S
  PROVE  w \o Append(l, f) = Append(w \o l, f)
<1> DEFINE more == Append(l, f)
           old == w \o l
           left == w \o more
           right == Append(old, f)
<1>1. /\ more \in Seq(S) /\ Len(l) \in Nat
      /\ DOMAIN l = 1..Len(l) /\ DOMAIN more = 1..(Len(l) + 1)
      /\ \A i \in DOMAIN l : more[i] = l[i] /\ i \in DOMAIN more
      /\ more[Len(l) + 1] = f /\ Len(more) = Len(l) + 1
  OBVIOUS
<1> HIDE DEF more
<1>2. /\ left \in Seq(S) /\ Len(left) = Len(w) + (Len(l) + 1) /\ Len(w) \in Nat
      /\ DOMAIN w = 1..Len(w)
      /\ \A i \in DOMAIN w : left[i] = w[i]
      /\ \A i \in DOMAIN more : left[Len(w) + i] = more[i]
  <2>1. more \in Seq(S)
    BY <1>1
  <2>2. /\ left \in Seq(S) /\ Len(left) = Len(w) + Len(more) /\ Len(w) \in Nat
        /\ DOMAIN w = 1..Len(w)
        /\ \A i \in DOMAIN w : left[i] = w[i]
        /\ \A i \in DOMAIN more : left[Len(w) + i] = more[i]
    BY <2>1, LineOf
  <2> HIDE DEF left
  <2> QED
    BY <1>1, <2>2
<1> HIDE DEF left
<1>3. /\ old \in Seq(S) /\ Len(old) = Len(w) + Len(l)
      /\ \A i \in DOMAIN w : i \in DOMAIN old /\ old[i] = w[i]
      /\ \A i \in DOMAIN l : Len(w) + i \in DOMAIN old /\ old[Len(w) + i] = l[i]
  BY LineOf
<1> HIDE DEF old
<1>4. /\ right \in Seq(S) /\ Len(right) = Len(old) + 1 /\ right[Len(old) + 1] = f
      /\ \A i \in DOMAIN old : right[i] = old[i]
  <2>1. old \in Seq(S)
    BY <1>3
  <2> QED
    BY <2>1, Appended
<1> HIDE DEF right
<1>5. ASSUME NEW i \in DOMAIN left PROVE left[i] = right[i]
  <2>1. i \in 1..(Len(w) + Len(l) + 1)
    BY <1>1, <1>2
  <2>2. CASE i \in DOMAIN w
    BY <1>2, <1>3, <1>4, <2>2
  <2>3. CASE i \notin DOMAIN w
    <3>1. i - Len(w) \in DOMAIN more /\ Len(w) + (i - Len(w)) = i
      BY <1>1, <1>2, <2>1, <2>3
    <3>2. left[i] = more[i - Len(w)]
      BY <1>2, <3>1
    <3>3. CASE i - Len(w) \in DOMAIN l
      <4>1. Len(w) + (i - Len(w)) \in DOMAIN old /\ old[Len(w) + (i - Len(w))] = l[i - Len(w)]
        BY <1>3, <3>3
      <4> QED
        BY <1>1, <1>4, <3>1, <3>2, <3>3, <4>1
    <3>4. CASE i - Len(w) \notin DOMAIN l
      <4>1. i - Len(w) = Len(l) + 1 /\ i = Len(old) + 1
        BY <1>1, <1>2, <1>3, <3>1, <3>4
      <4> QED
        BY <1>1, <1>4, <3>2, <4>1
    <3> QED
      BY <3>3, <3>4
  <2> QED
    BY <2>2, <2>3
<1>6. left = right
  <2>1. left \in Seq(S) /\ right \in Seq(S) /\ Len(left) = Len(right)
    BY <1>1, <1>2, <1>3, <1>4
  <2> QED
    BY <1>5, <2>1, SameSeq
<1> QED
  BY <1>6 DEF left, right, more, old

(* The first of a line gives up its place when it leaves.                  *)
LEMMA TailIsGivenUp ==
  ASSUME NEW S, NEW sq \in Seq(S), sq # <<>>
  PROVE  Tail(sq) = GivenUp(sq, 1)
<1> DEFINE rest == Tail(sq)
           left == GivenUp(sq, 1)
<1>1. /\ 1 \in DOMAIN sq /\ rest \in Seq(S) /\ Len(rest) = Len(sq) - 1
      /\ \A i \in 1..(Len(sq) - 1) : rest[i] = sq[i + 1]
  OBVIOUS
<1>2. /\ left \in Seq(S) /\ Len(left) = Len(sq) - 1 /\ DOMAIN left = 1..(Len(sq) - 1)
      /\ \A i \in DOMAIN left : ~(i < 1) => left[i] = sq[i + 1]
  <2> HIDE DEF left
  <2>1. 1 \in DOMAIN sq /\ left = GivenUp(sq, 1)
    BY <1>1 DEF left
  <2> QED
    BY <2>1, Shifted
<1> HIDE DEF rest, left
<1>3. \A i \in DOMAIN left : rest[i] = left[i]
  BY <1>1, <1>2
<1>4. DOMAIN rest = DOMAIN left
  BY <1>1, <1>2
<1> QED
  BY <1>1, <1>2, <1>3, <1>4, SameSeq DEF rest, left

LEMMA LineSent ==
  ASSUME NEW S, NEW w \in Seq(S), NEW l \in Seq(S), l # <<>>
  PROVE  Append(w, Head(l)) \o Tail(l) = w \o l
<1> DEFINE sent == Append(w, Head(l))
           rest == Tail(l)
           left == sent \o rest
           right == w \o l
<1>1. /\ Len(l) \in Nat /\ Len(l) >= 1 /\ DOMAIN l = 1..Len(l) /\ Head(l) = l[1] /\ l[1] \in S
      /\ rest \in Seq(S) /\ Len(rest) = Len(l) - 1 /\ DOMAIN rest = 1..(Len(l) - 1)
      /\ \A i \in 1..(Len(l) - 1) : rest[i] = l[i + 1]
  OBVIOUS
<1>2. /\ Len(w) \in Nat /\ DOMAIN w = 1..Len(w) /\ sent \in Seq(S) /\ Len(sent) = Len(w) + 1
      /\ DOMAIN sent = 1..(Len(w) + 1)
      /\ \A i \in DOMAIN w : sent[i] = w[i]
      /\ sent[Len(w) + 1] = l[1]
  BY <1>1
<1> HIDE DEF sent, rest
<1>3. /\ left \in Seq(S) /\ Len(left) = Len(w) + 1 + (Len(l) - 1)
      /\ \A i \in DOMAIN sent : left[i] = sent[i]
      /\ \A i \in DOMAIN rest : left[Len(sent) + i] = rest[i]
  <2>1. rest \in Seq(S) /\ sent \in Seq(S)
    BY <1>1, <1>2
  <2>2. /\ left \in Seq(S) /\ Len(left) = Len(sent) + Len(rest)
        /\ \A i \in DOMAIN sent : left[i] = sent[i]
        /\ \A i \in DOMAIN rest : left[Len(sent) + i] = rest[i]
    BY <2>1, LineOf
  <2> HIDE DEF left
  <2> QED
    BY <1>1, <1>2, <2>2
<1>4. /\ right \in Seq(S) /\ Len(right) = Len(w) + Len(l)
      /\ \A i \in DOMAIN w : right[i] = w[i]
      /\ \A i \in DOMAIN l : right[Len(w) + i] = l[i]
  BY LineOf
<1> HIDE DEF left, right
<1>5. ASSUME NEW i \in DOMAIN left PROVE left[i] = right[i]
  <2>1. i \in 1..(Len(w) + Len(l))
    BY <1>1, <1>2, <1>3
  <2>2. CASE i \in DOMAIN w
    <3>1. i \in DOMAIN sent
      BY <1>2, <2>2
    <3> QED
      BY <1>2, <1>3, <1>4, <2>2, <3>1
  <2>3. CASE i = Len(w) + 1
    <3>1. i \in DOMAIN sent /\ 1 \in DOMAIN l
      BY <1>1, <1>2, <2>3
    <3> QED
      BY <1>2, <1>3, <1>4, <2>3, <3>1
  <2>4. CASE i > Len(w) + 1
    <3> DEFINE j == i - (Len(w) + 1)
    <3>0. /\ Len(w) \in Nat /\ Len(l) \in Nat /\ i \in Nat /\ i <= Len(w) + Len(l)
          /\ Len(sent) = Len(w) + 1
      BY <1>1, <1>2, <2>1
    <3>1. i \in Int /\ j \in Int /\ 1 <= j /\ j <= Len(l) - 1
      BY <2>4, <3>0
    <3>2. Len(sent) + j = i /\ Len(w) + (j + 1) = i
      BY <3>0
    <3> HIDE DEF j
    <3>3. j \in 1..(Len(l) - 1) /\ j + 1 \in DOMAIN l /\ j \in DOMAIN rest
      BY <1>1, <3>1
    <3>4. left[i] = rest[j] /\ right[i] = l[j + 1] /\ rest[j] = l[j + 1]
      BY <1>1, <1>3, <1>4, <3>2, <3>3
    <3> QED
      BY <3>4
  <2> QED
    BY <1>2, <2>1, <2>2, <2>3, <2>4
<1>6. left = right
  <2>1. left \in Seq(S) /\ right \in Seq(S) /\ Len(left) = Len(right)
    BY <1>1, <1>2, <1>3, <1>4
  <2> QED
    BY <1>5, <2>1, SameSeq
<1> QED
  BY <1>6 DEF left, right, sent, rest

LEMMA LineGivenUp ==
  ASSUME NEW S, NEW w \in Seq(S), NEW l \in Seq(S), NEW p \in DOMAIN l
  PROVE  /\ w \o GivenUp(l, p) = GivenUp(w \o l, Len(w) + p)
         /\ Len(w) + p \in DOMAIN (w \o l)
<1> DEFINE less == GivenUp(l, p)
           left == w \o less
           old == w \o l
           q == Len(w) + p
           right == GivenUp(old, q)
<1>1. /\ less \in Seq(S) /\ Len(less) = Len(l) - 1 /\ DOMAIN less = 1..(Len(l) - 1)
      /\ \A i \in DOMAIN less : i < p => i \in DOMAIN l /\ less[i] = l[i]
      /\ \A i \in DOMAIN less : ~(i < p) => i + 1 \in DOMAIN l /\ less[i] = l[i + 1]
  BY Shifted
<1>2. /\ old \in Seq(S) /\ Len(old) = Len(w) + Len(l) /\ Len(w) \in Nat /\ Len(l) \in Nat
      /\ DOMAIN w = 1..Len(w) /\ DOMAIN l = 1..Len(l) /\ DOMAIN old = 1..(Len(w) + Len(l))
      /\ \A i \in DOMAIN w : old[i] = w[i]
      /\ \A i \in DOMAIN l : old[Len(w) + i] = l[i]
  BY LineOf
<1>q. q \in DOMAIN old /\ q = Len(w) + p /\ p \in 1..Len(l)
  BY <1>2
<1> HIDE DEF less, old, q
<1>3. /\ left \in Seq(S) /\ Len(left) = Len(w) + (Len(l) - 1)
      /\ \A i \in DOMAIN w : left[i] = w[i]
      /\ \A i \in DOMAIN less : left[Len(w) + i] = less[i]
  <2>1. less \in Seq(S)
    BY <1>1
  <2>2. /\ left \in Seq(S) /\ Len(left) = Len(w) + Len(less)
        /\ \A i \in DOMAIN w : left[i] = w[i]
        /\ \A i \in DOMAIN less : left[Len(w) + i] = less[i]
    BY <2>1, LineOf
  <2> HIDE DEF left
  <2> QED
    BY <1>1, <2>2
<1>4. /\ right \in Seq(S) /\ Len(right) = Len(old) - 1 /\ DOMAIN right = 1..(Len(old) - 1)
      /\ \A i \in DOMAIN right : i < q => right[i] = old[i]
      /\ \A i \in DOMAIN right : ~(i < q) => right[i] = old[i + 1]
  <2>1. old \in Seq(S) /\ q \in DOMAIN old
    BY <1>2, <1>q
  <2> QED
    BY <2>1, Shifted
<1> HIDE DEF left, right
<1>5. ASSUME NEW i \in DOMAIN left PROVE left[i] = right[i]
  <2>1. i \in 1..(Len(w) + Len(l) - 1) /\ i \in DOMAIN right
    BY <1>1, <1>2, <1>3, <1>4, <1>q
  <2>2. CASE i \in DOMAIN w
    <3>1. i < q
      BY <1>2, <1>q, <2>2
    <3> QED
      BY <1>2, <1>3, <1>4, <2>1, <2>2, <3>1
  <2>3. CASE i \notin DOMAIN w
    <3> DEFINE j == i - Len(w)
    <3>1. j \in DOMAIN less /\ Len(w) + j = i /\ Len(w) + (j + 1) = i + 1 /\ (j < p <=> i < q)
      BY <1>1, <1>2, <1>q, <2>1, <2>3
    <3> HIDE DEF j
    <3>2. left[i] = less[j]
      BY <1>3, <3>1
    <3>3. CASE j < p
      <4>1. j \in DOMAIN l /\ less[j] = l[j] /\ right[i] = old[i] /\ old[i] = l[j]
        BY <1>1, <1>2, <1>4, <2>1, <3>1, <3>3
      <4> QED
        BY <3>2, <4>1
    <3>4. CASE ~(j < p)
      <4>1. j + 1 \in DOMAIN l /\ less[j] = l[j + 1]
        BY <1>1, <3>1, <3>4
      <4>2. right[i] = old[i + 1] /\ old[i + 1] = l[j + 1]
        BY <1>2, <1>4, <2>1, <3>1, <3>4, <4>1
      <4> QED
        BY <3>2, <4>1, <4>2
    <3> QED
      BY <3>3, <3>4
  <2> QED
    BY <2>2, <2>3
<1>6. left = right
  <2>1. Len(left) = Len(right)
    BY <1>2, <1>3, <1>4
  <2> QED
    BY <1>3, <1>4, <1>5, <2>1, SameSeq
<1> QED
  BY <1>6, <1>q DEF left, right, less, old, q

(* The events of subscription id among the frames l that wait: their pump  *)
(* is sending, the user could read them, and there is one at most.         *)
Sendable(f, si, lg) == f.n \in DOMAIN lg /\ (lg[f.n].mine \/ lg[f.n].container \in si)

Queued(l, id, pm, si, lg) ==
  /\ \A i \in DOMAIN l : IsEvent(l[i], id) => pm = "sending" /\ Sendable(l[i], si, lg)
  /\ \A i, j \in DOMAIN l : IsEvent(l[i], id) /\ IsEvent(l[j], id) => i = j

LEMMA QueuedReply ==
  ASSUME NEW l \in Seq(FrameSet), NEW id, NEW pm, NEW si, NEW lg, Queued(l, id, pm, si, lg),
         NEW f \in FrameSet, ~IsEvent(f, id), NEW l2, l2 = Append(l, f)
  PROVE  Queued(l2, id, pm, si, lg)
<1>1. /\ \A i \in DOMAIN l : l2[i] = l[i] /\ i \in DOMAIN l2
      /\ l2[Len(l) + 1] = f
      /\ \A i \in DOMAIN l2 : i \in DOMAIN l \/ i = Len(l) + 1
  BY Appended
<1>2. ASSUME NEW i \in DOMAIN l2, IsEvent(l2[i], id) PROVE i \in DOMAIN l /\ l2[i] = l[i]
  BY <1>1, <1>2
<1> QED
  BY <1>2 DEF Queued

LEMMA QueuedTake ==
  ASSUME NEW l \in Seq(FrameSet), NEW id, NEW si, NEW lg, NEW pm, Queued(l, id, pm, si, lg),
         pm # "sending",
         NEW f \in FrameSet, Sendable(f, si, lg), NEW l2, l2 = Append(l, f)
  PROVE  Queued(l2, id, "sending", si, lg)
<1>1. /\ \A i \in DOMAIN l : l2[i] = l[i] /\ i \in DOMAIN l2
      /\ l2[Len(l) + 1] = f
      /\ \A i \in DOMAIN l2 : i \in DOMAIN l \/ i = Len(l) + 1
  BY Appended
<1>2. ASSUME NEW i \in DOMAIN l2, IsEvent(l2[i], id) PROVE i = Len(l) + 1
  BY <1>1, <1>2 DEF Queued
<1> QED
  BY <1>1, <1>2 DEF Queued

(* Nothing of a pump that does not send waits.                             *)
LEMMA QueuedNone ==
  ASSUME NEW l, NEW id, NEW pm, NEW si, NEW lg, Queued(l, id, pm, si, lg), pm # "sending",
         NEW pm2, NEW si2, NEW lg2
  PROVE  Queued(l, id, pm2, si2, lg2)
BY DEF Queued

LEMMA QueuedSent ==
  ASSUME NEW l \in Seq(FrameSet), l # <<>>, NEW id, NEW pm, NEW si, NEW lg,
         Queued(l, id, pm, si, lg), NEW l2, l2 = Tail(l),
         NEW pm2, pm2 = IF IsEvent(Head(l), id) THEN "waiting" ELSE pm
  PROVE  Queued(l2, id, pm2, si, lg)
<1>1. /\ 1 \in DOMAIN l /\ Head(l) = l[1]
      /\ \A i \in DOMAIN l2 : i + 1 \in DOMAIN l /\ l2[i] = l[i + 1] /\ i \in Int /\ i + 1 # 1
  BY HeadOff
<1>2. CASE IsEvent(Head(l), id)
  <2>1. ASSUME NEW i \in DOMAIN l2 PROVE ~IsEvent(l2[i], id)
    BY <1>1, <1>2 DEF Queued
  <2> QED
    BY <2>1 DEF Queued
<1>3. CASE ~IsEvent(Head(l), id)
  <2>1. ASSUME NEW i \in DOMAIN l2, NEW j \in DOMAIN l2, IsEvent(l2[i], id), IsEvent(l2[j], id)
        PROVE  i = j
    <3>1. i + 1 = j + 1
      BY <1>1, <2>1 DEF Queued
    <3> QED
      BY <1>1, <3>1
  <2>2. ASSUME NEW i \in DOMAIN l2, IsEvent(l2[i], id)
        PROVE  pm2 = "sending" /\ Sendable(l2[i], si, lg)
    BY <1>1, <1>3, <2>2 DEF Queued
  <2> QED
    BY <2>1, <2>2 DEF Queued
<1> QED
  BY <1>2, <1>3

LEMMA QueuedGivenUp ==
  ASSUME NEW l \in Seq(FrameSet), NEW id, NEW pm, NEW si, NEW lg, Queued(l, id, pm, si, lg),
         NEW r \in DOMAIN l, NEW l2, l2 = GivenUp(l, r)
  PROVE  /\ Queued(l2, id, pm, si, lg)
         /\ IsEvent(l[r], id) => \A i \in DOMAIN l2 : ~IsEvent(l2[i], id)
<1>1. /\ DOMAIN l2 = 1..(Len(l) - 1) /\ DOMAIN l = 1..Len(l) /\ Len(l) \in Nat /\ r \in DOMAIN l
      /\ \A i \in DOMAIN l2 : i < r => i \in DOMAIN l /\ l2[i] = l[i]
      /\ \A i \in DOMAIN l2 : ~(i < r) => i + 1 \in DOMAIN l /\ l2[i] = l[i + 1]
  BY Shifted
<1>2. \A i \in DOMAIN l2 : i \in Int /\ Old(i, r) \in DOMAIN l /\ Old(i, r) # r /\ l2[i] = l[Old(i, r)]
  BY <1>1 DEF Old
<1>3. \A i, j \in DOMAIN l2 : Old(i, r) = Old(j, r) => i = j
  BY <1>1 DEF Old
<1> QED
  BY <1>2, <1>3 DEF Queued

LEMMA QueuedLater ==
  ASSUME NEW l, NEW id, NEW pm, NEW si, NEW T, NEW lg \in Seq(T), Queued(l, id, pm, si, lg),
         NEW si2, si \subseteq si2, NEW e \in T, NEW lg2, lg2 = lg \/ lg2 = Append(lg, e)
  PROVE  Queued(l, id, pm, si2, lg2)
<1>1. \A n \in DOMAIN lg : n \in DOMAIN lg2 /\ lg2[n] = lg[n]
  <2>1. CASE lg2 = lg
    BY <2>1
  <2>2. CASE lg2 = Append(lg, e)
    BY <2>2
  <2> QED
    BY <2>1, <2>2
<1>2. \A f : Sendable(f, si, lg) => Sendable(f, si2, lg2)
  BY <1>1 DEF Sendable
<1> QED
  BY <1>2 DEF Queued

(* What cancelling the pump of subscription id leaves of the line.         *)
LEMMA WithoutIs ==
  ASSUME NEW l \in Seq(FrameSet), NEW id, NEW ids, ids \subseteq {id}
  PROVE  \/ /\ Without(l, ids) = l
            /\ id \in ids => \A i \in DOMAIN l : ~IsEvent(l[i], id)
         \/ \E r \in DOMAIN l : id \in ids /\ IsEvent(l[r], id) /\ Without(l, ids) = GivenUp(l, r)
<1> DEFINE places == {i \in DOMAIN l : l[i].type = "event" /\ l[i].id \in ids}
           place == CHOOSE i \in places : TRUE
<1>1. CASE places = {}
  BY <1>1 DEF Without, IsEvent
<1>2. CASE places # {}
  <2>1. place \in places
    BY <1>2
  <2>2. Without(l, ids) = GivenUp(l, place)
    BY <1>2 DEF Without, GivenUp
  <2> QED
    BY <2>1, <2>2 DEF IsEvent
<1> QED
  BY <1>1, <1>2

(* A connection's line in two parts.                                       *)
Joined(w, l) == w \o l

LEMMA JoinedIs ==
  ASSUME NEW w \in Seq(FrameSet), NEW l \in Seq(FrameSet)
  PROVE  /\ Joined(w, l) \in Seq(FrameSet)
         /\ Len(w) <= Len(Joined(w, l))
         /\ \A i \in DOMAIN w : Joined(w, l)[i] = w[i]
         /\ \A i \in DOMAIN l : Len(w) + i \in DOMAIN Joined(w, l) /\ Joined(w, l)[Len(w) + i] = l[i]
         /\ \A f \in FrameSet : Joined(w, Append(l, f)) = Append(Joined(w, l), f)
         /\ l # <<>> => Joined(Append(w, Head(l)), Tail(l)) = Joined(w, l)
         /\ \A r \in DOMAIN l : Joined(w, GivenUp(l, r)) = GivenUp(Joined(w, l), Len(w) + r)
<1> DEFINE sq == w \o l
<1>1. /\ sq \in Seq(FrameSet) /\ Len(w) <= Len(sq)
      /\ \A i \in DOMAIN w : sq[i] = w[i]
      /\ \A i \in DOMAIN l : Len(w) + i \in DOMAIN sq /\ sq[Len(w) + i] = l[i]
  BY LineOf
<1>2. \A f \in FrameSet : w \o Append(l, f) = Append(w \o l, f)
  BY LineGrows
<1>3. l # <<>> => Append(w, Head(l)) \o Tail(l) = w \o l
  BY LineSent
<1>4. \A r \in DOMAIN l : w \o GivenUp(l, r) = GivenUp(w \o l, Len(w) + r)
  BY LineGivenUp
<1> HIDE DEF sq
<1> QED
  BY <1>1, <1>2, <1>3, <1>4 DEF Joined, sq

-----------------------------------------------------------------------------
(* The invariant of the event stream.  What a connection that is cut still *)
(* holds in memory does not matter: nothing more is sent on it.            *)

StreamTypes ==
  /\ subs \in [Conns -> SUBSET SubIds]
  /\ bus \subseteq Slots
  /\ queue \in [Slots -> Seq(Nat)]
  /\ known \in [Slots -> SUBSET Containers]
  /\ since \in [Slots -> SUBSET Containers]
  /\ pump \in [Slots -> {"none", "waiting", "sending", "gone"}]
  /\ lock \in [Conns -> Seq(FrameSet)]
  /\ wire \in [Conns -> Seq(FrameSet)]
  /\ readable \subseteq Containers
  /\ log \in Seq(Own \cup Others)

(* A subscription in the dictionary is on the bus, and stands while its    *)
(* pump serves it; what the pump knows is readable was so since it was     *)
(* made.                                                                   *)
Subscribed(c, id) ==
  /\ <<c, id>> \in bus <=> id \in subs[c]
  /\ Served(c, id) => Stands(Line(c), queue[<<c, id>>], log, id)
  /\ id \in subs[c] =>
       /\ readable \subseteq since[<<c, id>>] /\ known[<<c, id>>] \subseteq since[<<c, id>>]
  /\ pump[<<c, id>>] \in {"waiting", "sending"} => id \in subs[c]
  /\ Queued(lock[c], id, pump[<<c, id>>], since[<<c, id>>], log)

Connected(c) ==
  /\ Proper(Line(c), log)
  /\ \A i \in DOMAIN Line(c) : Line(c)[i].n <= Len(log)
  /\ \A id \in SubIds : Subscribed(c, id)

StreamInv ==
  /\ StreamTypes
  /\ \A c \in Conns : Proper(wire[c], log) /\ (c \notin cut => Connected(c))

LEMMA StreamTypesSplit ==
  ASSUME StreamTypes
  PROVE  /\ subs \in [Conns -> SUBSET SubIds]
         /\ bus \subseteq Slots
         /\ queue \in [Slots -> Seq(Nat)]
         /\ known \in [Slots -> SUBSET Containers]
         /\ since \in [Slots -> SUBSET Containers]
         /\ pump \in [Slots -> {"none", "waiting", "sending", "gone"}]
         /\ lock \in [Conns -> Seq(FrameSet)]
         /\ wire \in [Conns -> Seq(FrameSet)]
         /\ readable \subseteq Containers
         /\ log \in Seq(Own \cup Others)
         /\ Len(log) \in Nat
BY DEF StreamTypes

(* A frame is a frame, and nobody else's.                                  *)
LEMMA FrameIs ==
  ASSUME NEW type \in {"ack", "error", "unack", "event"}, NEW id \in SubIds, NEW n \in Nat
  PROVE  /\ Frame(type, id, n) \in FrameSet
         /\ Frame(type, id, n).type = type /\ Frame(type, id, n).id = id /\ Frame(type, id, n).n = n
BY DEF Frame, FrameSet

(* Another connection's step, and one that only the client sees.           *)
LEMMA OthersConnected ==
  ASSUME NEW c \in Conns, Connected(c), log' = log, readable' = readable,
         wire'[c] = wire[c], lock'[c] = lock[c], subs'[c] = subs[c],
         \A id \in SubIds : /\ <<c, id>> \in bus' <=> <<c, id>> \in bus
                            /\ queue'[<<c, id>>] = queue[<<c, id>>]
                            /\ known'[<<c, id>>] = known[<<c, id>>]
                            /\ pump'[<<c, id>>] = pump[<<c, id>>]
                            /\ since'[<<c, id>>] = since[<<c, id>>]
  PROVE  Connected(c)'
<1>1. Line(c)' = Line(c)
  BY DEF Line
<1>2. ASSUME NEW id \in SubIds PROVE Subscribed(c, id)'
  BY <1>1 DEF Subscribed, Served, Connected
<1> QED
  BY <1>1, <1>2 DEF Connected

LEMMA ClientKeeps ==
  ASSUME StreamInv, cut \subseteq cut',
         UNCHANGED <<subs, bus, queue, known, pump, lock, wire, since, log, readable>>
  PROVE  StreamInv'
<1>1. StreamTypes'
  BY DEF StreamInv, StreamTypes
<1>2. ASSUME NEW c \in Conns, c \notin cut PROVE Connected(c)'
  BY <1>2, OthersConnected DEF StreamInv
<1>3. ASSUME NEW c \in Conns PROVE Proper(wire[c], log)'
  BY DEF StreamInv
<1> QED
  BY <1>1, <1>2, <1>3 DEF StreamInv

LEMMA ClientStep ==
  ASSUME Client
  PROVE  /\ cut \subseteq cut'
         /\ UNCHANGED <<subs, bus, queue, known, pump, lock, wire, since, log, readable>>
BY DEF Client, AskSubscribe, AskUnsubscribe, OnOpen, Lose, OnClose, Reconnect, serverVars, worldVars, netVars

(* What a step of connection d leaves to show: the types, and that d's own *)
(* stream is in order.                                                     *)
LEMMA ConnectionKeeps ==
  ASSUME StreamInv, StreamTypes', NEW d \in Conns, cut' = cut, log' = log, readable' = readable,
         \A c \in Conns \ {d} : wire'[c] = wire[c] /\ lock'[c] = lock[c] /\ subs'[c] = subs[c],
         \A c \in Conns \ {d}, id \in SubIds :
            /\ <<c, id>> \in bus' <=> <<c, id>> \in bus
            /\ queue'[<<c, id>>] = queue[<<c, id>>]
            /\ known'[<<c, id>>] = known[<<c, id>>]
            /\ pump'[<<c, id>>] = pump[<<c, id>>]
            /\ since'[<<c, id>>] = since[<<c, id>>],
         Proper(wire'[d], log), d \notin cut => Connected(d)'
  PROVE  StreamInv'
<1>1. ASSUME NEW c \in Conns, c # d PROVE Proper(wire[c], log)'
  BY <1>1 DEF StreamInv
<1>2. ASSUME NEW c \in Conns, c # d, c \notin cut PROVE Connected(c)'
  <2>1. Connected(c)
    BY <1>2 DEF StreamInv
  <2> QED
    BY <1>2, <2>1, OthersConnected
<1>3. Proper(wire[d], log)'
  OBVIOUS
<1> QED
  BY <1>1, <1>2, <1>3 DEF StreamInv

(* The frames l that wait on connection c after its subscriptions have     *)
(* gone as they go, and before the handler's reply joins them.             *)
FitWith(c, l, id) ==
  /\ Served(c, id) => Stands(Joined(wire[c], l), queue[<<c, id>>], log, id)
  /\ Queued(l, id, pump[<<c, id>>], since[<<c, id>>], log)

LineFit(c, l) ==
  /\ l \in Seq(FrameSet)
  /\ Proper(Joined(wire[c], l), log)
  /\ \A i \in DOMAIN Joined(wire[c], l) : Joined(wire[c], l)[i].n <= Len(log)

LEMMA LineReply ==
  ASSUME StreamTypes, NEW c \in Conns, NEW l, LineFit(c, l), NEW f \in FrameSet, f.type # "event",
         f.n <= Len(log), log' = log, wire'[c] = wire[c], lock'[c] = Append(l, f)
  PROVE  /\ Joined(wire[c], l) \in Seq(FrameSet)
         /\ Line(c)' = Append(Joined(wire[c], l), f)
         /\ Proper(Line(c), log)'
         /\ \A i \in DOMAIN Line(c)' : Line(c)'[i].n <= Len(log')
<1> DEFINE old == Joined(wire[c], l)
           new == Line(c)'
<1>1. wire[c] \in Seq(FrameSet) /\ l \in Seq(FrameSet)
  BY StreamTypesSplit DEF LineFit
<1>2. new = Append(old, f)
  <2>1. new = Joined(wire[c], Append(l, f))
    BY DEF Line, Joined
  <2>2. Joined(wire[c], Append(l, f)) = Append(Joined(wire[c], l), f)
    BY <1>1, JoinedIs
  <2> QED
    BY <2>1, <2>2
<1>3. old \in Seq(FrameSet)
  BY <1>1, JoinedIs
<1>4. Proper(old, log) /\ \A i \in DOMAIN old : old[i].n <= Len(log)
  BY DEF LineFit
<1> HIDE DEF old, new
<1>5. Proper(new, log)
  BY <1>2, <1>3, <1>4, ProperReply
<1>6. \A i \in DOMAIN new : new[i].n <= Len(log)
  BY <1>2, <1>3, <1>4, Appended
<1> QED
  BY <1>2, <1>3, <1>5, <1>6 DEF old, new

LEMMA SubscribedReply ==
  ASSUME StreamTypes, NEW c \in Conns, NEW id \in SubIds, Subscribed(c, id),
         NEW l, LineFit(c, l), FitWith(c, l, id),
         NEW f \in FrameSet, f.type # "event", f # Frame("unack", id, 0), f.n <= Len(log),
         log' = log, readable' = readable, wire'[c] = wire[c], lock'[c] = Append(l, f),
         id \in subs'[c] <=> id \in subs[c], <<c, id>> \in bus' <=> <<c, id>> \in bus,
         queue'[<<c, id>>] = queue[<<c, id>>], known'[<<c, id>>] = known[<<c, id>>],
         pump'[<<c, id>>] = pump[<<c, id>>], since'[<<c, id>>] = since[<<c, id>>]
  PROVE  Subscribed(c, id)'
<1> DEFINE old == Joined(wire[c], l)
           new == Line(c)'
<1>1. old \in Seq(FrameSet) /\ new = Append(old, f)
  BY LineReply
<1>2. Served(c, id) => Stands(old, queue[<<c, id>>], log, id)
  BY DEF FitWith
<1>3. ~IsEvent(f, id)
  BY DEF IsEvent
<1> HIDE DEF old, new
<1>4. Served(c, id) => Stands(new, queue[<<c, id>>], log, id)
  BY <1>1, <1>2, <1>3, StandsReply
<1>5. Queued(lock'[c], id, pump[<<c, id>>], since[<<c, id>>], log)
  BY <1>3, QueuedReply DEF FitWith, LineFit
<1> QED
  BY <1>4, <1>5 DEF Subscribed, Served, new

(* The whole line, before a reply joins it.                                *)
LEMMA LineAsItIs ==
  ASSUME StreamTypes, NEW c \in Conns, Connected(c)
  PROVE  /\ Line(c) = Joined(wire[c], lock[c])
         /\ LineFit(c, lock[c])
         /\ \A id \in SubIds : Subscribed(c, id) /\ FitWith(c, lock[c], id)
BY StreamTypesSplit DEF Line, Joined, LineFit, FitWith, Connected, Subscribed

LEMMA SubscribeKeeps ==
  ASSUME StreamInv, NEW c \in Conns, NEW id \in SubIds, Subscribe(c, id)
  PROVE  StreamInv'
<1> DEFINE s == <<c, id>>
           ack == Frame("ack", id, Len(log))
<1>t. StreamTypes
  BY DEF StreamInv
<1>0. /\ id \notin subs[c] /\ subs' = [subs EXCEPT ![c] = @ \cup {id}]
      /\ bus' = bus \cup {s} /\ queue' = [queue EXCEPT ![s] = <<>>]
      /\ known' = [known EXCEPT ![s] = {}] /\ pump' = [pump EXCEPT ![s] = "waiting"]
      /\ lock' = [lock EXCEPT ![c] = Append(@, ack)] /\ since' = [since EXCEPT ![s] = readable]
      /\ UNCHANGED <<cut, wire, log, readable>>
  BY DEF Subscribe, Receives, Reply, FirstKnown, worldVars
<1>1. /\ ack \in FrameSet /\ ack.type = "ack" /\ ack.id = id /\ ack.n = Len(log) /\ Len(log) \in Nat
  BY <1>t, StreamTypesSplit, FrameIs
<1>s. s \in Slots
  BY DEF Slots
<1>2. StreamTypes'
  <2>1. lock' \in [Conns -> Seq(FrameSet)]
    BY <1>0, <1>1, <1>t, StreamTypesSplit
  <2>2. queue' \in [Slots -> Seq(Nat)]
    <3>1. <<>> \in Seq(Nat)
      OBVIOUS
    <3>2. queue \in [Slots -> Seq(Nat)] /\ queue' = [queue EXCEPT ![s] = <<>>]
      BY <1>0, <1>t, StreamTypesSplit
    <3> HIDE DEF s
    <3> QED
      BY <3>1, <3>2
  <2>3. subs' \in [Conns -> SUBSET SubIds] /\ bus' \subseteq Slots
    BY <1>0, <1>s, <1>t, StreamTypesSplit
  <2>4. /\ known' \in [Slots -> SUBSET Containers] /\ since' \in [Slots -> SUBSET Containers]
        /\ pump' \in [Slots -> {"none", "waiting", "sending", "gone"}]
    BY <1>0, <1>t, StreamTypesSplit
  <2> QED
    BY <1>0, <1>t, <2>1, <2>2, <2>3, <2>4 DEF StreamTypes
<1>3. /\ subs'[c] = subs[c] \cup {id} /\ lock'[c] = Append(lock[c], ack) /\ wire'[c] = wire[c]
      /\ queue'[s] = <<>> /\ known'[s] = {} /\ pump'[s] = "waiting" /\ since'[s] = readable
      /\ s \in bus'
  BY <1>0, <1>s, <1>t, StreamTypesSplit
<1>4. \A d \in Conns, i \in SubIds : <<d, i>> # s =>
        /\ <<d, i>> \in Slots
        /\ <<d, i>> \in bus' <=> <<d, i>> \in bus
        /\ queue'[<<d, i>>] = queue[<<d, i>>] /\ known'[<<d, i>>] = known[<<d, i>>]
        /\ pump'[<<d, i>>] = pump[<<d, i>>] /\ since'[<<d, i>>] = since[<<d, i>>]
  BY <1>0, <1>t, StreamTypesSplit DEF Slots
<1>5. ASSUME c \notin cut PROVE Connected(c)'
  <2>1. Connected(c)
    BY <1>5 DEF StreamInv
  <2>2. /\ Joined(wire[c], lock[c]) \in Seq(FrameSet)
        /\ Line(c)' = Append(Joined(wire[c], lock[c]), ack)
        /\ Proper(Line(c), log)' /\ \A i \in DOMAIN Line(c)' : Line(c)'[i].n <= Len(log')
    BY <1>0, <1>1, <1>3, <1>t, <2>1, LineAsItIs, LineReply
  <2>3. ASSUME NEW i \in SubIds, i # id PROVE Subscribed(c, i)'
    <3>1. <<c, i>> # s
      BY <2>3
    <3>2. ack # Frame("unack", i, 0)
      BY <1>1, FrameIs
    <3>3. i \in subs'[c] <=> i \in subs[c]
      BY <1>3, <2>3
    <3>4. LineFit(c, lock[c]) /\ FitWith(c, lock[c], i) /\ Subscribed(c, i)
      BY <1>t, <2>1, LineAsItIs
    <3>5. ack.type # "event" /\ ack.n <= Len(log)
      BY <1>1
    <3>6. /\ <<c, i>> \in bus' <=> <<c, i>> \in bus
          /\ queue'[<<c, i>>] = queue[<<c, i>>] /\ known'[<<c, i>>] = known[<<c, i>>]
          /\ pump'[<<c, i>>] = pump[<<c, i>>] /\ since'[<<c, i>>] = since[<<c, i>>]
      BY <1>4, <3>1
    <3>7. /\ log' = log /\ readable' = readable /\ wire'[c] = wire[c]
          /\ lock'[c] = Append(lock[c], ack) /\ ack \in FrameSet
      BY <1>0, <1>1, <1>3
    <3> HIDE DEF s, ack
    <3> QED
      BY <1>t, <3>2, <3>3, <3>4, <3>5, <3>6, <3>7, SubscribedReply
  <2>4. Subscribed(c, id)'
    <3>1. Stands(Line(c)', <<>>, log, id)
      BY <1>t, <2>2, StandsNew, StreamTypesSplit
    <3>2. Subscribed(c, id)
      BY <2>1 DEF Connected
    <3>3. pump[s] # "sending" /\ Queued(lock[c], id, pump[s], since[s], log)
      BY <1>0, <3>2 DEF Subscribed
    <3>4. Queued(lock[c], id, "waiting", readable, log)
      BY <3>3, QueuedNone
    <3>5. Queued(lock'[c], id, "waiting", readable, log)
      BY <1>1, <1>3, <1>t, <3>4, QueuedReply, StreamTypesSplit DEF IsEvent
    <3> QED
      BY <1>0, <1>3, <3>1, <3>5 DEF Subscribed, Served
  <2> QED
    BY <2>2, <2>3, <2>4 DEF Connected
<1>6. Proper(wire'[c], log)
  BY <1>0 DEF StreamInv
<1>7. \A d \in Conns \ {c} : wire'[d] = wire[d] /\ lock'[d] = lock[d] /\ subs'[d] = subs[d]
  BY <1>0, <1>t, StreamTypesSplit
<1>8. \A d \in Conns \ {c}, i \in SubIds : <<d, i>> # s
  OBVIOUS
<1> HIDE DEF s, ack
<1> QED
  BY <1>0, <1>2, <1>4, <1>5, <1>6, <1>7, <1>8, ConnectionKeeps

(* The handler replies f about subscription id, when l of the line waits.  *)
LEMMA HandlerKeeps ==
  ASSUME StreamInv, StreamTypes', NEW c \in Conns, NEW id \in SubIds, NEW l \in Seq(FrameSet),
         NEW f \in FrameSet, f.type # "event", f.n = 0,
         UNCHANGED <<cut, log, readable, wire>>, lock' = [lock EXCEPT ![c] = Append(l, f)],
         \A d \in Conns, i \in SubIds : <<d, i>> # <<c, id>> =>
            /\ i \in subs'[d] <=> i \in subs[d]
            /\ <<d, i>> \in bus' <=> <<d, i>> \in bus
            /\ queue'[<<d, i>>] = queue[<<d, i>>] /\ known'[<<d, i>>] = known[<<d, i>>]
            /\ pump'[<<d, i>>] = pump[<<d, i>>] /\ since'[<<d, i>>] = since[<<d, i>>],
         c \notin cut => /\ LineFit(c, l) /\ Subscribed(c, id)'
                         /\ \A i \in SubIds : i # id => FitWith(c, l, i) /\ f # Frame("unack", i, 0)
  PROVE  StreamInv'
<1>t. StreamTypes
  BY DEF StreamInv
<1>l. lock'[c] = Append(l, f) /\ wire'[c] = wire[c] /\ \A d \in Conns \ {c} : lock'[d] = lock[d]
  BY <1>t, StreamTypesSplit
<1>1. ASSUME c \notin cut PROVE Connected(c)'
  <2>1. Connected(c)
    BY <1>1 DEF StreamInv
  <2>2. Len(log) \in Nat
    BY <1>t, StreamTypesSplit
  <2>3. f.n <= Len(log)
    BY <2>2
  <2>4. Proper(Line(c), log)' /\ \A i \in DOMAIN Line(c)' : Line(c)'[i].n <= Len(log')
    BY <1>1, <1>l, <1>t, <2>3, LineReply
  <2>5. ASSUME NEW i \in SubIds, i # id PROVE Subscribed(c, i)'
    <3>1. <<c, i>> # <<c, id>>
      BY <2>5
    <3>2. Subscribed(c, i)
      BY <2>1 DEF Connected
    <3>3. LineFit(c, l) /\ FitWith(c, l, i) /\ f # Frame("unack", i, 0)
      BY <1>1, <2>5
    <3>4. /\ i \in subs'[c] <=> i \in subs[c]
          /\ <<c, i>> \in bus' <=> <<c, i>> \in bus
          /\ queue'[<<c, i>>] = queue[<<c, i>>] /\ known'[<<c, i>>] = known[<<c, i>>]
          /\ pump'[<<c, i>>] = pump[<<c, i>>] /\ since'[<<c, i>>] = since[<<c, i>>]
      BY <3>1
    <3> QED
      BY <1>l, <1>t, <2>3, <3>2, <3>3, <3>4, SubscribedReply
  <2> QED
    BY <1>1, <2>4, <2>5 DEF Connected
<1>2. \A d \in Conns \ {c}, i \in SubIds : <<d, i>> # <<c, id>>
  OBVIOUS
<1>3. ASSUME NEW d \in Conns \ {c} PROVE subs'[d] = subs[d]
  <2>1. subs[d] \subseteq SubIds /\ subs'[d] \subseteq SubIds
    BY <1>t DEF StreamTypes
  <2> QED
    BY <1>2, <2>1
<1>4. Proper(wire'[c], log)
  BY DEF StreamInv
<1> QED
  BY <1>1, <1>2, <1>3, <1>4, <1>l, ConnectionKeeps

LEMMA SubscribeAgainKeeps ==
  ASSUME StreamInv, NEW c \in Conns, NEW id \in SubIds, SubscribeAgain(c, id)
  PROVE  StreamInv'
<1> DEFINE f == Frame("error", id, 0)
<1>t. StreamTypes
  BY DEF StreamInv
<1>0. /\ lock' = [lock EXCEPT ![c] = Append(@, f)]
      /\ UNCHANGED <<cut, log, readable, wire, subs, bus, queue, known, pump, since>>
  BY DEF SubscribeAgain, Receives, Reply, worldVars
<1>1. f \in FrameSet /\ f.type = "error" /\ f.n = 0
  BY FrameIs
<1>2. \A i \in SubIds : f # Frame("unack", i, 0)
  BY <1>1, FrameIs
<1> HIDE DEF f
<1>l. lock' = [lock EXCEPT ![c] = Append(lock[c], f)] /\ lock[c] \in Seq(FrameSet)
  BY <1>0, <1>t, StreamTypesSplit
<1>3. StreamTypes'
  BY <1>0, <1>1, <1>t, StreamTypesSplit DEF StreamTypes
<1>4. ASSUME c \notin cut
      PROVE  LineFit(c, lock[c]) /\ \A i \in SubIds : FitWith(c, lock[c], i) /\ Subscribed(c, i)
  <2>1. Connected(c)
    BY <1>4 DEF StreamInv
  <2> QED
    BY <1>t, <2>1, LineAsItIs
<1>5. ASSUME c \notin cut PROVE Subscribed(c, id)'
  <2>1. f.n <= Len(log)
    BY <1>1, <1>t, StreamTypesSplit
  <2>2. lock'[c] = Append(lock[c], f)
    BY <1>l, <1>t, StreamTypesSplit
  <2> QED
    BY <1>0, <1>1, <1>2, <1>t, <2>1, <2>2, <1>4, <1>5, SubscribedReply
<1>6. \A d \in Conns, i \in SubIds : <<d, i>> # <<c, id>> =>
         /\ i \in subs'[d] <=> i \in subs[d]
         /\ <<d, i>> \in bus' <=> <<d, i>> \in bus
         /\ queue'[<<d, i>>] = queue[<<d, i>>] /\ known'[<<d, i>>] = known[<<d, i>>]
         /\ pump'[<<d, i>>] = pump[<<d, i>>] /\ since'[<<d, i>>] = since[<<d, i>>]
  BY <1>0
<1>7. c \notin cut => /\ LineFit(c, lock[c]) /\ Subscribed(c, id)'
                     /\ \A i \in SubIds : i # id =>
                          FitWith(c, lock[c], i) /\ f # Frame("unack", i, 0)
  BY <1>2, <1>4, <1>5
<1>8. UNCHANGED <<cut, log, readable, wire>> /\ f.type # "event" /\ f.n = 0 /\ f \in FrameSet
  BY <1>0, <1>1
<1> QED
  BY <1>3, <1>6, <1>7, <1>8, <1>l, HandlerKeeps

(* Giving up an event of id that waits leaves the other subscriptions as   *)
(* they are, and nothing of id waits.                                      *)
LEMMA GivenUpFits ==
  ASSUME StreamTypes, NEW c \in Conns, NEW id \in SubIds, Connected(c),
         NEW r \in DOMAIN lock[c], IsEvent(lock[c][r], id), NEW l, l = GivenUp(lock[c], r)
  PROVE  /\ LineFit(c, l)
         /\ \A i \in SubIds : i # id => FitWith(c, l, i)
         /\ \A i \in DOMAIN l : ~IsEvent(l[i], id)
<1> DEFINE w == wire[c]
           old == Joined(w, lock[c])
           new == Joined(w, l)
<1>1. w \in Seq(FrameSet) /\ lock[c] \in Seq(FrameSet)
  BY StreamTypesSplit
<1>2. LineFit(c, lock[c]) /\ \A i \in SubIds : FitWith(c, lock[c], i) /\ Subscribed(c, i)
  BY LineAsItIs
<1> DEFINE p == Len(w) + r
<1>3. /\ old \in Seq(FrameSet) /\ p \in DOMAIN old /\ old[p] = lock[c][r]
      /\ new = GivenUp(old, p)
  <2>1. old \in Seq(FrameSet) /\ p \in DOMAIN old /\ old[p] = lock[c][r]
    BY <1>1, JoinedIs
  <2>2. Joined(w, GivenUp(lock[c], r)) = GivenUp(Joined(w, lock[c]), Len(w) + r)
    BY <1>1, JoinedIs
  <2> QED
    BY <2>1, <2>2
<1>4. l \in Seq(FrameSet)
  BY <1>1, Shifted
<1>5. Proper(old, log) /\ \A i \in DOMAIN old : old[i].n <= Len(log)
  BY <1>2 DEF LineFit
<1>6. IsEvent(old[p], id)
  BY <1>3
<1>7. \A i \in SubIds : Served(c, i) => Stands(old, queue[<<c, i>>], log, i)
  BY <1>2 DEF FitWith
<1>8. \A i \in SubIds : Queued(lock[c], i, pump[<<c, i>>], since[<<c, i>>], log)
  BY <1>2 DEF FitWith
<1> HIDE DEF old, new, p
<1>9. Proper(new, log)
  BY <1>3, <1>5, <1>6, ProperGivenUp DEF IsEvent
<1>10. \A i \in DOMAIN new : new[i].n <= Len(log)
  <2>1. \A i \in DOMAIN new : \E j \in DOMAIN old : new[i] = old[j]
    BY <1>3, Shifted
  <2> QED
    BY <1>5, <2>1
<1>11. ASSUME NEW i \in SubIds, i # id, Served(c, i) PROVE Stands(new, queue[<<c, i>>], log, i)
  <2>1. old[p].type = "event" /\ ~IsEvent(old[p], i)
    BY <1>6, <1>11 DEF IsEvent
  <2> QED
    BY <1>3, <1>7, <1>11, <2>1, StandsGivenUp
<1>12. ASSUME NEW i \in SubIds PROVE Queued(l, i, pump[<<c, i>>], since[<<c, i>>], log)
  BY <1>1, <1>8, QueuedGivenUp
<1>13. \A i \in DOMAIN l : ~IsEvent(l[i], id)
  BY <1>1, <1>8, QueuedGivenUp
<1> QED
  BY <1>4, <1>9, <1>10, <1>11, <1>12, <1>13 DEF LineFit, FitWith, new

(* Cancelling the pump of id leaves the other subscriptions as they are,   *)
(* and nothing of id waits.                                                *)
LEMMA CancelledFits ==
  ASSUME StreamTypes, NEW c \in Conns, NEW id \in SubIds, Connected(c),
         NEW ids, ids = {id} \cap subs[c], NEW l, l = Without(lock[c], ids)
  PROVE  /\ LineFit(c, l)
         /\ \A i \in SubIds : i # id => FitWith(c, l, i)
         /\ \A i \in DOMAIN l : ~IsEvent(l[i], id)
<1>1. lock[c] \in Seq(FrameSet)
  BY StreamTypesSplit
<1>2. LineFit(c, lock[c]) /\ \A i \in SubIds : FitWith(c, lock[c], i) /\ Subscribed(c, i)
  BY LineAsItIs
<1>3. CASE l = lock[c] /\ (id \in ids => \A i \in DOMAIN lock[c] : ~IsEvent(lock[c][i], id))
  <2>1. id \notin subs[c] => \A i \in DOMAIN lock[c] : ~IsEvent(lock[c][i], id)
    BY <1>2 DEF Subscribed, Queued
  <2>2. \A i \in DOMAIN lock[c] : ~IsEvent(lock[c][i], id)
    BY <1>3, <2>1
  <2> QED
    BY <1>2, <1>3, <2>2
<1>4. ASSUME NEW r \in DOMAIN lock[c], IsEvent(lock[c][r], id), l = GivenUp(lock[c], r)
      PROVE  /\ LineFit(c, l)
             /\ \A i \in SubIds : i # id => FitWith(c, l, i)
             /\ \A i \in DOMAIN l : ~IsEvent(l[i], id)
  BY <1>4, GivenUpFits
<1>5. \/ l = lock[c] /\ (id \in ids => \A i \in DOMAIN lock[c] : ~IsEvent(lock[c][i], id))
      \/ \E r \in DOMAIN lock[c] : IsEvent(lock[c][r], id) /\ l = GivenUp(lock[c], r)
  <2>1. ids \subseteq {id} /\ lock[c] \in Seq(FrameSet)
    BY <1>1
  <2> DEFINE waiting == lock[c]
  <2>2. waiting \in Seq(FrameSet)
    BY <2>1
  <2>3. l = Without(waiting, ids)
    OBVIOUS
  <2> HIDE DEF waiting
  <2>4. \/ l = waiting /\ (id \in ids => \A i \in DOMAIN waiting : ~IsEvent(waiting[i], id))
        \/ \E r \in DOMAIN waiting : IsEvent(waiting[r], id) /\ l = GivenUp(waiting, r)
    BY ONLY <2>1, <2>2, <2>3, WithoutIs
  <2> QED
    BY <2>4 DEF waiting
<1> QED
  BY <1>3, <1>4, <1>5

LEMMA UnsubscribeKeeps ==
  ASSUME StreamInv, NEW c \in Conns, NEW id \in SubIds, Unsubscribe(c, id)
  PROVE  StreamInv'
<1> DEFINE f == Frame("unack", id, 0)
           ids == {id} \cap subs[c]
           l == Without(lock[c], ids)
<1>t. StreamTypes
  BY DEF StreamInv
<1>0. /\ subs' = [subs EXCEPT ![c] = @ \ {id}]
      /\ bus' = bus \ {<<c, i>> : i \in ids}
      /\ pump' = [s \in Slots |-> IF s[1] = c /\ s[2] \in ids THEN "gone" ELSE pump[s]]
      /\ queue' = [s \in Slots |-> IF s[1] = c /\ s[2] \in ids THEN <<>> ELSE queue[s]]
      /\ lock' = [lock EXCEPT ![c] = Append(l, f)]
      /\ UNCHANGED <<cut, log, readable, wire, known, since>>
  BY DEF Unsubscribe, Receives, Reply, Cancel, worldVars
<1>1. f \in FrameSet /\ f.type = "unack" /\ f.n = 0 /\ f.id = id
  BY FrameIs
<1>2. \A i \in SubIds : i # id => f # Frame("unack", i, 0)
  BY <1>1, FrameIs
<1>3. l \in Seq(FrameSet)
  <2>1. lock[c] \in Seq(FrameSet) /\ ids \subseteq {id}
    BY <1>t, StreamTypesSplit
  <2>2. l = lock[c] \/ \E r \in DOMAIN lock[c] : l = GivenUp(lock[c], r)
    BY <2>1, WithoutIs
  <2> HIDE DEF l
  <2> QED
    BY <2>1, <2>2, Shifted
<1>i. ids \subseteq {id} /\ ids \subseteq subs[c] /\ ids \subseteq SubIds /\ (id \in subs[c] => id \in ids)
  OBVIOUS
<1>c. ASSUME c \notin cut
      PROVE  /\ LineFit(c, l)
             /\ \A i \in SubIds : i # id => FitWith(c, l, i)
             /\ \A i \in DOMAIN l : ~IsEvent(l[i], id)
  <2>1. Connected(c)
    BY <1>c DEF StreamInv
  <2> QED
    BY <1>t, <2>1, CancelledFits
<1> HIDE DEF f, l, ids
<1>4. StreamTypes'
  <2>1. lock' \in [Conns -> Seq(FrameSet)]
    <3>1. Append(l, f) \in Seq(FrameSet)
      BY <1>1, <1>3
    <3> QED
      BY <1>0, <1>t, <3>1, StreamTypesSplit
  <2>2. queue' \in [Slots -> Seq(Nat)]
    <3>1. <<>> \in Seq(Nat)
      OBVIOUS
    <3> QED
      BY <1>0, <1>t, <3>1, StreamTypesSplit
  <2>3. pump' \in [Slots -> {"none", "waiting", "sending", "gone"}]
    BY <1>0, <1>t, StreamTypesSplit
  <2>4. subs' \in [Conns -> SUBSET SubIds] /\ bus' \subseteq Slots
    BY <1>0, <1>t, StreamTypesSplit
  <2> QED
    BY <1>0, <1>t, <2>1, <2>2, <2>3, <2>4 DEF StreamTypes
<1>5. ASSUME NEW d \in Conns, NEW i \in SubIds, <<d, i>> # <<c, id>>
      PROVE  /\ i \in subs'[d] <=> i \in subs[d]
             /\ <<d, i>> \in bus' <=> <<d, i>> \in bus
             /\ queue'[<<d, i>>] = queue[<<d, i>>] /\ known'[<<d, i>>] = known[<<d, i>>]
             /\ pump'[<<d, i>>] = pump[<<d, i>>] /\ since'[<<d, i>>] = since[<<d, i>>]
  <2>1. ~(d = c /\ i \in ids) /\ <<d, i>> \in Slots
    BY <1>5, <1>i DEF Slots
  <2>2. queue'[<<d, i>>] = queue[<<d, i>>] /\ pump'[<<d, i>>] = pump[<<d, i>>]
    BY <1>0, <2>1
  <2>3. i \in subs'[d] <=> i \in subs[d]
    BY <1>0, <1>5, <1>t, StreamTypesSplit
  <2>4. <<d, i>> \in bus' <=> <<d, i>> \in bus
    BY <1>0, <2>1
  <2> QED
    BY <1>0, <2>2, <2>3, <2>4
<1>6. ASSUME c \notin cut PROVE Subscribed(c, id)'
  <2>1. Subscribed(c, id)
    BY <1>6 DEF StreamInv, Connected
  <2>2. id \notin subs'[c]
    BY <1>0, <1>t, StreamTypesSplit
  <2>3. <<c, id>> \notin bus'
    BY <1>0, <1>i, <2>1 DEF Subscribed
  <2>4. <<c, id>> \in Slots
    BY DEF Slots
  <2>5. pump'[<<c, id>>] \notin {"waiting", "sending"}
    <3>1. CASE id \in ids
      BY <1>0, <2>4, <3>1
    <3>2. CASE id \notin ids
      BY <1>0, <1>i, <2>1, <2>4, <3>2 DEF Subscribed
    <3> QED
      BY <3>1, <3>2
  <2>6. Queued(l, id, "gone", since[<<c, id>>], log)
    BY <1>6, <1>c DEF Queued
  <2>7. lock'[c] = Append(l, f)
    BY <1>0, <1>t, StreamTypesSplit
  <2>8. Queued(lock'[c], id, "gone", since[<<c, id>>], log)
    BY <1>1, <1>3, <2>6, <2>7, QueuedReply DEF IsEvent
  <2>9. Queued(lock'[c], id, pump'[<<c, id>>], since'[<<c, id>>], log')
    BY <1>0, <2>8, QueuedNone
  <2> QED
    BY <2>2, <2>3, <2>5, <2>9 DEF Subscribed, Served
<1>7. c \notin cut => /\ LineFit(c, l) /\ Subscribed(c, id)'
                     /\ \A i \in SubIds : i # id => FitWith(c, l, i) /\ f # Frame("unack", i, 0)
  BY <1>2, <1>6, <1>c
<1>8. UNCHANGED <<cut, log, readable, wire>> /\ f.type # "event" /\ f.n = 0 /\ f \in FrameSet
      /\ lock' = [lock EXCEPT ![c] = Append(l, f)]
  BY <1>0, <1>1
<1> QED
  BY <1>3, <1>4, <1>5, <1>7, <1>8, HandlerKeeps

LEMMA TakeKeeps ==
  ASSUME StreamInv, NEW c \in Conns, NEW id \in SubIds, Take(<<c, id>>)
  PROVE  StreamInv'
<1> DEFINE s == <<c, id>>
           q == queue[s]
           n == Head(q)
           f == Frame("event", id, n)
<1>t. StreamTypes
  BY DEF StreamInv
<1>s. s \in Slots /\ s[1] = c /\ s[2] = id
  BY DEF Slots
<1>0. PICK answered \in BOOLEAN :
        /\ pump[s] = "waiting" /\ q # <<>>
        /\ known' = [known EXCEPT ![s] = IF answered THEN KnowsNow(s, log[n].container) ELSE @]
        /\ IF Visible(log[n], known'[s])
           THEN /\ pump' = [pump EXCEPT ![s] = "sending"]
                /\ lock' = [lock EXCEPT ![c] = Append(@, f)]
           ELSE UNCHANGED <<pump, lock>>
        /\ queue' = [queue EXCEPT ![s] = Tail(@)]
        /\ UNCHANGED <<cut, log, readable, wire, subs, bus, since>>
  <2> HIDE DEF s
  <2>1. /\ pump[s] = "waiting" /\ queue[s] # <<>>
        /\ \E answered \in BOOLEAN :
             /\ known' = [known EXCEPT ![s] = IF answered THEN KnowsNow(s, log[n].container) ELSE @]
             /\ IF Visible(log[n], known'[s])
                THEN /\ pump' = [pump EXCEPT ![s] = "sending"]
                     /\ lock' = [lock EXCEPT ![s[1]] = Append(@, Frame("event", s[2], n))]
                ELSE UNCHANGED <<pump, lock>>
        /\ queue' = [queue EXCEPT ![s] = Tail(@)]
        /\ UNCHANGED <<cut, log, readable, wire, subs, bus, since>>
    <3> USE DEF s
    <3> QED
      BY DEF Take, netVars, worldVars
  <2> QED
    BY <1>s, <2>1
<1>1. /\ q \in Seq(Nat) /\ n \in Nat /\ Tail(q) \in Seq(Nat)
      /\ f \in FrameSet /\ f.type = "event" /\ f.id = id /\ f.n = n
  <2>1. q \in Seq(Nat)
    BY <1>s, <1>t, StreamTypesSplit
  <2>2. n \in Nat /\ Tail(q) \in Seq(Nat)
    BY <1>0, <2>1
  <2> QED
    BY <2>1, <2>2, FrameIs
<1> HIDE DEF s, q, f
<1>2. StreamTypes'
  <2>1. known' \in [Slots -> SUBSET Containers]
    BY <1>0, <1>s, <1>t, StreamTypesSplit DEF KnowsNow
  <2>2. lock' \in [Conns -> Seq(FrameSet)] /\ pump' \in [Slots -> {"none", "waiting", "sending", "gone"}]
    <3>1. /\ lock' \in {lock, [lock EXCEPT ![c] = Append(lock[c], f)]}
          /\ pump' \in {pump, [pump EXCEPT ![s] = "sending"]}
      BY <1>0
    <3>2. lock \in [Conns -> Seq(FrameSet)] /\ Append(lock[c], f) \in Seq(FrameSet)
      BY <1>1, <1>t, StreamTypesSplit
    <3> QED
      BY <1>t, <3>1, <3>2, StreamTypesSplit
  <2>3. queue' \in [Slots -> Seq(Nat)]
    BY <1>0, <1>1, <1>t, StreamTypesSplit DEF q
  <2> QED
    BY <1>0, <1>t, <2>1, <2>2, <2>3 DEF StreamTypes
<1>3. queue'[s] = Tail(q)
  BY <1>0, <1>s, <1>t, StreamTypesSplit DEF q
<1>4. \A d \in Conns, i \in SubIds : <<d, i>> # s =>
        /\ <<d, i>> \in bus' <=> <<d, i>> \in bus
        /\ queue'[<<d, i>>] = queue[<<d, i>>] /\ known'[<<d, i>>] = known[<<d, i>>]
        /\ pump'[<<d, i>>] = pump[<<d, i>>] /\ since'[<<d, i>>] = since[<<d, i>>]
  <2>1. \A d \in Conns, i \in SubIds : <<d, i>> \in Slots
    BY DEF Slots
  <2> QED
    BY <1>0, <1>t, <2>1, StreamTypesSplit
<1>5. ASSUME c \notin cut PROVE Connected(c)'
  <2> DEFINE old == Joined(wire[c], lock[c])
             new == Line(c)'
             r == Tail(q)
  <2>1. Connected(c)
    BY <1>5 DEF StreamInv
  <2>2. /\ old = Line(c) /\ LineFit(c, lock[c])
        /\ \A i \in SubIds : Subscribed(c, i) /\ FitWith(c, lock[c], i)
    BY <1>t, <2>1, LineAsItIs
  <2>3. wire[c] \in Seq(FrameSet) /\ lock[c] \in Seq(FrameSet) /\ old \in Seq(FrameSet)
    BY <1>t, JoinedIs, StreamTypesSplit
  <2>4. id \in subs[c] /\ s \in bus /\ Stands(old, q, log, id)
    BY <1>0, <2>2 DEF Subscribed, FitWith, Served, q, s
  <2>5. /\ readable \subseteq since[s] /\ known[s] \subseteq since[s]
        /\ Queued(lock[c], id, "waiting", since[s], log)
    BY <1>0, <2>2, <2>4 DEF Subscribed, s
  <2>6. known'[s] \subseteq since[s]
    BY <1>0, <1>s, <1>t, <2>5, StreamTypesSplit DEF KnowsNow
  <2>7. /\ Proper(old, log) /\ \A i \in DOMAIN old : old[i].n <= Len(log)
    BY <2>2 DEF LineFit
  <2>8. n \in DOMAIN log
    BY <1>0, <1>1, <2>4, HeadOff DEF Stands, StandsFrom
  <2>9. CASE Visible(log[n], known'[s])
    <3>1. lock'[c] = Append(lock[c], f) /\ pump'[s] = "sending"
      BY <1>0, <1>s, <1>t, <2>9, StreamTypesSplit
    <3>2. new = Append(old, f)
      <4>1. new = Joined(wire[c], Append(lock[c], f))
        BY <1>0, <3>1 DEF Line, Joined
      <4> QED
        BY <1>1, <2>3, <4>1, JoinedIs
    <3>f. f = Frame("event", id, Head(q))
      BY DEF f
    <3> HIDE DEF old, new, r, n
    <3>3. Stands(new, r, log, id)
      BY <1>0, <1>1, <2>3, <2>4, <3>2, <3>f, StandsTake DEF r
    <3>4. Proper(new, log)
      BY <1>0, <1>1, <2>3, <2>4, <2>7, <3>2, <3>f, ProperTake
    <3>5. \A i \in DOMAIN new : new[i].n <= Len(log)
      <4>1. n <= Len(log)
        BY <1>t, <2>8, StreamTypesSplit
      <4> QED
        BY <1>1, <2>3, <2>7, <3>2, <4>1, Appended
    <3>6. ASSUME NEW i \in SubIds, i # id PROVE Subscribed(c, i)'
      <4>1. ~IsEvent(f, i) /\ f # Frame("unack", i, 0)
        BY <1>1, <3>6, FrameIs DEF IsEvent
      <4>2. Served(c, i) => Stands(old, queue[<<c, i>>], log, i)
        BY <2>2 DEF FitWith, old
      <4>3. Served(c, i) => Stands(new, queue[<<c, i>>], log, i)
        BY <1>1, <2>3, <3>2, <4>1, <4>2, StandsReply
      <4>4. Queued(lock'[c], i, pump[<<c, i>>], since[<<c, i>>], log)
        BY <1>1, <2>2, <2>3, <3>1, <4>1, QueuedReply DEF FitWith
      <4>5. <<c, i>> # s
        BY <3>6 DEF s
      <4>6. Subscribed(c, i)
        BY <2>2
      <4> QED
        BY <1>0, <1>4, <4>3, <4>4, <4>5, <4>6 DEF Subscribed, Served, new
    <3>7. Subscribed(c, id)'
      <4>1. Sendable(f, since[s], log)
        BY <1>1, <2>6, <2>8, <2>9 DEF Sendable, Visible
      <4>2. Queued(lock'[c], id, "sending", since[s], log)
        BY <1>1, <2>3, <2>5, <3>1, <4>1, QueuedTake
      <4> QED
        BY <1>0, <1>3, <2>4, <2>5, <2>6, <3>1, <3>3, <4>2 DEF Subscribed, Served, new, s, r
    <3> QED
      BY <1>0, <3>4, <3>5, <3>6, <3>7 DEF Connected, new
  <2>10. CASE ~Visible(log[n], known'[s])
    <3>1. UNCHANGED <<pump, lock>> /\ ~log[n].mine
      BY <1>0, <2>10 DEF Visible
    <3>2. Line(c)' = old
      BY <1>0, <3>1, <2>2 DEF Line
    <3>3. Stands(old, r, log, id)
      <4> HIDE DEF old
      <4> QED
        BY <1>0, <1>1, <2>3, <2>4, <3>1, StandsDrop
    <3>4. Subscribed(c, id)'
      <4>1. Subscribed(c, id)
        BY <2>2
      <4> QED
        BY <1>0, <1>3, <2>4, <2>5, <2>6, <3>1, <3>2, <3>3, <4>1 DEF Subscribed, Served, s
    <3>5. ASSUME NEW i \in SubIds, i # id PROVE Subscribed(c, i)'
      <4>1. <<c, i>> # s
        BY <3>5 DEF s
      <4>2. Subscribed(c, i)
        BY <2>2
      <4> QED
        BY <1>0, <1>4, <2>2, <3>1, <3>2, <4>1, <4>2 DEF Subscribed, Served
    <3> QED
      BY <1>0, <2>2, <2>7, <3>2, <3>4, <3>5 DEF Connected
  <2> QED
    BY <2>9, <2>10
<1>6. Proper(wire'[c], log)
  BY <1>0 DEF StreamInv
<1>7. \A d \in Conns \ {c} : wire'[d] = wire[d] /\ lock'[d] = lock[d] /\ subs'[d] = subs[d]
  BY <1>0, <1>t, StreamTypesSplit
<1>8. \A d \in Conns \ {c}, i \in SubIds : <<d, i>> # s
  BY DEF s
<1> QED
  BY <1>0, <1>2, <1>4, <1>5, <1>6, <1>7, <1>8, ConnectionKeeps

LEMMA SendKeeps ==
  ASSUME StreamInv, NEW c \in Conns, Send(c)
  PROVE  StreamInv'
<1> DEFINE l == lock[c]
           f == Head(l)
           s == <<c, f.id>>
           w == wire[c]
<1>t. StreamTypes
  BY DEF StreamInv
<1>0. /\ l # <<>>
      /\ wire' = IF c \in cut THEN wire ELSE [wire EXCEPT ![c] = Append(@, f)]
      /\ pump' = IF f.type = "event" THEN [pump EXCEPT ![s] = "waiting"] ELSE pump
      /\ lock' = [lock EXCEPT ![c] = Tail(@)]
      /\ UNCHANGED <<cut, log, readable, subs, bus, queue, known, since>>
      /\ HolderWorks(c)
  BY DEF Send, netVars, worldVars
<1>1. /\ l \in Seq(FrameSet) /\ w \in Seq(FrameSet)
  BY <1>t, StreamTypesSplit
<1>2. f \in FrameSet /\ Tail(l) \in Seq(FrameSet) /\ lock'[c] = Tail(l)
  BY <1>0, <1>1, <1>t, StreamTypesSplit
<1>3. f.id \in SubIds /\ s \in Slots
  BY <1>2 DEF FrameSet, Slots
<1>h. f.type = "event" => pump[s] = "sending"
  BY <1>0 DEF HolderWorks
<1> HIDE DEF l, f, s, w
<1>4. StreamTypes'
  <2>1. lock' \in [Conns -> Seq(FrameSet)]
    BY <1>0, <1>1, <1>2, <1>t, StreamTypesSplit DEF l
  <2>2. wire' \in [Conns -> Seq(FrameSet)]
    <3>1. Append(wire[c], f) \in Seq(FrameSet)
      BY <1>1, <1>2 DEF w
    <3> QED
      BY <1>0, <1>t, <3>1, StreamTypesSplit
  <2>3. pump' \in [Slots -> {"none", "waiting", "sending", "gone"}]
    BY <1>0, <1>t, StreamTypesSplit
  <2> QED
    BY <1>0, <1>t, <2>1, <2>2, <2>3 DEF StreamTypes
<1>5. ASSUME NEW d \in Conns, NEW i \in SubIds, d # c \/ ~IsEvent(f, i)
      PROVE  pump'[<<d, i>>] = pump[<<d, i>>]
  <2>1. <<d, i>> \in Slots
    BY DEF Slots
  <2>2. f.type = "event" => <<d, i>> # s
    BY <1>5 DEF IsEvent, s
  <2> QED
    BY <1>0, <1>t, <2>1, <2>2, StreamTypesSplit
<1>6. ASSUME NEW d \in Conns \ {c} PROVE wire'[d] = wire[d] /\ lock'[d] = lock[d] /\ subs'[d] = subs[d]
  BY <1>0, <1>t, StreamTypesSplit
<1>7. ASSUME c \notin cut PROVE Connected(c)' /\ Proper(wire'[c], log)
  <2> DEFINE old == Line(c)
             sent == wire'[c]
  <2>1. Connected(c)
    BY <1>7 DEF StreamInv
  <2>2. old = Joined(w, l)
    BY DEF Line, Joined, w, l
  <2>3. sent = Append(w, f) /\ sent \in Seq(FrameSet)
    BY <1>0, <1>1, <1>2, <1>7, <1>t, StreamTypesSplit DEF w
  <2>4. Line(c)' = old
    <3>1. Line(c)' = Joined(sent, Tail(l))
      BY <1>2 DEF Line, Joined
    <3>2. Joined(Append(w, Head(l)), Tail(l)) = Joined(w, l)
      BY <1>0, <1>1, JoinedIs
    <3> QED
      BY <2>2, <2>3, <3>1, <3>2 DEF f
  <2>5. Proper(old, log) /\ \A i \in DOMAIN old : old[i].n <= Len(log)
    BY <2>1 DEF Connected
  <2>6. Proper(sent, log)
    <3>1. Joined(sent, Tail(l)) = old
      <4>1. Joined(Append(w, Head(l)), Tail(l)) = Joined(w, l)
        BY <1>0, <1>1, JoinedIs
      <4> QED
        BY <2>2, <2>3, <4>1 DEF f
    <3> HIDE DEF old, sent
    <3>2. /\ old \in Seq(FrameSet) /\ Len(sent) <= Len(old)
          /\ \A i \in DOMAIN sent : sent[i] = old[i]
      BY <1>2, <2>3, <3>1, JoinedIs
    <3> QED
      BY <2>3, <2>5, <3>2, ProperPrefix
  <2>7. ASSUME NEW i \in SubIds PROVE Subscribed(c, i)'
    <3>1. Subscribed(c, i)
      BY <2>1 DEF Connected
    <3>2. pump'[<<c, i>>] = IF IsEvent(f, i) THEN "waiting" ELSE pump[<<c, i>>]
      <4>1. CASE IsEvent(f, i)
        <5>1. s = <<c, i>> /\ f.type = "event"
          BY <4>1 DEF IsEvent, s
        <5> QED
          BY <1>0, <1>3, <1>t, <4>1, <5>1, StreamTypesSplit
      <4>2. CASE ~IsEvent(f, i)
        BY <1>5, <4>2
      <4> QED
        BY <4>1, <4>2
    <3>3. Queued(l, i, pump[<<c, i>>], since[<<c, i>>], log)
      BY <3>1 DEF Subscribed, l
    <3>4. Queued(Tail(l), i, pump'[<<c, i>>], since[<<c, i>>], log)
      BY <1>0, <1>1, <3>2, <3>3, QueuedSent DEF f
    <3>5. pump'[<<c, i>>] \in {"waiting", "sending"} => i \in subs[c]
      <4>1. CASE IsEvent(f, i)
        <5>1. pump[<<c, i>>] = "sending"
          BY <1>h, <4>1 DEF IsEvent, s
        <5> QED
          BY <3>1, <5>1 DEF Subscribed
      <4>2. CASE ~IsEvent(f, i)
        BY <3>1, <3>2, <4>2 DEF Subscribed
      <4> QED
        BY <4>1, <4>2
    <3>6. Served(c, i)' => Served(c, i)
      <4>1. IsEvent(f, i) => pump[<<c, i>>] = "sending"
        BY <1>h DEF IsEvent, s
      <4> QED
        BY <1>0, <3>2, <4>1 DEF Served
    <3> QED
      BY <1>0, <1>2, <2>4, <3>1, <3>4, <3>5, <3>6 DEF Subscribed
  <2> QED
    BY <1>0, <2>4, <2>5, <2>6, <2>7 DEF Connected
<1>8. Proper(wire'[c], log)
  <2>1. CASE c \in cut
    BY <1>0, <2>1 DEF StreamInv
  <2> QED
    BY <1>7, <2>1
<1> QED
  BY <1>0, <1>4, <1>5, <1>6, <1>7, <1>8, ConnectionKeeps

(* On a connection that is cut only the types remain to keep.              *)
LEMMA CutKeeps ==
  ASSUME StreamInv, StreamTypes', NEW c \in cut, c \in Conns,
         UNCHANGED <<cut, log, readable, wire>>,
         \A d \in Conns \ {c} : lock'[d] = lock[d] /\ subs'[d] = subs[d],
         \A d \in Conns \ {c}, i \in SubIds :
            /\ <<d, i>> \in bus' <=> <<d, i>> \in bus
            /\ queue'[<<d, i>>] = queue[<<d, i>>] /\ known'[<<d, i>>] = known[<<d, i>>]
            /\ pump'[<<d, i>>] = pump[<<d, i>>] /\ since'[<<d, i>>] = since[<<d, i>>]
  PROVE  StreamInv'
<1>1. Proper(wire'[c], log)
  BY DEF StreamInv
<1> QED
  BY <1>1, ConnectionKeeps

LEMMA CloseAllKeeps ==
  ASSUME StreamInv, NEW c \in Conns, c \in cut, CloseAll(c)
  PROVE  StreamInv'
<1>t. StreamTypes
  BY DEF StreamInv
<1>0. /\ subs' = [subs EXCEPT ![c] = {}]
      /\ bus' = bus \ {<<c, i>> : i \in subs[c]}
      /\ pump' = [s \in Slots |-> IF s[1] = c /\ s[2] \in subs[c] THEN "gone" ELSE pump[s]]
      /\ queue' = [s \in Slots |-> IF s[1] = c /\ s[2] \in subs[c] THEN <<>> ELSE queue[s]]
      /\ lock' = [lock EXCEPT ![c] = <<>>]
      /\ UNCHANGED <<cut, log, readable, wire, known, since>>
  BY DEF CloseAll, Cancel, worldVars
<1>1. StreamTypes'
  <2>1. lock' \in [Conns -> Seq(FrameSet)] /\ queue' \in [Slots -> Seq(Nat)]
    <3>1. <<>> \in Seq(Nat) /\ <<>> \in Seq(FrameSet)
      OBVIOUS
    <3> QED
      BY <1>0, <1>t, <3>1, StreamTypesSplit
  <2>2. pump' \in [Slots -> {"none", "waiting", "sending", "gone"}]
    BY <1>0, <1>t, StreamTypesSplit
  <2>3. subs' \in [Conns -> SUBSET SubIds] /\ bus' \subseteq Slots
    BY <1>0, <1>t, StreamTypesSplit
  <2> QED
    BY <1>0, <1>t, <2>1, <2>2, <2>3 DEF StreamTypes
<1>2. ASSUME NEW d \in Conns \ {c}, NEW i \in SubIds
      PROVE  /\ <<d, i>> \in bus' <=> <<d, i>> \in bus
             /\ queue'[<<d, i>>] = queue[<<d, i>>] /\ known'[<<d, i>>] = known[<<d, i>>]
             /\ pump'[<<d, i>>] = pump[<<d, i>>] /\ since'[<<d, i>>] = since[<<d, i>>]
  BY <1>0 DEF Slots
<1>3. \A d \in Conns \ {c} : lock'[d] = lock[d] /\ subs'[d] = subs[d]
  BY <1>0, <1>t, StreamTypesSplit
<1> QED
  BY <1>0, <1>1, <1>2, <1>3, CutKeeps

LEMMA SendFailsKeeps ==
  ASSUME StreamInv, NEW c \in Conns, SendFails(c)
  PROVE  StreamInv'
<1>t. StreamTypes
  BY DEF StreamInv
<1>1. CASE Head(lock[c]).type = "event"
  <2> DEFINE l == lock[c]
             f == Head(l)
             s == <<c, f.id>>
  <2>0. /\ l # <<>> /\ pump[s] = "sending"
        /\ pump' = [pump EXCEPT ![s] = "gone"]
        /\ lock' = [lock EXCEPT ![c] = Tail(l)]
        /\ UNCHANGED <<cut, log, readable, subs, bus, queue, known, wire, since>>
    BY <1>1 DEF SendFails, HolderWorks, netVars
  <2>1. l \in Seq(FrameSet) /\ Tail(l) \in Seq(FrameSet) /\ Tail(l) = GivenUp(l, 1)
        /\ 1 \in DOMAIN l /\ l[1] = f /\ f \in FrameSet
    <3>1. l \in Seq(FrameSet)
      BY <1>t, StreamTypesSplit
    <3> HIDE DEF l
    <3>2. 1 \in DOMAIN l /\ l[1] = Head(l) /\ Tail(l) \in Seq(FrameSet)
      BY <2>0, <3>1
    <3>3. Tail(l) = GivenUp(l, 1)
      BY <2>0, <3>1, TailIsGivenUp
    <3> QED
      BY <3>1, <3>2, <3>3
  <2>2. f.id \in SubIds /\ s \in Slots /\ IsEvent(f, f.id) /\ lock'[c] = Tail(l) /\ pump'[s] = "gone"
    BY <1>1, <1>t, <2>0, <2>1, StreamTypesSplit DEF FrameSet, Slots, IsEvent
  <2>3. StreamTypes'
    <3>1. lock' \in [Conns -> Seq(FrameSet)]
      BY <1>t, <2>0, <2>1, StreamTypesSplit
    <3>2. pump' \in [Slots -> {"none", "waiting", "sending", "gone"}]
      BY <1>t, <2>0, StreamTypesSplit
    <3> QED
      BY <1>t, <2>0, <3>1, <3>2 DEF StreamTypes
  <2>4. \A d \in Conns \ {c} : lock'[d] = lock[d] /\ subs'[d] = subs[d] /\ wire'[d] = wire[d]
    BY <1>t, <2>0, StreamTypesSplit
  <2>5. \A d \in Conns, i \in SubIds : <<d, i>> # s => pump'[<<d, i>>] = pump[<<d, i>>]
    BY <1>t, <2>0, StreamTypesSplit DEF Slots
  <2> HIDE DEF l, f
  <2>i. PICK id \in SubIds : id = f.id
    BY <2>2
  <2>6. ASSUME c \notin cut PROVE Connected(c)'
    <3>1. Connected(c)
      BY <2>6 DEF StreamInv
    <3>2. /\ LineFit(c, Tail(l))
          /\ \A i \in SubIds : i # id => FitWith(c, Tail(l), i)
          /\ \A i \in DOMAIN Tail(l) : ~IsEvent(Tail(l)[i], id)
      <4> DEFINE rest == Tail(l)
      <4>1. 1 \in DOMAIN lock[c] /\ IsEvent(lock[c][1], id) /\ rest = GivenUp(lock[c], 1)
        BY <2>1, <2>2, <2>i DEF l
      <4> HIDE DEF rest
      <4> QED
        BY <1>t, <3>1, <4>1, GivenUpFits DEF rest
    <3>3. Line(c)' = Joined(wire[c], Tail(l))
      BY <2>0, <2>2 DEF Line, Joined
    <3>4. ASSUME NEW i \in SubIds, i # id PROVE Subscribed(c, i)'
      <4>1. Subscribed(c, i) /\ FitWith(c, Tail(l), i)
        BY <3>1, <3>2, <3>4 DEF Connected
      <4>2. pump'[<<c, i>>] = pump[<<c, i>>]
        BY <2>5, <2>i, <3>4 DEF s
      <4> QED
        BY <2>0, <2>2, <3>3, <4>1, <4>2 DEF Subscribed, FitWith, Served
    <3>5. Subscribed(c, id)'
      <4>1. Subscribed(c, id) /\ s = <<c, id>>
        BY <2>i, <3>1 DEF Connected, s
      <4>2. Queued(Tail(l), id, "gone", since[s], log)
        BY <3>2 DEF Queued
      <4> QED
        BY <2>0, <2>2, <4>1, <4>2 DEF Subscribed, Served
    <3> QED
      BY <2>0, <3>2, <3>3, <3>4, <3>5 DEF Connected, LineFit
  <2>7. Proper(wire'[c], log)
    BY <2>0 DEF StreamInv
  <2>8. \A d \in Conns \ {c}, i \in SubIds : <<d, i>> # s
    BY DEF s
  <2> HIDE DEF s
  <2> QED
    BY <2>0, <2>3, <2>4, <2>5, <2>6, <2>7, <2>8, ConnectionKeeps
<1>2. CASE Head(lock[c]).type # "event"
  BY <1>2, CloseAllKeeps DEF SendFails
<1> QED
  BY <1>1, <1>2

LEMMA PublishKeeps ==
  ASSUME StreamInv, NEW e \in Own \cup Others, Publish(e)
  PROVE  StreamInv'
<1> DEFINE T == Own \cup Others
           top == Len(log) + 1
<1>t. StreamTypes
  BY DEF StreamInv
<1>0. /\ log' = Append(log, e)
      /\ queue' = [s \in Slots |-> IF s \in bus /\ Matches(FilterOf[s[2]], e)
                                   THEN Append(queue[s], top) ELSE queue[s]]
      /\ UNCHANGED <<cut, subs, bus, known, pump, lock, wire, since, readable>>
  BY DEF Publish, Fanout, netVars
<1>1. log \in Seq(T) /\ Len(log) \in Nat /\ top \in Nat
  BY <1>t, StreamTypesSplit
<1> HIDE DEF T, top
<1>2. log' \in Seq(T) /\ Len(log') = Len(log) + 1 /\ e \in T
  BY <1>0, <1>1 DEF T
<1>3. StreamTypes'
  <2>1. ASSUME NEW s \in Slots PROVE queue[s] \in Seq(Nat) /\ Append(queue[s], top) \in Seq(Nat)
    BY <1>1, <1>t, StreamTypesSplit
  <2>2. queue' \in [Slots -> Seq(Nat)]
    BY <1>0, <2>1
  <2> QED
    BY <1>0, <1>2, <1>t, <2>2 DEF StreamTypes, T
<1>4. ASSUME NEW c \in Conns PROVE Proper(wire'[c], log')
  BY <1>0, <1>1, <1>2, ProperPublish DEF StreamInv
<1>5. ASSUME NEW c \in Conns, c \notin cut PROVE Connected(c)'
  <2> DEFINE sq == Line(c)
  <2>1. Connected(c) /\ Line(c)' = sq
    BY <1>0, <1>5 DEF StreamInv, Line
  <2>2. sq \in Seq(FrameSet)
    <3>1. wire[c] \in Seq(FrameSet) /\ lock[c] \in Seq(FrameSet)
      BY <1>t, StreamTypesSplit
    <3>2. sq = Joined(wire[c], lock[c])
      BY DEF Line, Joined
    <3> QED
      BY <3>1, <3>2, JoinedIs
  <2>3. Proper(sq, log) /\ \A i \in DOMAIN sq : sq[i].n <= Len(log)
    BY <2>1 DEF Connected
  <2> HIDE DEF sq
  <2>4. Proper(sq, log')
    BY <1>0, <1>1, <1>2, <2>3, ProperPublish
  <2>5. \A i \in DOMAIN sq : sq[i].n <= Len(log')
    <3>1. \A i \in DOMAIN sq : sq[i].n \in Nat
      <4>1. \A i \in DOMAIN sq : sq[i] \in FrameSet
        BY <2>2
      <4> QED
        BY <4>1 DEF FrameSet
    <3> QED
      BY <1>1, <1>2, <2>3, <3>1
  <2>6. ASSUME NEW id \in SubIds PROVE Subscribed(c, id)'
    <3> DEFINE s == <<c, id>>
               q == queue[s]
               q2 == queue'[s]
    <3>1. Subscribed(c, id)
      BY <2>1 DEF Connected
    <3>2. s \in Slots /\ s[2] = id
      BY DEF Slots
    <3>3. q \in Seq(Nat)
      BY <1>t, <3>2, StreamTypesSplit
    <3>4. s \in bus => q2 = IF Matches(FilterOf[id], e) THEN Append(q, top) ELSE q
      BY <1>0, <3>2
    <3>5. Served(c, id) => s \in bus /\ Stands(sq, q, log, id)
      BY <3>1 DEF Subscribed, Served, sq
    <3> HIDE DEF q, q2
    <3>6. Served(c, id) => Stands(sq, q2, log', id)
      BY <1>0, <1>1, <1>2, <2>2, <2>3, <3>3, <3>4, <3>5, StandsPublish DEF top
    <3>7. Queued(lock[c], id, pump[s], since[s], log)
      BY <3>1 DEF Subscribed
    <3>8. Queued(lock[c], id, pump[s], since[s], log')
      BY <1>0, <1>1, <1>2, <3>7, QueuedLater
    <3> QED
      BY <1>0, <2>1, <3>1, <3>6, <3>8 DEF Subscribed, Served, q2
  <2> QED
    BY <2>1, <2>4, <2>5, <2>6 DEF Connected
<1> QED
  BY <1>0, <1>3, <1>4, <1>5 DEF StreamInv

LEMMA ChangeGrantKeeps ==
  ASSUME StreamInv, NEW k \in Containers, ChangeGrant(k)
  PROVE  StreamInv'
<1>t. StreamTypes
  BY DEF StreamInv
<1>0. /\ readable' \subseteq Containers
      /\ since' = [s \in Slots |-> IF s \in bus THEN since[s] \cup readable' ELSE since[s]]
      /\ UNCHANGED <<cut, subs, bus, queue, known, pump, lock, wire, log>>
  BY <1>t, StreamTypesSplit DEF ChangeGrant, netVars
<1>1. StreamTypes'
  <2>1. since' \in [Slots -> SUBSET Containers]
    BY <1>0, <1>t, StreamTypesSplit
  <2> QED
    BY <1>0, <1>t, <2>1 DEF StreamTypes
<1>2. ASSUME NEW c \in Conns, c \notin cut PROVE Connected(c)'
  <2>1. Connected(c) /\ Line(c)' = Line(c)
    BY <1>0, <1>2 DEF StreamInv, Line
  <2>2. ASSUME NEW id \in SubIds PROVE Subscribed(c, id)'
    <3> DEFINE s == <<c, id>>
    <3>1. Subscribed(c, id) /\ s \in Slots
      BY <2>1 DEF Connected, Slots
    <3>2. since[s] \subseteq since'[s] /\ (s \in bus => readable' \subseteq since'[s])
      BY <1>0, <3>1
    <3>3. Queued(lock[c], id, pump[s], since[s], log)
      BY <3>1 DEF Subscribed
    <3>4. Queued(lock[c], id, pump[s], since'[s], log)
      <4>1. \A f : Sendable(f, since[s], log) => Sendable(f, since'[s], log)
        BY <3>2 DEF Sendable
      <4> QED
        BY <3>3, <4>1 DEF Queued
    <3> QED
      BY <1>0, <2>1, <3>1, <3>2, <3>4 DEF Subscribed, Served
  <2> QED
    BY <1>0, <2>1, <2>2 DEF Connected
<1> QED
  BY <1>0, <1>1, <1>2 DEF StreamInv

LEMMA StreamInvKept ==
  ASSUME StreamInv, TurnInv, [Next]_vars
  PROVE  StreamInv'
<1>1. CASE Client /\ UNCHANGED turnVars
  BY <1>1, ClientStep, ClientKeeps
<1>2. ASSUME NEW c \in Conns, Stream(c) PROVE StreamInv'
  <2>1. CASE Disconnect(c)
    BY <2>1, CloseAllKeeps DEF Disconnect
  <2> QED
    BY <1>2, <2>1, SubscribeKeeps, SubscribeAgainKeeps, UnsubscribeKeeps, TakeKeeps, SendKeeps,
       SendFailsKeeps DEF Stream
<1>3. ASSUME NEW k \in Containers, ChangeGrant(k) PROVE StreamInv'
  BY <1>3, ChangeGrantKeeps
<1>4. ASSUME NEW k \in Containers, Announce(k) PROVE StreamInv'
  BY <1>4, PublishKeeps DEF Announce, Others
<1>5. CASE UNCHANGED streamVars
  BY <1>5, ClientKeeps DEF streamVars, netVars, serverVars, worldVars
<1>6. CASE Fails
  BY <1>6, ClientKeeps DEF Fails, netVars, serverVars
<1>7. ASSUME NEW p \in posts, Arrive(p) PROVE StreamInv'
  <2>1. p \in Requests
    BY DEF TurnInv, TurnTypes
  <2>2. [name |-> p.what, container |-> Chat, mine |-> TRUE, turn |-> p.turn,
         round |-> p.round, n |-> p.n, late |-> ~p.awaited] \in Own
    BY <2>1 DEF Requests, Own
  <2> QED
    BY <1>7, <2>2, PublishKeeps DEF Arrive
<1> QED
  BY <1>1, <1>2, <1>3, <1>4, <1>5, <1>6, <1>7 DEF Next, vars

LEMMA StreamInvStarts ==
  ASSUME Init
  PROVE  StreamInv
<1>0. /\ subs = [c \in Conns |-> {}] /\ bus = {} /\ queue = [s \in Slots |-> <<>>]
      /\ known = [s \in Slots |-> {}] /\ pump = [s \in Slots |-> "none"]
      /\ lock = [c \in Conns |-> <<>>] /\ wire = [c \in Conns |-> <<>>] /\ log = <<>>
      /\ readable = Containers /\ since = [s \in Slots |-> {}]
  BY DEF Init, StreamInit
<1>1. StreamTypes
  <2>1. log \in Seq(Own \cup Others)
    BY <1>0
  <2>2. queue \in [Slots -> Seq(Nat)] /\ lock \in [Conns -> Seq(FrameSet)] /\ wire \in [Conns -> Seq(FrameSet)]
    BY <1>0
  <2>3. subs \in [Conns -> SUBSET SubIds] /\ bus \subseteq Slots
    BY <1>0
  <2> QED
    BY <1>0, <2>1, <2>2, <2>3 DEF StreamTypes
<1>2. ASSUME NEW c \in Conns PROVE Proper(wire[c], log) /\ Connected(c)
  <2>1. wire[c] = <<>> /\ lock[c] = <<>> /\ subs[c] = {} /\ \A i \in SubIds : pump[<<c, i>>] = "none"
    BY <1>0 DEF Slots
  <2>2. Line(c) = <<>>
    BY <2>1 DEF Line
  <2>3. DOMAIN (<<>>) = {}
    OBVIOUS
  <2>4. \A id \in SubIds : Subscribed(c, id)
    BY <1>0, <2>1, <2>3 DEF Subscribed, Served, Queued
  <2> QED
    BY <2>1, <2>2, <2>3, <2>4 DEF Connected, Proper
<1> QED
  BY <1>1, <1>2 DEF StreamInv

(* What has been sent and what waits behind it is what was published.      *)
LEMMA StandsInOrder ==
  ASSUME NEW sq \in Seq(FrameSet), NEW q \in Seq(Nat), NEW lg, NEW id, Stands(sq, q, lg, id)
  PROVE  \E k \in DOMAIN sq :
           LET sent == {i \in DOMAIN sq : i > k /\ IsEvent(sq[i], id) /\ lg[sq[i].n].mine}
               left == {i \in DOMAIN q : lg[q[i]].mine}
           IN
           /\ IsAck(sq[k], id)
           /\ {sq[i].n : i \in sent} \cup {q[i] : i \in left}
                = {n \in DOMAIN lg : n > sq[k].n /\ lg[n].mine /\ Matches(FilterOf[id], lg[n])}
           /\ \A i, j \in sent : i < j => sq[i].n < sq[j].n
           /\ \A i \in sent, j \in left : sq[i].n < q[j]
           /\ \A i, j \in left : i < j => q[i] < q[j]
<1>1. PICK k \in DOMAIN sq : StandsFrom(k, sq, q, lg, id)
  BY DEF Stands
<1> DEFINE sent == {i \in DOMAIN sq : i > k /\ IsEvent(sq[i], id) /\ lg[sq[i].n].mine}
           left == {i \in DOMAIN q : lg[q[i]].mine}
           told == {n \in DOMAIN lg : n > sq[k].n /\ lg[n].mine /\ Matches(FilterOf[id], lg[n])}
<1>2. {sq[i].n : i \in sent} \subseteq told /\ {q[i] : i \in left} \subseteq told
  BY <1>1 DEF StandsFrom
<1>3. ASSUME NEW n \in told PROVE n \in {sq[i].n : i \in sent} \cup {q[i] : i \in left}
  BY <1>1, <1>3 DEF StandsFrom
<1>4. \A i, j \in sent : i < j => sq[i].n < sq[j].n
  BY <1>1 DEF StandsFrom
<1>5. \A i \in sent, j \in left : sq[i].n < q[j]
  BY <1>1 DEF StandsFrom
<1>6. \A i, j \in left : i < j => q[i] < q[j]
  BY <1>1 DEF StandsFrom
<1>7. IsAck(sq[k], id)
  BY <1>1 DEF StandsFrom
<1>8. {sq[i].n : i \in sent} \cup {q[i] : i \in left} = told
  BY <1>2, <1>3
<1> QED
  BY <1>4, <1>5, <1>6, <1>7, <1>8

LEMMA StreamsFit == Init => TurnInv /\ StreamInv
  BY TurnInvStarts, StreamInvStarts

LEMMA StreamsStep == TurnInv /\ StreamInv /\ [Next]_vars => TurnInv' /\ StreamInv'
  BY TurnInvKept, StreamInvKept

(* An event of a subscription reaches the client after the ack of the      *)
(* subscription and before its unack, and only if its filter lets it       *)
(* through, for any connections, subscriptions, filters and losses.        *)
THEOREM StreamBetweenAckAndUnack == Spec => []BetweenAckAndUnack
<1>1. StreamInv => BetweenAckAndUnack
  <2> SUFFICES ASSUME StreamInv, NEW c \in Conns, NEW j \in DOMAIN wire[c], wire[c][j].type = "event"
               PROVE  \E i \in 1..(j - 1) :
                        /\ wire[c][i].type = "ack" /\ wire[c][i].id = wire[c][j].id
                        /\ wire[c][i].n < wire[c][j].n
                        /\ \A m \in (i + 1)..(j - 1) : wire[c][m] # Frame("unack", wire[c][j].id, 0)
                        /\ Matches(FilterOf[wire[c][j].id], log[wire[c][j].n])
    BY DEF BetweenAckAndUnack
  <2>1. PICK i \in DOMAIN wire[c] : Acknowledges(wire[c], log, i, j)
    BY DEF StreamInv, Proper
  <2>2. i \in 1..(j - 1)
    <3>1. wire[c] \in Seq(FrameSet)
      BY StreamTypesSplit DEF StreamInv
    <3>2. i \in Nat /\ j \in Nat /\ 1 <= i /\ i < j
      BY <2>1, <3>1 DEF Acknowledges
    <3> QED
      BY <3>2
  <2> QED
    BY <2>1, <2>2 DEF Acknowledges, IsAck
<1> QED
  BY <1>1, StreamsFit, StreamsStep, PTL DEF Spec

(* While its pump serves it, a subscription gets every event of the user's *)
(* own that matches, once each and in the order of publication, however the pumps   *)
(* of however many subscriptions take turns.                               *)
THEOREM StreamOwnEventsInOrder == Spec => []OwnEventsInOrder
<1>1. StreamInv => OwnEventsInOrder
  <2> SUFFICES ASSUME StreamInv, NEW c \in Conns \ cut, NEW id \in {i \in SubIds : Served(c, i)}
               PROVE  \E k \in DOMAIN Line(c) :
                        LET sent == {i \in DOMAIN Line(c) : i > k /\ IsOwnEvent(Line(c)[i], id)}
                            left == {i \in DOMAIN queue[<<c, id>>] : log[queue[<<c, id>>][i]].mine}
                            num(i)   == Line(c)[i].n
                            later(i) == queue[<<c, id>>][i]
                        IN
                        /\ IsAck(Line(c)[k], id)
                        /\ {num(i) : i \in sent} \cup {later(i) : i \in left}
                             = {n \in DOMAIN log : n > num(k) /\ log[n].mine /\ Matches(FilterOf[id], log[n])}
                        /\ \A i, j \in sent : i < j => num(i) < num(j)
                        /\ \A i \in sent, j \in left : num(i) < later(j)
                        /\ \A i, j \in left : i < j => later(i) < later(j)
    BY DEF OwnEventsInOrder
  <2> DEFINE sq == Line(c)
             q == queue[<<c, id>>]
  <2>1. id \in SubIds /\ q \in Seq(Nat) /\ sq \in Seq(FrameSet)
    BY StreamTypesSplit DEF StreamInv, Slots, Line
  <2>2. Stands(sq, q, log, id)
    BY <2>1 DEF StreamInv, Connected, Subscribed
  <2>3. \A i : IsOwnEvent(sq[i], id) <=> IsEvent(sq[i], id) /\ log[sq[i].n].mine
    BY DEF IsOwnEvent, IsEvent
  <2> HIDE DEF sq, q
  <2>4. PICK k \in DOMAIN sq :
           LET sent == {i \in DOMAIN sq : i > k /\ IsEvent(sq[i], id) /\ log[sq[i].n].mine}
               left == {i \in DOMAIN q : log[q[i]].mine}
           IN
           /\ IsAck(sq[k], id)
           /\ {sq[i].n : i \in sent} \cup {q[i] : i \in left}
                = {n \in DOMAIN log : n > sq[k].n /\ log[n].mine /\ Matches(FilterOf[id], log[n])}
           /\ \A i, j \in sent : i < j => sq[i].n < sq[j].n
           /\ \A i \in sent, j \in left : sq[i].n < q[j]
           /\ \A i, j \in left : i < j => q[i] < q[j]
    BY <2>1, <2>2, StandsInOrder
  <2>5. {i \in DOMAIN sq : i > k /\ IsOwnEvent(sq[i], id)}
          = {i \in DOMAIN sq : i > k /\ IsEvent(sq[i], id) /\ log[sq[i].n].mine}
    BY <2>3
  <2> QED
    BY <2>4, <2>5 DEF sq, q
<1> QED
  BY <1>1, StreamsFit, StreamsStep, PTL DEF Spec

(* Another's event is sent only if the user could read its container at    *)
(* some time since the subscription was made, however grants come and go.  *)
THEOREM StreamWasReadable == Spec => WasReadable
<1>1. StreamInv /\ [Next]_vars => [SentReadable]_streamVars
  <2> SUFFICES ASSUME StreamInv, Next, NEW c \in Conns, NEW j \in DOMAIN wire'[c] \ DOMAIN wire[c],
                      wire'[c][j].type = "event"
               PROVE  \/ log[wire'[c][j].n].mine
                      \/ log[wire'[c][j].n].container \in since[<<c, wire'[c][j].id>>]
    BY DEF SentReadable, vars
  <2>1. ASSUME NEW d \in Conns, Send(d)
        PROVE  \/ log[wire'[c][j].n].mine
               \/ log[wire'[c][j].n].container \in since[<<c, wire'[c][j].id>>]
    <3> DEFINE l == lock[c]
               f == Head(l)
    <3>1. wire \in [Conns -> Seq(FrameSet)] /\ lock \in [Conns -> Seq(FrameSet)]
      BY StreamTypesSplit DEF StreamInv
    <3>2. d = c /\ c \notin cut /\ wire'[c] = Append(wire[c], f) /\ l # <<>>
      BY <2>1, <3>1 DEF Send
    <3>3. l \in Seq(FrameSet) /\ wire[c] \in Seq(FrameSet)
      BY <3>1
    <3>4. f \in FrameSet /\ 1 \in DOMAIN l /\ l[1] = f
      BY <3>2, <3>3
    <3> HIDE DEF l, f
    <3>5. wire'[c][j] = f
      BY <3>2, <3>3, <3>4, Appended
    <3>6. f.id \in SubIds
      BY <3>4 DEF FrameSet
    <3>7. Queued(l, f.id, pump[<<c, f.id>>], since[<<c, f.id>>], log)
      BY <3>2, <3>6 DEF StreamInv, Connected, Subscribed, l
    <3>8. Sendable(f, since[<<c, f.id>>], log)
      BY <3>4, <3>5, <3>7 DEF Queued, IsEvent
    <3> QED
      BY <3>5, <3>8 DEF Sendable
  <2>2. CASE \A d \in Conns : ~Send(d)
    <3>1. wire' = wire
      BY <2>2, ClientStep DEF Next, Stream, Subscribe, SubscribeAgain, Unsubscribe, Receives, Take,
         SendFails, Disconnect, CloseAll, ChangeGrant, Announce, Arrive, Publish, Fails,
         streamVars, serverVars
    <3> QED
      BY <3>1
  <2> QED
    BY <2>1, <2>2
<1> QED
  BY <1>1, StreamsFit, StreamsStep, PTL DEF Spec, WasReadable
=============================================================================
