------------------------------ MODULE TaskPool ------------------------------
(***************************************************************************)
(* What one generation of the index queue promises to the tasks that are   *)
(* put on it (mantle/search/ingest/index_queue.py): they begin in the      *)
(* order they were put, each at most once, never more than Workers at a    *)
(* time, and none is dropped while the pool is open.                       *)
(***************************************************************************)
EXTENDS Naturals, Sequences, FiniteSets

CONSTANTS Task, Workers

VARIABLES
  waiting,   \* tasks put and not begun, in the order they were put
  active,    \* tasks that run
  seen,      \* tasks ever put
  open       \* between start() and stop()

vars == <<waiting, active, seen, open>>

Init ==
  /\ waiting = <<>>
  /\ active = {}
  /\ seen = {}
  /\ open = FALSE

Put(t) ==
  /\ t \notin seen
  /\ seen' = seen \cup {t}
  /\ waiting' = Append(waiting, t)
  /\ UNCHANGED <<active, open>>

Begin ==
  /\ waiting # <<>>
  /\ Cardinality(active) < Workers
  /\ active' = active \cup {Head(waiting)}
  /\ waiting' = Tail(waiting)
  /\ UNCHANGED <<seen, open>>

End(t) ==
  /\ t \in active
  /\ active' = active \ {t}
  /\ UNCHANGED <<waiting, seen, open>>

(* A batch, or what is left of one, is lost when the pool is closed.       *)
Drop ==
  /\ ~open
  /\ \E i, j \in 0..Len(waiting) :
       /\ i <= j
       /\ waiting' = SubSeq(waiting, 1, i) \o SubSeq(waiting, j + 1, Len(waiting))
  /\ UNCHANGED <<active, seen, open>>

Toggle == open' = ~open /\ UNCHANGED <<waiting, active, seen>>

Next ==
  \/ \E t \in Task : Put(t) \/ End(t)
  \/ Begin \/ Drop \/ Toggle

Spec == Init /\ [][Next]_vars
=============================================================================
