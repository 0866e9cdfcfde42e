----------------------------- MODULE IndexQueue -----------------------------
(***************************************************************************)
(* The in-process queue of indexing tasks                                  *)
(* (mantle/search/ingest/index_queue.py): callers put tasks on a FIFO      *)
(* queue, one coordinator thread per start() moves them in batches to a    *)
(* thread pool, and the pool's workers run them.                           *)
(*                                                                         *)
(* Callers, coordinators, workers, start() and stop() run on different     *)
(* threads; one action is one critical section of the queue's lock, or one *)
(* operation on the queue.Queue, the Event or the executor.  start()       *)
(* creates executor and coordinator together and stop() clears both        *)
(* together, so one number, the generation, names the pair.                *)
(***************************************************************************)
EXTENDS Naturals, Sequences, FiniteSets

CONSTANTS
  Tasks,         \* calls of enqueue
  Tenants,       \* tenant ids
  NoTenant,      \* a task without a tenant
  TenantOf,      \* the tenant of each task
  Workers,       \* max_workers of an executor
  MaxStarts,     \* bound: worker pools ever created
  MaxStops       \* bound: calls of stop()

ASSUME QueueAssumption ==
  /\ IsFiniteSet(Tasks)
  /\ NoTenant \notin Tenants
  /\ TenantOf \in [Tasks -> Tenants \cup {NoTenant}]
  /\ Workers \in Nat \ {0}
  /\ MaxStarts \in Nat \ {0}
  /\ MaxStops \in Nat

Pools == 1..MaxStarts
None  == 0

VARIABLES
  phase,     \* how far each task has come
  queue,     \* _queue
  batch,     \* tasks_to_submit of each coordinator thread
  work,      \* the tasks submitted to each executor and not begun
  running,   \* the tasks each executor's threads are running
  current,   \* the pool _executor and _coordinator name, or None
  coord,     \* the program counter of each coordinator thread
  shut,      \* the executors shutdown() was called on
  stopFlag,  \* _stop_event
  stopper,   \* the program counter of stop(), the pool it took, and its drain
  stops,     \* calls of stop() so far
  pending,   \* _pending_per_tenant
  enqueued,  \* _total_enqueued
  finished   \* _total_processed + _total_failed

poolVars  == <<batch, work, running, current, coord, shut>>
stopVars  == <<stopFlag, stopper, stops>>
countVars == <<pending, enqueued, finished>>
vars == <<phase, queue, poolVars, stopVars, countVars>>

AtRest == [at |-> "idle", pool |-> None, drain |-> TRUE]

Phases == {"new", "accepted", "tallied", "counted", "queued", "taken",
           "submitted", "running", "accounted", "done", "dropped", "inline"}

Init ==
  /\ phase    = [t \in Tasks |-> "new"]
  /\ queue    = <<>>
  /\ batch    = [k \in Pools |-> <<>>]
  /\ work     = [k \in Pools |-> <<>>]
  /\ running  = [k \in Pools |-> {}]
  /\ current  = None
  /\ coord    = [k \in Pools |-> "none"]
  /\ shut     = {}
  /\ stopFlag = FALSE
  /\ stopper  = AtRest
  /\ stops    = 0
  /\ pending  = [n \in Tenants |-> 0]
  /\ enqueued = 0
  /\ finished = 0

Alive(k) == k # None /\ coord[k] \notin {"none", "exited"}

Mark(t, p) == phase' = [phase EXCEPT ![t] = p]

At(t, p, q) == phase[t] = p /\ Mark(t, q)

-----------------------------------------------------------------------------
(* Callers: enqueue().                                                     *)

(* is_running(), under the lock.  When it fails enqueue raises, and the    *)
(* pipeline runs the task itself, on the caller's thread.                  *)
Accept(t) ==
  /\ At(t, "new", IF Alive(current) THEN "accepted" ELSE "inline")
  /\ UNCHANGED <<queue, poolVars, stopVars, countVars>>

(* The counter of the tenant, under the lock.                              *)
Tally(t) ==
  /\ At(t, "accepted", "tallied")
  /\ IF TenantOf[t] = NoTenant
       THEN UNCHANGED pending
       ELSE pending' = [pending EXCEPT ![TenantOf[t]] = @ + 1]
  /\ UNCHANGED <<queue, poolVars, stopVars, enqueued, finished>>

(* _total_enqueued, in a critical section of its own.                      *)
Count(t) ==
  /\ At(t, "tallied", "counted")
  /\ enqueued' = enqueued + 1
  /\ UNCHANGED <<queue, poolVars, stopVars, pending, finished>>

Put(t) ==
  /\ At(t, "counted", "queued")
  /\ queue' = Append(queue, t)
  /\ UNCHANGED <<poolVars, stopVars, countVars>>

-----------------------------------------------------------------------------
(* start().                                                                *)
Start ==
  /\ ~Alive(current)
  /\ \E k \in Pools :
       /\ coord[k] = "none"
       /\ \A j \in Pools : j < k => coord[j] # "none"
       /\ current' = k
       /\ coord' = [coord EXCEPT ![k] = "top"]
  /\ stopFlag' = FALSE
  /\ UNCHANGED <<phase, queue, batch, work, running, shut, stopper, stops, countVars>>

-----------------------------------------------------------------------------
(* A coordinator thread.                                                   *)

(* The loop condition.                                                     *)
Loop(k) ==
  /\ coord[k] = "top"
  /\ coord' = [coord EXCEPT ![k] = IF stopFlag THEN "exited" ELSE "get"]
  /\ UNCHANGED <<phase, queue, batch, work, running, current, shut, stopVars, countVars>>

(* queue.get(timeout = 0.2).                                               *)
GetFirst(k) ==
  /\ coord[k] = "get"
  /\ queue # <<>>
  /\ Mark(Head(queue), "taken")
  /\ queue' = Tail(queue)
  /\ batch' = [batch EXCEPT ![k] = <<Head(queue)>>]
  /\ coord' = [coord EXCEPT ![k] = "drain"]
  /\ UNCHANGED <<work, running, current, shut, stopVars, countVars>>

(* Mutant: a coordinator that finds no task for a while ends.              *)
GetTimeoutExits(k) ==
  /\ coord[k] = "get"
  /\ queue = <<>>
  /\ coord' = [coord EXCEPT ![k] = "exited"]
  /\ UNCHANGED <<phase, queue, batch, work, running, current, shut, stopVars, countVars>>

GetTimeout(k) ==
  /\ coord[k] = "get"
  /\ queue = <<>>
  /\ coord' = [coord EXCEPT ![k] = "top"]
  /\ UNCHANGED <<phase, queue, batch, work, running, current, shut, stopVars, countVars>>

(* The inner loop: take what else is there, one get_nowait() at a time.    *)
DrainOne(k) ==
  /\ coord[k] = "drain"
  /\ queue # <<>>
  /\ Mark(Head(queue), "taken")
  /\ queue' = Tail(queue)
  /\ batch' = [batch EXCEPT ![k] = Append(@, Head(queue))]
  /\ UNCHANGED <<work, running, current, coord, shut, stopVars, countVars>>

(* `if self._executor', read without the lock.  Without one the whole      *)
(* batch is dropped.                                                       *)
CheckExecutor(k) ==
  /\ coord[k] = "drain"
  /\ queue = <<>>
  /\ IF current # None
       THEN /\ coord' = [coord EXCEPT ![k] = "submit"]
            /\ UNCHANGED <<phase, batch>>
       ELSE /\ coord' = [coord EXCEPT ![k] = "top"]
            /\ phase' = [t \in Tasks |->
                           IF \E i \in DOMAIN batch[k] : batch[k][i] = t
                             THEN "dropped" ELSE phase[t]]
            /\ batch' = [batch EXCEPT ![k] = <<>>]
  /\ UNCHANGED <<queue, work, running, current, shut, stopVars, countVars>>

(* Mutant: a task the executor refuses goes back to the queue.             *)
SubmitRequeues(k) ==
  /\ coord[k] = "submit"
  /\ batch[k] # <<>>
  /\ batch' = [batch EXCEPT ![k] = Tail(@)]
  /\ IF current = None \/ current \in shut
       THEN /\ Mark(Head(batch[k]), "queued")
            /\ queue' = Append(queue, Head(batch[k]))
            /\ UNCHANGED work
       ELSE /\ Mark(Head(batch[k]), "submitted")
            /\ work' = [work EXCEPT ![current] = Append(@, Head(batch[k]))]
            /\ UNCHANGED queue
  /\ UNCHANGED <<running, current, coord, shut, stopVars, countVars>>

(* self._executor is read again for each task; submit() raises when it is  *)
(* gone by now or shut down, and the task is dropped.                      *)
Submit(k) ==
  /\ coord[k] = "submit"
  /\ batch[k] # <<>>
  /\ batch' = [batch EXCEPT ![k] = Tail(@)]
  /\ IF current = None \/ current \in shut
       THEN /\ Mark(Head(batch[k]), "dropped")
            /\ UNCHANGED work
       ELSE /\ Mark(Head(batch[k]), "submitted")
            /\ work' = [work EXCEPT ![current] = Append(@, Head(batch[k]))]
  /\ UNCHANGED <<queue, running, current, coord, shut, stopVars, countVars>>

BatchDone(k) ==
  /\ coord[k] = "submit"
  /\ batch[k] = <<>>
  /\ coord' = [coord EXCEPT ![k] = "top"]
  /\ UNCHANGED <<phase, queue, batch, work, running, current, shut, stopVars, countVars>>

Coordinate(k) ==
  \/ Loop(k) \/ GetFirst(k) \/ GetTimeout(k) \/ DrainOne(k)
  \/ CheckExecutor(k) \/ Submit(k) \/ BatchDone(k)

-----------------------------------------------------------------------------
(* The worker threads of executor k: _execute_task.                        *)

Begin(k) ==
  /\ work[k] # <<>>
  /\ Cardinality(running[k]) < Workers
  /\ Mark(Head(work[k]), "running")
  /\ running' = [running EXCEPT ![k] = @ \cup {Head(work[k])}]
  /\ work' = [work EXCEPT ![k] = Tail(@)]
  /\ UNCHANGED <<queue, batch, current, coord, shut, stopVars, countVars>>

(* The action returned or raised: one of the two totals, under the lock.   *)
Account(k, t) ==
  /\ t \in running[k]
  /\ At(t, "running", "accounted")
  /\ finished' = finished + 1
  /\ UNCHANGED <<queue, poolVars, stopVars, pending, enqueued>>

(* Mutant: off by one.                                                     *)
DecrementToOne(n) == IF n <= 1 THEN n ELSE n - 1

Decrement(n) == IF n = 0 THEN 0 ELSE n - 1

(* The finally block: the counter of the tenant, under the lock.           *)
Release(k, t) ==
  /\ t \in running[k]
  /\ At(t, "accounted", "done")
  /\ IF TenantOf[t] = NoTenant
       THEN UNCHANGED pending
       ELSE pending' = [pending EXCEPT ![TenantOf[t]] = Decrement(@)]
  /\ running' = [running EXCEPT ![k] = @ \ {t}]
  /\ UNCHANGED <<queue, batch, work, current, coord, shut, stopVars, enqueued, finished>>

Work(k) == Begin(k) \/ \E t \in Tasks : Account(k, t) \/ Release(k, t)

-----------------------------------------------------------------------------
(* stop(): with drain, flush() waits for an empty queue but gives up after *)
(* the timeout, so it can end in any state.                                *)
StopCall ==
  /\ stopper.at = "idle"
  /\ stops < MaxStops
  /\ stops' = stops + 1
  /\ \E drain \in BOOLEAN : stopper' = [stopper EXCEPT !.at = "flush", !.drain = drain]
  /\ UNCHANGED <<phase, queue, poolVars, stopFlag, countVars>>

StopSignal ==
  /\ stopper.at = "flush"
  /\ stopFlag' = TRUE
  /\ stopper' = [stopper EXCEPT !.at = "clear"]
  /\ UNCHANGED <<phase, queue, poolVars, stops, countVars>>

(* Take executor and coordinator out of the queue, under the lock.         *)
StopClear ==
  /\ stopper.at = "clear"
  /\ stopper' = [stopper EXCEPT !.at = "join", !.pool = current]
  /\ current' = None
  /\ UNCHANGED <<phase, queue, batch, work, running, coord, shut, stopFlag, stops, countVars>>

(* coordinator.join(timeout): until it has ended, or longer than that.     *)
(* Then shutdown(), which refuses new tasks from here on and, without      *)
(* drain, takes what is submitted from the workers.                        *)
StopJoin ==
  /\ stopper.at = "join"
  /\ stopper' = [stopper EXCEPT !.at = "wait"]
  /\ shut' = IF stopper.pool = None THEN shut ELSE shut \cup {stopper.pool}
  /\ UNCHANGED <<phase, queue, batch, work, running, current, coord, stopFlag, stops, countVars>>

(* cancel_futures: one task at a time, while the workers go on.  It never  *)
(* runs, so that its tenant's count is not given back.                     *)
StopCancel ==
  /\ stopper.at = "wait"
  /\ ~stopper.drain
  /\ stopper.pool # None
  /\ work[stopper.pool] # <<>>
  /\ Mark(Head(work[stopper.pool]), "dropped")
  /\ work' = [work EXCEPT ![stopper.pool] = Tail(@)]
  /\ UNCHANGED <<queue, batch, running, current, coord, shut, stopVars, countVars>>

(* Mutants: shutdown(wait = False); stop() waits for the queue as well.    *)
StopReturnNoWait ==
  /\ stopper.at = "wait"
  /\ stopper' = AtRest
  /\ UNCHANGED <<phase, queue, poolVars, stopFlag, stops, countVars>>

StopReturnDrained ==
  /\ stopper.at = "wait"
  /\ queue = <<>>
  /\ stopper' = AtRest
  /\ UNCHANGED <<phase, queue, poolVars, stopFlag, stops, countVars>>

(* shutdown(wait = True) returns when the executor has nothing left.       *)
PoolIdle(k) == work[k] = <<>> /\ running[k] = {}

StopReturn ==
  /\ stopper.at = "wait"
  /\ stopper.pool # None => PoolIdle(stopper.pool)
  /\ stopper' = AtRest
  /\ UNCHANGED <<phase, queue, poolVars, stopFlag, stops, countVars>>

Stop == StopSignal \/ StopClear \/ StopJoin \/ StopCancel \/ StopReturn

-----------------------------------------------------------------------------
Enqueue(t) == Tally(t) \/ Count(t) \/ Put(t)

Next ==
  \/ \E t \in Tasks : Accept(t) \/ Enqueue(t)
  \/ Start
  \/ \E k \in Pools : Coordinate(k) \/ Work(k)
  \/ StopCall
  \/ Stop

Spec == Init /\ [][Next]_vars

(* Threads are scheduled, and an indexing action returns.  Nobody has to   *)
(* call enqueue, start or stop.                                            *)
Fairness ==
  /\ \A t \in Tasks : WF_vars(Enqueue(t))
  /\ \A k \in Pools : /\ WF_vars(Coordinate(k))
                      /\ WF_vars(Begin(k))
                      /\ \A t \in Tasks : WF_vars(Account(k, t) \/ Release(k, t))
  /\ WF_vars(Stop)

FairSpec == Spec /\ Fairness
-----------------------------------------------------------------------------
(* Types.                                                                  *)
TypeOK ==
  /\ phase \in [Tasks -> Phases]
  /\ queue \in Seq(Tasks)
  /\ batch \in [Pools -> Seq(Tasks)]
  /\ work \in [Pools -> Seq(Tasks)]
  /\ running \in [Pools -> SUBSET Tasks]
  /\ current \in Pools \cup {None}
  /\ coord \in [Pools -> {"none", "top", "get", "drain", "submit", "exited"}]
  /\ shut \subseteq Pools
  /\ stopFlag \in BOOLEAN
  /\ stopper \in [at : {"idle", "flush", "clear", "join", "wait"},
                  pool : Pools \cup {None}, drain : BOOLEAN]
  /\ stops \in 0..MaxStops
  /\ pending \in [Tenants -> Nat]
  /\ enqueued \in Nat
  /\ finished \in Nat

InFlight == {"queued", "taken", "submitted", "running", "accounted"}

(* A task runs at most once: it is never queued, submitted or begun again  *)
(* after it was submitted, ran or was dropped, with any number of          *)
(* coordinators on one queue and of executors started and stopped.         *)
Rank(p) ==
  CASE p = "new" -> 0 [] p = "accepted" -> 1 [] p = "tallied" -> 2 [] p = "counted" -> 3
    [] p = "queued" -> 4 [] p = "taken" -> 5 [] p = "submitted" -> 6 [] p = "running" -> 7
    [] p = "accounted" -> 8 [] p \in {"done", "dropped", "inline"} -> 9

RunsOnce ==
  [][\A t \in Tasks : phase'[t] # phase[t] => Rank(phase'[t]) > Rank(phase[t])]_vars

(* The per-tenant counter is exact outside of the callers' own steps: it   *)
(* counts the tasks on their way and, for ever, the dropped ones, because  *)
(* no path that drops a task reaches the finally block of _execute_task.   *)
(* It is never below the work that is left.                                *)
Tallied(n) ==
  {t \in Tasks : TenantOf[t] = n
                   /\ phase[t] \in {"tallied", "counted", "dropped"} \cup InFlight}

PendingExact == \A n \in Tenants : pending[n] = Cardinality(Tallied(n))

(* When stop() has returned, the executor it took runs nothing any more,   *)
(* although the coordinator may have outlived the join and still submit.   *)
StoppedPoolIdle ==
  \A k \in shut : PoolIdle(k) \/ (stopper.at = "wait" /\ stopper.pool = k)

(* What one generation promises (TaskPool).  Two coordinators on one queue *)
(* would mix the order and have twice the workers, so that it is promised  *)
(* for as long as start() has made one pool: up to the step that makes     *)
(* another.  The tasks in the executor come before those in the            *)
(* coordinator's batch, and those before the ones on the queue.            *)
Alone == \A k \in Pools : coord[k] # "none" => k = 1

OnePool == INSTANCE TaskPool
             WITH Task <- Tasks,
                  waiting <- work[1] \o (batch[1] \o queue),
                  active <- running[1],
                  seen <- {t \in Tasks : phase[t] \in InFlight \cup {"done", "dropped"}},
                  open <- current # None

ImplementsTaskPool ==
  /\ OnePool!Init
  /\ [][Alone' => OnePool!Next \/ UNCHANGED OnePool!vars]_vars

(* A task that enqueue accepted is executed: "task will be processed       *)
(* asynchronously in background threads" (index_queue.py:220) ... unless   *)
(* stop() is called, which drops the batch a coordinator holds and leaves  *)
(* on the queue what is put there later, also with drain.                  *)
AcceptedIsProcessed ==
  \A t \in Tasks : phase[t] = "accepted" ~> (phase[t] = "done" \/ stops > 0)

(* stop() returns, however the callers, the workers and the coordinator    *)
(* interleave with it.                                                     *)
StopReturns == stopper.at = "flush" ~> stopper.at = "idle"
=============================================================================
