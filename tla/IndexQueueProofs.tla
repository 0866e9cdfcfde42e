-------------------------- MODULE IndexQueueProofs --------------------------
(***************************************************************************)
(* What the index queue guarantees for any number of tasks, tenants,       *)
(* workers, pools and stops; and what the index holds of the light cone,   *)
(* for any number of artifacts, users and edges.                           *)
(***************************************************************************)
EXTENDS IndexQueue, LightCone, FiniteSetTheorems, SequenceTheorems, TLAPS

(* All the tasks of a sequence have come as far as p.                      *)
AllAt(ph, s, p) == \A i \in DOMAIN s : ph[s[i]] = p

Distinct(s) == \A i, j \in DOMAIN s : s[i] = s[j] => i = j

(* The tasks that the pools hold are distinct and at p, and no task is     *)
(* held by two pools.                                                      *)
Disjoint(f) ==
  \A k, l \in Pools : \A i \in DOMAIN f[k], j \in DOMAIN f[l] : f[k][i] = f[l][j] => k = l

Stage(ph, f, p) ==
  /\ \A k \in Pools : AllAt(ph, f[k], p)
  /\ \A k \in Pools : Distinct(f[k])
  /\ Disjoint(f)

(* Where a task is says how far it has come.                               *)
Located ==
  /\ AllAt(phase, queue, "queued") /\ Distinct(queue)
  /\ Stage(phase, batch, "taken")
  /\ Stage(phase, work, "submitted")

IInv == TypeOK /\ Located /\ PendingExact

-----------------------------------------------------------------------------
(* Sequences.                                                              *)
LEMMA TailFacts ==
  ASSUME NEW S, NEW s \in Seq(S), s # <<>>
  PROVE  /\ Head(s) \in S /\ Tail(s) \in Seq(S)
         /\ 1 \in DOMAIN s /\ Head(s) = s[1]
         /\ \A i \in DOMAIN Tail(s) : i \in Nat \ {0} /\ i + 1 \in DOMAIN s /\ Tail(s)[i] = s[i + 1]
  OBVIOUS

LEMMA AppendFacts ==
  ASSUME NEW S, NEW s \in Seq(S), NEW x \in S
  PROVE  /\ Append(s, x) \in Seq(S)
         /\ \A i \in DOMAIN Append(s, x) :
              \/ i \in DOMAIN s /\ Append(s, x)[i] = s[i]
              \/ i \notin DOMAIN s /\ i = Len(s) + 1 /\ Append(s, x)[i] = x
  OBVIOUS

LEMMA SingleFacts ==
  ASSUME NEW S, NEW x \in S
  PROVE  /\ <<x>> \in Seq(S)
         /\ \A i \in DOMAIN <<x>> : i = 1 /\ <<x>>[i] = x
  OBVIOUS

(* What is left of distinct tasks is distinct, and without the first one.  *)
LEMMA TailDistinct ==
  ASSUME NEW s \in Seq(Tasks), s # <<>>, Distinct(s)
  PROVE  /\ Distinct(Tail(s))
         /\ \A i \in DOMAIN Tail(s) : Tail(s)[i] # Head(s)
  BY TailFacts DEF Distinct

(* A task that is not in the sequence may be added.                        *)
LEMMA AppendDistinct ==
  ASSUME NEW s \in Seq(Tasks), NEW x \in Tasks, Distinct(s), \A i \in DOMAIN s : s[i] # x
  PROVE  Distinct(Append(s, x))
  BY AppendFacts DEF Distinct

-----------------------------------------------------------------------------
(* One task t moves to q: the sequences it is not in keep their phase.     *)
LEMMA AllAtUnmoved ==
  ASSUME NEW ph \in [Tasks -> Phases], NEW t \in Tasks, NEW q, NEW p, NEW s \in Seq(Tasks),
         AllAt(ph, s, p), ph[t] # p
  PROVE  AllAt([ph EXCEPT ![t] = q], s, p)
  BY DEF AllAt

(* The first task leaves the sequence when it moves on.                    *)
LEMMA AllAtLeft ==
  ASSUME NEW ph \in [Tasks -> Phases], NEW q, NEW p, NEW s \in Seq(Tasks), s # <<>>,
         AllAt(ph, s, p), Distinct(s)
  PROVE  AllAt([ph EXCEPT ![Head(s)] = q], Tail(s), p)
  <1>1. SUFFICES ASSUME NEW i \in DOMAIN Tail(s)
                 PROVE  [ph EXCEPT ![Head(s)] = q][Tail(s)[i]] = p
    BY DEF AllAt
  <1>2. Tail(s)[i] # Head(s) /\ Tail(s)[i] \in Tasks
    BY TailDistinct, TailFacts
  <1>3. ph[Tail(s)[i]] = p
    BY TailFacts DEF AllAt
  <1>4. QED
    BY <1>2, <1>3

(* A task joins the end of the sequence of its new phase.                  *)
LEMMA AllAtJoined ==
  ASSUME NEW ph \in [Tasks -> Phases], NEW t \in Tasks, NEW q, NEW s \in Seq(Tasks),
         AllAt(ph, s, q), Distinct(s), ph[t] # q
  PROVE  /\ AllAt([ph EXCEPT ![t] = q], Append(s, t), q)
         /\ Distinct(Append(s, t))
  <1>1. AllAt([ph EXCEPT ![t] = q], Append(s, t), q)
    BY AppendFacts DEF AllAt
  <1>2. \A i \in DOMAIN s : s[i] # t
    BY DEF AllAt
  <1>3. QED
    BY <1>1, <1>2, AppendDistinct

(* The same for what the pools hold.                                       *)
LEMMA StageUnmoved ==
  ASSUME NEW ph \in [Tasks -> Phases], NEW t \in Tasks, NEW q, NEW p,
         NEW f \in [Pools -> Seq(Tasks)], Stage(ph, f, p), ph[t] # p
  PROVE  Stage([ph EXCEPT ![t] = q], f, p)
  BY AllAtUnmoved DEF Stage

LEMMA StageLeft ==
  ASSUME NEW ph \in [Tasks -> Phases], NEW q, NEW p,
         NEW f \in [Pools -> Seq(Tasks)], NEW k \in Pools, f[k] # <<>>, Stage(ph, f, p)
  PROVE  Stage([ph EXCEPT ![Head(f[k])] = q], [f EXCEPT ![k] = Tail(@)], p)
  <1> DEFINE t == Head(f[k])
             g == [f EXCEPT ![k] = Tail(f[k])]
  <1>1. t \in Tasks /\ 1 \in DOMAIN f[k] /\ f[k][1] = t
    BY TailFacts
  <1>2. \A l \in Pools : \A i \in DOMAIN g[l] :
          \E j \in DOMAIN f[l] : g[l][i] = f[l][j]
    <2>1. SUFFICES ASSUME NEW l \in Pools, NEW i \in DOMAIN g[l]
                   PROVE  \E j \in DOMAIN f[l] : g[l][i] = f[l][j]
      OBVIOUS
    <2>2. CASE l = k
      BY <2>2, TailFacts
    <2>3. CASE l # k
      BY <2>3
    <2>4. QED
      BY <2>2, <2>3
  <1>3. \A l \in Pools : AllAt([ph EXCEPT ![t] = q], g[l], p)
    <2>1. SUFFICES ASSUME NEW l \in Pools
                   PROVE  AllAt([ph EXCEPT ![t] = q], g[l], p)
      OBVIOUS
    <2>2. CASE l = k
      BY <2>2, AllAtLeft DEF Stage
    <2>3. CASE l # k
      <3>1. g[l] = f[l] /\ AllAt(ph, f[l], p)
        BY <2>3 DEF Stage
      <3>2. \A i \in DOMAIN f[l] : f[l][i] # t
        BY <1>1, <2>3 DEF Stage, Disjoint
      <3>3. QED
        BY <3>1, <3>2, <1>1 DEF AllAt
    <2>4. QED
      BY <2>2, <2>3
  <1>4. \A l \in Pools : Distinct(g[l])
    BY TailDistinct DEF Stage
  <1>5. Disjoint(g)
    <2> HIDE DEF g
    <2>1. QED
      BY <1>2 DEF Stage, Disjoint
  <1>6. QED
    BY <1>3, <1>4, <1>5 DEF Stage

(* Whatever task joins a pool, appended to what it holds or on its own.    *)
LEMMA StageJoined ==
  ASSUME NEW ph \in [Tasks -> Phases], NEW t \in Tasks, NEW q,
         NEW f \in [Pools -> Seq(Tasks)], NEW k \in Pools, Stage(ph, f, q), ph[t] # q,
         NEW s \in {Append(f[k], t), <<t>>}
  PROVE  Stage([ph EXCEPT ![t] = q], [f EXCEPT ![k] = s], q)
  <1> DEFINE g == [f EXCEPT ![k] = s]
  <1>1. \A l \in Pools : \A i \in DOMAIN f[l] : f[l][i] # t
    BY DEF Stage, AllAt
  <1>2. AllAt([ph EXCEPT ![t] = q], s, q) /\ Distinct(s)
    <2>1. CASE s = <<t>>
      BY <2>1, SingleFacts DEF AllAt, Distinct
    <2>2. CASE s = Append(f[k], t)
      BY <2>2, AllAtJoined DEF Stage
    <2>3. QED
      BY <2>1, <2>2
  <1>3. \A l \in Pools : l # k => AllAt([ph EXCEPT ![t] = q], g[l], q)
    BY AllAtUnmoved DEF Stage
  <1>4. \A i \in DOMAIN s : s[i] = t \/ \E j \in DOMAIN f[k] : s[i] = f[k][j]
    <2>1. CASE s = <<t>>
      BY <2>1, SingleFacts
    <2>2. CASE s = Append(f[k], t)
      BY <2>2, AppendFacts
    <2>3. QED
      BY <2>1, <2>2
  <1>5. \A l \in Pools : \A i \in DOMAIN g[l] :
          \/ l = k /\ g[l][i] = t
          \/ \E j \in DOMAIN f[l] : g[l][i] = f[l][j]
    BY <1>4
  <1>6. Disjoint(g)
    <2> HIDE DEF g
    <2>1. QED
      BY <1>1, <1>5 DEF Stage, Disjoint
  <1>7. QED
    BY <1>2, <1>3, <1>6 DEF Stage

(* A pool drops everything it holds.                                       *)
LEMMA StageDropped ==
  ASSUME NEW ph \in [Tasks -> Phases], NEW p,
         NEW f \in [Pools -> Seq(Tasks)], NEW k \in Pools, Stage(ph, f, p)
  PROVE  Stage([t \in Tasks |-> IF \E i \in DOMAIN f[k] : f[k][i] = t THEN "dropped" ELSE ph[t]],
               [f EXCEPT ![k] = <<>>], p)
  <1> DEFINE ph2 == [t \in Tasks |-> IF \E i \in DOMAIN f[k] : f[k][i] = t THEN "dropped" ELSE ph[t]]
             g == [f EXCEPT ![k] = <<>>]
  <1>1. \A l \in Pools : l # k => g[l] = f[l]
    OBVIOUS
  <1>2. DOMAIN g[k] = {}
    OBVIOUS
  <1>3. \A l \in Pools : AllAt(ph2, g[l], p)
    <2>1. SUFFICES ASSUME NEW l \in Pools, NEW i \in DOMAIN g[l]
                   PROVE  ph2[g[l][i]] = p
      BY DEF AllAt
    <2>2. l # k /\ g[l] = f[l] /\ f[l][i] \in Tasks
      BY <1>1, <1>2
    <2>3. \A j \in DOMAIN f[k] : f[k][j] # f[l][i]
      BY <2>2 DEF Stage, Disjoint
    <2>4. QED
      BY <2>2, <2>3 DEF Stage, AllAt
  <1>4. (\A l \in Pools : Distinct(g[l])) /\ Disjoint(g)
    <2> HIDE DEF g
    <2>1. QED
      BY <1>1, <1>2 DEF Stage, Distinct, Disjoint
  <1>5. QED
    BY <1>3, <1>4 DEF Stage

-----------------------------------------------------------------------------
(* Types.                                                                  *)
StopperStates ==
  [at : {"idle", "flush", "clear", "join", "wait"}, pool : Pools \cup {None}, drain : BOOLEAN]

LEMMA TypeInit == Init => TypeOK
  <1> SUFFICES ASSUME Init PROVE TypeOK
    OBVIOUS
  <1>1. queue \in Seq(Tasks) /\ batch \in [Pools -> Seq(Tasks)] /\ work \in [Pools -> Seq(Tasks)]
    BY DEF Init
  <1>2. /\ phase \in [Tasks -> Phases] /\ running \in [Pools -> SUBSET Tasks]
        /\ coord \in [Pools -> {"none", "top", "get", "drain", "submit", "exited"}]
        /\ pending \in [Tenants -> Nat]
    BY DEF Init, Phases
  <1>3. stopper \in StopperStates
    BY DEF Init, AtRest, StopperStates
  <1>4. /\ current \in Pools \cup {None} /\ shut \subseteq Pools /\ stopFlag \in BOOLEAN
        /\ enqueued \in Nat /\ finished \in Nat
    BY DEF Init
  <1>5. stops \in 0..MaxStops
    BY QueueAssumption, SMT DEF Init, QueueAssumption
  <1>6. QED
    BY <1>1, <1>2, <1>3, <1>4, <1>5 DEF TypeOK, StopperStates

(* One field of stop()'s state changes.                                    *)
LEMMA StopperAt ==
  ASSUME NEW A, NEW B, NEW C, NEW s \in [at : A, pool : B, drain : C], NEW a \in A
  PROVE  [s EXCEPT !.at = a] \in [at : A, pool : B, drain : C]
  BY Zenon

LEMMA TypeNext ==
  ASSUME TypeOK, [Next]_vars
  PROVE  TypeOK'
  <1> USE QueueAssumption DEF QueueAssumption, TypeOK, Mark, At, poolVars, stopVars, countVars
  <1>1. ASSUME NEW t \in Tasks, Accept(t) PROVE TypeOK'
    BY <1>1 DEF Accept, Phases
  <1>2. ASSUME NEW t \in Tasks, Tally(t) PROVE TypeOK'
    <2>1. phase' \in [Tasks -> Phases]
      BY <1>2 DEF Tally, Phases
    <2>2. pending' \in [Tenants -> Nat]
      <3>1. CASE TenantOf[t] = NoTenant
        BY <1>2, <3>1 DEF Tally
      <3>2. CASE TenantOf[t] # NoTenant
        <4>1. pending' = [pending EXCEPT ![TenantOf[t]] = @ + 1]
          BY <1>2, <3>2 DEF Tally
        <4>2. TenantOf[t] \in Tenants /\ pending[TenantOf[t]] + 1 \in Nat
          BY <3>2
        <4>3. QED
          BY <4>1, <4>2, Zenon
      <3>3. QED
        BY <3>1, <3>2
    <2>3. QED
      BY <1>2, <2>1, <2>2 DEF Tally
  <1>3. ASSUME NEW t \in Tasks, Count(t) PROVE TypeOK'
    BY <1>3 DEF Count, Phases
  <1>4. ASSUME NEW t \in Tasks, Put(t) PROVE TypeOK'
    BY <1>4, AppendFacts DEF Put, Phases
  <1>5. ASSUME Start PROVE TypeOK'
    BY <1>5 DEF Start
  <1>6. ASSUME NEW k \in Pools, Loop(k) PROVE TypeOK'
    BY <1>6 DEF Loop
  <1>7. ASSUME NEW k \in Pools, GetFirst(k) PROVE TypeOK'
    BY <1>7, TailFacts, SingleFacts DEF GetFirst, Phases
  <1>8. ASSUME NEW k \in Pools, GetTimeout(k) PROVE TypeOK'
    BY <1>8 DEF GetTimeout
  <1>9. ASSUME NEW k \in Pools, DrainOne(k) PROVE TypeOK'
    BY <1>9, TailFacts, AppendFacts DEF DrainOne, Phases
  <1>10. ASSUME NEW k \in Pools, CheckExecutor(k) PROVE TypeOK'
    <2>1. phase' \in [Tasks -> Phases]
      BY <1>10 DEF CheckExecutor, Phases
    <2>2. batch' \in [Pools -> Seq(Tasks)]
      BY <1>10 DEF CheckExecutor
    <2>3. QED
      BY <1>10, <2>1, <2>2 DEF CheckExecutor
  <1>11. ASSUME NEW k \in Pools, Submit(k) PROVE TypeOK'
    <2>1. Head(batch[k]) \in Tasks /\ Tail(batch[k]) \in Seq(Tasks)
      BY <1>11, TailFacts DEF Submit
    <2>2. phase' \in [Tasks -> Phases]
      BY <1>11, <2>1 DEF Submit, Phases
    <2>3. batch' \in [Pools -> Seq(Tasks)]
      BY <1>11, <2>1 DEF Submit
    <2>4. work' \in [Pools -> Seq(Tasks)]
      <3>1. CASE current = None \/ current \in shut
        BY <1>11, <3>1 DEF Submit
      <3>2. CASE ~(current = None \/ current \in shut)
        <4>1. work' = [work EXCEPT ![current] = Append(@, Head(batch[k]))]
          BY <1>11, <3>2 DEF Submit
        <4>2. current \in Pools
          BY <3>2
        <4>3. QED
          BY <4>1, <4>2, <2>1, AppendFacts
      <3>3. QED
        BY <3>1, <3>2
    <2>5. QED
      BY <1>11, <2>2, <2>3, <2>4 DEF Submit
  <1>12. ASSUME NEW k \in Pools, BatchDone(k) PROVE TypeOK'
    BY <1>12 DEF BatchDone
  <1>13. ASSUME NEW k \in Pools, Begin(k) PROVE TypeOK'
    BY <1>13, TailFacts DEF Begin, Phases
  <1>14. ASSUME NEW k \in Pools, NEW t \in Tasks, Account(k, t) PROVE TypeOK'
    BY <1>14 DEF Account, Phases
  <1>15. ASSUME NEW k \in Pools, NEW t \in Tasks, Release(k, t) PROVE TypeOK'
    <2>1. phase' \in [Tasks -> Phases]
      BY <1>15 DEF Release, Phases
    <2>2. running' \in [Pools -> SUBSET Tasks]
      BY <1>15 DEF Release
    <2>3. \A n \in Nat : Decrement(n) \in Nat
      BY DEF Decrement
    <2>4. pending' \in [Tenants -> Nat]
      <3>1. CASE TenantOf[t] = NoTenant
        BY <1>15, <3>1 DEF Release
      <3>2. CASE TenantOf[t] # NoTenant
        <4>1. pending' = [pending EXCEPT ![TenantOf[t]] = Decrement(@)]
          BY <1>15, <3>2 DEF Release
        <4>2. QED
          BY <4>1, <2>3
      <3>3. QED
        BY <3>1, <3>2
    <2>5. QED
      BY <1>15, <2>1, <2>2, <2>4 DEF Release
  <1>16. ASSUME StopCall PROVE TypeOK'
    <2>1. stopper' \in StopperStates
      <3>1. PICK drain \in BOOLEAN : stopper' = [stopper EXCEPT !.at = "flush", !.drain = drain]
        BY <1>16 DEF StopCall
      <3>2. QED
        BY <3>1 DEF StopperStates
    <2>2. stops' \in 0..MaxStops
      BY <1>16 DEF StopCall
    <2>3. QED
      BY <1>16, <2>1, <2>2 DEF StopCall, StopperStates
  <1>17. ASSUME Stop PROVE TypeOK'
    <2>1. CASE StopSignal
      <3>1. stopper' \in StopperStates
        BY <2>1, StopperAt, Zenon DEF StopSignal, StopperStates
      <3>2. QED
        BY <2>1, <3>1 DEF StopSignal, StopperStates
    <2>2. CASE StopClear
      BY <2>2 DEF StopClear
    <2>3. CASE StopJoin
      <3>1. stopper' \in StopperStates
        BY <2>3, StopperAt, Zenon DEF StopJoin, StopperStates
      <3>2. shut' \subseteq Pools
        BY <2>3 DEF StopJoin
      <3>3. QED
        BY <2>3, <3>1, <3>2 DEF StopJoin, StopperStates
    <2>4. CASE StopReturn
      BY <2>4 DEF StopReturn, AtRest
    <2>5. CASE StopCancel
      <3>1. stopper.pool \in Pools /\ work[stopper.pool] # <<>>
        BY <2>5 DEF StopCancel
      <3>2. Head(work[stopper.pool]) \in Tasks /\ Tail(work[stopper.pool]) \in Seq(Tasks)
        BY <3>1, TailFacts
      <3>3. QED
        BY <2>5, <3>1, <3>2 DEF StopCancel, Phases
    <2>6. QED
      BY <1>17, <2>1, <2>2, <2>3, <2>4, <2>5 DEF Stop
  <1>18. ASSUME UNCHANGED vars PROVE TypeOK'
    BY <1>18 DEF vars
  <1> HIDE DEF QueueAssumption, TypeOK, Mark, At, poolVars, stopVars, countVars
  <1>20. QED
    BY <1>1, <1>2, <1>3, <1>4, <1>5, <1>6, <1>7, <1>8, <1>9, <1>10, <1>11, <1>12,
       <1>13, <1>14, <1>15, <1>16, <1>17, <1>18
       DEF Next, Enqueue, Coordinate, Work

-----------------------------------------------------------------------------
(* Where the tasks are, action by action.                                  *)

(* A task in none of the sequences moves, or nothing that matters does.    *)
LEMMA LocatedApart ==
  ASSUME TypeOK, Located, UNCHANGED <<queue, batch, work>>,
         \/ UNCHANGED phase
         \/ \E t \in Tasks, q \in Phases :
              phase[t] \notin {"queued", "taken", "submitted"} /\ Mark(t, q)
  PROVE  Located'
  <1>1. CASE UNCHANGED phase
    BY <1>1 DEF Located
  <1>2. ASSUME NEW t \in Tasks, NEW q \in Phases,
               phase[t] \notin {"queued", "taken", "submitted"}, Mark(t, q)
        PROVE  Located'
    <2>1. AllAt(phase', queue, "queued")
      BY <1>2, AllAtUnmoved DEF Located, TypeOK, Mark
    <2>2. Stage(phase', batch, "taken") /\ Stage(phase', work, "submitted")
      BY <1>2, StageUnmoved DEF Located, TypeOK, Mark
    <2>3. QED
      BY <2>1, <2>2 DEF Located
  <1>3. QED
    BY <1>1, <1>2

LEMMA LocatedPut ==
  ASSUME TypeOK, Located, NEW t \in Tasks, Put(t)
  PROVE  Located'
  <1>1. phase[t] = "counted" /\ phase' = [phase EXCEPT ![t] = "queued"]
    BY DEF Put, At, Mark
  <1>2. AllAt(phase', queue', "queued") /\ Distinct(queue')
    BY <1>1, AllAtJoined DEF Located, TypeOK, Put
  <1>3. Stage(phase', batch, "taken") /\ Stage(phase', work, "submitted")
    BY <1>1, StageUnmoved DEF Located, TypeOK
  <1>4. QED
    BY <1>2, <1>3 DEF Located, Put, poolVars

(* The head of the queue goes to a coordinator.                            *)
LEMMA LocatedTake ==
  ASSUME TypeOK, Located, NEW k \in Pools, GetFirst(k) \/ DrainOne(k)
  PROVE  Located'
  <1> DEFINE t == Head(queue)
  <1>1. /\ queue # <<>> /\ queue' = Tail(queue) /\ work' = work
        /\ phase' = [phase EXCEPT ![t] = "taken"]
        /\ \E s \in {Append(batch[k], t), <<t>>} : batch' = [batch EXCEPT ![k] = s]
    BY DEF GetFirst, DrainOne, Mark
  <1>2. t \in Tasks /\ phase[t] = "queued"
    BY <1>1, TailFacts DEF TypeOK, Located, AllAt
  <1> HIDE DEF t
  <1>3. AllAt(phase', queue', "queued") /\ Distinct(queue')
    BY <1>1, AllAtLeft, TailDistinct DEF TypeOK, Located, t
  <1>4. Stage(phase', batch', "taken")
    <2>1. PICK s \in {Append(batch[k], t), <<t>>} : batch' = [batch EXCEPT ![k] = s]
      BY <1>1
    <2>2. phase \in [Tasks -> Phases] /\ batch \in [Pools -> Seq(Tasks)] /\ Stage(phase, batch, "taken")
      BY DEF TypeOK, Located
    <2>3. Stage([phase EXCEPT ![t] = "taken"], [batch EXCEPT ![k] = s], "taken")
      BY <1>2, <2>2, StageJoined
    <2>4. QED
      BY <1>1, <2>1, <2>3
  <1>5. Stage(phase', work', "submitted")
    BY <1>1, <1>2, StageUnmoved DEF TypeOK, Located
  <1>6. QED
    BY <1>3, <1>4, <1>5 DEF Located

(* A coordinator without an executor drops its batch, or goes on.          *)
LEMMA LocatedCheck ==
  ASSUME TypeOK, Located, NEW k \in Pools, CheckExecutor(k)
  PROVE  Located'
  <1>1. CASE current # None
    BY <1>1, LocatedApart DEF CheckExecutor
  <1>2. CASE current = None
    <2>1. /\ phase' = [t \in Tasks |-> IF \E i \in DOMAIN batch[k] : batch[k][i] = t
                                         THEN "dropped" ELSE phase[t]]
          /\ batch' = [batch EXCEPT ![k] = <<>>]
          /\ queue' = queue /\ work' = work
      BY <1>2 DEF CheckExecutor
    <2>2. Stage(phase', batch', "taken")
      BY <2>1, StageDropped DEF TypeOK, Located
    <2>3. \A t \in Tasks : phase[t] # "taken" => phase'[t] = phase[t]
      BY <2>1 DEF Located, Stage, AllAt
    <2>4. AllAt(phase', queue', "queued")
      <3>1. SUFFICES ASSUME NEW i \in DOMAIN queue PROVE phase'[queue[i]] = "queued"
        BY <2>1 DEF AllAt
      <3>2. queue[i] \in Tasks /\ phase[queue[i]] = "queued"
        BY DEF TypeOK, Located, AllAt
      <3>3. QED
        BY <2>3, <3>2
    <2>5. \A l \in Pools : AllAt(phase', work[l], "submitted")
      BY <2>3 DEF TypeOK, Located, Stage, AllAt
    <2>6. QED
      BY <2>1, <2>2, <2>4, <2>5 DEF Located, Stage
  <1>3. QED
    BY <1>1, <1>2

(* The head of a batch goes to an executor, or is dropped.                 *)
LEMMA LocatedSubmit ==
  ASSUME TypeOK, Located, NEW k \in Pools, Submit(k)
  PROVE  Located'
  <1> DEFINE t == Head(batch[k])
  <1>1. batch[k] # <<>> /\ batch' = [batch EXCEPT ![k] = Tail(@)] /\ queue' = queue
    BY DEF Submit
  <1>2. t \in Tasks /\ phase[t] = "taken"
    BY <1>1, TailFacts DEF TypeOK, Located, Stage, AllAt
  <1>3. \/ phase' = [phase EXCEPT ![t] = "dropped"] /\ work' = work
        \/ /\ phase' = [phase EXCEPT ![t] = "submitted"]
           /\ current \in Pools
           /\ work' = [work EXCEPT ![current] = Append(work[current], t)]
    BY DEF Submit, Mark, TypeOK
  <1>4. PICK q \in {"dropped", "submitted"} : phase' = [phase EXCEPT ![t] = q]
    BY <1>3
  <1>5. Stage(phase', batch', "taken")
    BY <1>1, <1>4, StageLeft DEF TypeOK, Located
  <1> HIDE DEF t
  <1>6. AllAt(phase', queue', "queued")
    BY <1>1, <1>2, <1>4, AllAtUnmoved DEF TypeOK, Located
  <1>7. Stage(phase', work', "submitted")
    <2>1. /\ phase \in [Tasks -> Phases] /\ work \in [Pools -> Seq(Tasks)]
          /\ Stage(phase, work, "submitted")
      BY DEF TypeOK, Located
    <2>2. Stage([phase EXCEPT ![t] = "dropped"], work, "submitted")
      BY <1>2, <2>1, StageUnmoved
    <2>3. current \in Pools =>
            Stage([phase EXCEPT ![t] = "submitted"],
                  [work EXCEPT ![current] = Append(work[current], t)], "submitted")
      BY <1>2, <2>1, StageJoined
    <2>4. QED
      BY <1>3, <2>2, <2>3
  <1>8. QED
    BY <1>1, <1>5, <1>6, <1>7 DEF Located

(* The head of an executor's tasks begins to run.                          *)
LEMMA LocatedBegin ==
  ASSUME TypeOK, Located, NEW k \in Pools, Begin(k)
  PROVE  Located'
  <1> DEFINE t == Head(work[k])
  <1>1. /\ work[k] # <<>> /\ work' = [work EXCEPT ![k] = Tail(@)]
        /\ queue' = queue /\ batch' = batch
        /\ phase' = [phase EXCEPT ![t] = "running"]
    BY DEF Begin, Mark
  <1>2. t \in Tasks /\ phase[t] = "submitted"
    BY <1>1, TailFacts DEF TypeOK, Located, Stage, AllAt
  <1>3. Stage(phase', work', "submitted")
    BY <1>1, StageLeft DEF TypeOK, Located
  <1> HIDE DEF t
  <1>4. AllAt(phase', queue', "queued")
    BY <1>1, <1>2, AllAtUnmoved DEF TypeOK, Located
  <1>5. Stage(phase', batch', "taken")
    BY <1>1, <1>2, StageUnmoved DEF TypeOK, Located
  <1>6. QED
    BY <1>1, <1>3, <1>4, <1>5 DEF Located

(* stop() takes the head of an executor's tasks.                           *)
LEMMA CancelHead ==
  ASSUME TypeOK, Located, StopCancel
  PROVE  \E k \in Pools :
           /\ k = stopper.pool /\ ~stopper.drain /\ stopper.at = "wait" /\ work[k] # <<>>
           /\ Head(work[k]) \in Tasks /\ phase[Head(work[k])] = "submitted"
           /\ Mark(Head(work[k]), "dropped") /\ work' = [work EXCEPT ![k] = Tail(@)]
           /\ UNCHANGED <<queue, batch, running, current, coord, shut, stopper, pending>>
  <1>1. stopper.pool \in Pools /\ work[stopper.pool] # <<>>
    BY DEF StopCancel, TypeOK
  <1>2. Head(work[stopper.pool]) \in Tasks /\ phase[Head(work[stopper.pool])] = "submitted"
    BY <1>1, TailFacts DEF TypeOK, Located, Stage, AllAt
  <1>3. QED
    BY <1>1, <1>2 DEF StopCancel, stopVars, countVars

LEMMA LocatedCancel ==
  ASSUME TypeOK, Located, StopCancel
  PROVE  Located'
  <1>1. PICK k \in Pools :
          /\ work[k] # <<>> /\ work' = [work EXCEPT ![k] = Tail(@)]
          /\ Head(work[k]) \in Tasks /\ phase[Head(work[k])] = "submitted"
          /\ Mark(Head(work[k]), "dropped") /\ UNCHANGED <<queue, batch>>
    BY CancelHead
  <1> DEFINE t == Head(work[k])
  <1>2. phase' = [phase EXCEPT ![t] = "dropped"]
    BY <1>1 DEF Mark
  <1>3. Stage(phase', work', "submitted")
    BY <1>1, <1>2, StageLeft DEF TypeOK, Located
  <1>4. t \in Tasks /\ phase[t] = "submitted"
    BY <1>1
  <1> HIDE DEF t
  <1>5. AllAt(phase', queue', "queued")
    BY <1>1, <1>2, <1>4, AllAtUnmoved DEF TypeOK, Located
  <1>6. Stage(phase', batch', "taken")
    BY <1>1, <1>2, <1>4, StageUnmoved DEF TypeOK, Located
  <1>7. QED
    BY <1>1, <1>3, <1>5, <1>6 DEF Located

LEMMA LocatedNext ==
  ASSUME TypeOK, Located, [Next]_vars
  PROVE  Located'
  <1>1. ASSUME NEW t \in Tasks, Accept(t) \/ Tally(t) \/ Count(t) PROVE Located'
    BY <1>1, LocatedApart DEF Accept, Tally, Count, At, Phases, poolVars
  <1>2. ASSUME NEW k \in Pools, Loop(k) \/ GetTimeout(k) \/ BatchDone(k) PROVE Located'
    BY <1>2, LocatedApart DEF Loop, GetTimeout, BatchDone
  <1>3. ASSUME NEW k \in Pools, NEW t \in Tasks, Account(k, t) \/ Release(k, t) PROVE Located'
    BY <1>3, LocatedApart DEF Account, Release, At, Phases, poolVars
  <1>4. ASSUME Start \/ StopCall PROVE Located'
    BY <1>4, LocatedApart DEF Start, StopCall, poolVars
  <1>5. ASSUME Stop PROVE Located'
    BY <1>5, LocatedApart, LocatedCancel DEF Stop, StopSignal, StopClear, StopJoin, StopReturn, poolVars
  <1>6. ASSUME UNCHANGED vars PROVE Located'
    BY <1>6, LocatedApart DEF vars, poolVars
  <1>7. QED
    BY <1>1, <1>2, <1>3, <1>4, <1>5, <1>6, LocatedPut, LocatedTake, LocatedCheck,
       LocatedSubmit, LocatedBegin DEF Next, Enqueue, Coordinate, Work

-----------------------------------------------------------------------------
(* The counter of each tenant.                                             *)
CountedPhases == {"tallied", "counted", "dropped"} \cup InFlight

(* A tenant's counted tasks are finitely many.                             *)
LEMMA TalliedFinite ==
  ASSUME NEW n
  PROVE  IsFiniteSet(Tallied(n)) /\ Cardinality(Tallied(n)) \in Nat
  <1>1. Tallied(n) \in SUBSET Tasks
    BY DEF Tallied
  <1>2. QED
    BY <1>1, QueueAssumption, FS_Subset, FS_CardinalityType DEF QueueAssumption

(* A step that neither starts nor stops counting a tenant's task.          *)
LEMMA PendingStill ==
  ASSUME TypeOK, PendingExact, UNCHANGED pending,
         \A t \in Tasks : TenantOf[t] \in Tenants =>
           (phase'[t] \in CountedPhases <=> phase[t] \in CountedPhases)
  PROVE  PendingExact'
  <1>1. \A n \in Tenants : Tallied(n)' = Tallied(n)
    BY DEF Tallied, CountedPhases
  <1>2. QED
    BY <1>1 DEF PendingExact

(* One task moves within the counted phases, or outside of them.           *)
LEMMA PendingMoved ==
  ASSUME TypeOK, PendingExact, UNCHANGED pending, NEW t \in Tasks, NEW q,
         phase[t] \in CountedPhases <=> q \in CountedPhases, Mark(t, q)
  PROVE  PendingExact'
  <1>1. \A u \in Tasks : phase'[u] = IF u = t THEN q ELSE phase[u]
    BY DEF Mark, TypeOK
  <1>2. QED
    BY <1>1, PendingStill

(* A caller counts its task.                                               *)
LEMMA PendingTally ==
  ASSUME TypeOK, PendingExact, NEW t \in Tasks, Tally(t)
  PROVE  PendingExact'
  <1>1. phase[t] = "accepted" /\ \A u \in Tasks : phase'[u] = IF u = t THEN "tallied" ELSE phase[u]
    BY DEF Tally, At, Mark, TypeOK
  <1>2. CASE TenantOf[t] = NoTenant
    <2>1. UNCHANGED pending /\ TenantOf[t] \notin Tenants
      BY <1>2, QueueAssumption DEF Tally, QueueAssumption
    <2>2. QED
      BY <1>1, <2>1, PendingStill
  <1>3. CASE TenantOf[t] # NoTenant
    <2>1. \A n \in Tenants : pending'[n] = IF n = TenantOf[t] THEN pending[n] + 1 ELSE pending[n]
      BY <1>3 DEF Tally, TypeOK
    <2>2. t \notin Tallied(TenantOf[t]) /\ Tallied(TenantOf[t])' = Tallied(TenantOf[t]) \cup {t}
      BY <1>1 DEF Tallied, InFlight
    <2>3. \A n \in Tenants : n # TenantOf[t] => Tallied(n)' = Tallied(n)
      BY <1>1 DEF Tallied
    <2>4. Cardinality(Tallied(TenantOf[t])') = Cardinality(Tallied(TenantOf[t])) + 1
      BY <2>2, TalliedFinite, FS_AddElement
    <2>5. QED
      BY <2>1, <2>3, <2>4 DEF PendingExact
  <1>4. QED
    BY <1>2, <1>3

(* A worker releases its task: the counter is above 0, so that the guard   *)
(* of the decrement never hides a task that was not counted.               *)
LEMMA PendingRelease ==
  ASSUME TypeOK, PendingExact, NEW k \in Pools, NEW t \in Tasks, Release(k, t)
  PROVE  PendingExact'
  <1>1. phase[t] = "accounted" /\ \A u \in Tasks : phase'[u] = IF u = t THEN "done" ELSE phase[u]
    BY DEF Release, At, Mark, TypeOK
  <1>2. CASE TenantOf[t] = NoTenant
    <2>1. UNCHANGED pending /\ TenantOf[t] \notin Tenants
      BY <1>2, QueueAssumption DEF Release, QueueAssumption
    <2>2. QED
      BY <1>1, <2>1, PendingStill
  <1>3. CASE TenantOf[t] # NoTenant
    <2>1. TenantOf[t] \in Tenants
      BY <1>3, QueueAssumption DEF QueueAssumption
    <2>2. \A n \in Tenants :
            pending'[n] = IF n = TenantOf[t] THEN Decrement(pending[n]) ELSE pending[n]
      BY <1>3 DEF Release, TypeOK
    <2>3. t \in Tallied(TenantOf[t]) /\ Tallied(TenantOf[t])' = Tallied(TenantOf[t]) \ {t}
      BY <1>1 DEF Tallied, InFlight
    <2>4. \A n \in Tenants : n # TenantOf[t] => Tallied(n)' = Tallied(n)
      BY <1>1 DEF Tallied
    <2>5. Cardinality(Tallied(TenantOf[t])') = Cardinality(Tallied(TenantOf[t])) - 1
      BY <2>3, TalliedFinite, FS_RemoveElement
    <2>6. Cardinality(Tallied(TenantOf[t])') \in Nat /\ Cardinality(Tallied(TenantOf[t])) \in Nat
      BY <2>3, TalliedFinite, FS_RemoveElement, FS_CardinalityType
    <2>7. Decrement(pending[TenantOf[t]]) = Cardinality(Tallied(TenantOf[t])')
      BY <2>1, <2>5, <2>6 DEF PendingExact, Decrement
    <2>8. QED
      BY <2>2, <2>4, <2>7 DEF PendingExact
  <1>4. QED
    BY <1>2, <1>3

(* A coordinator without an executor drops tasks it has taken.             *)
LEMMA CheckMoves ==
  ASSUME TypeOK, Located, NEW k \in Pools, CheckExecutor(k)
  PROVE  \A t \in Tasks : phase'[t] = phase[t] \/ (phase[t] = "taken" /\ phase'[t] = "dropped")
  <1>1. CASE current # None
    BY <1>1 DEF CheckExecutor
  <1>2. CASE current = None
    <2>1. SUFFICES ASSUME NEW t \in Tasks, phase'[t] # phase[t]
                   PROVE  phase[t] = "taken" /\ phase'[t] = "dropped"
      OBVIOUS
    <2>2. phase'[t] = IF \E i \in DOMAIN batch[k] : batch[k][i] = t THEN "dropped" ELSE phase[t]
      BY <1>2 DEF CheckExecutor
    <2>3. PICK i \in DOMAIN batch[k] : batch[k][i] = t
      BY <2>1, <2>2
    <2>4. QED
      BY <2>2, <2>3 DEF Located, Stage, AllAt
  <1>3. QED
    BY <1>1, <1>2

(* A coordinator that drops its batch leaves the tasks counted.            *)
LEMMA PendingCheck ==
  ASSUME TypeOK, Located, PendingExact, NEW k \in Pools, CheckExecutor(k)
  PROVE  PendingExact'
  <1>1. \A t \in Tasks : phase'[t] = phase[t] \/ (phase[t] = "taken" /\ phase'[t] = "dropped")
    BY CheckMoves
  <1>2. UNCHANGED pending
    BY DEF CheckExecutor, countVars
  <1>3. QED
    BY <1>1, <1>2, PendingStill DEF CountedPhases, InFlight

LEMMA PendingNext ==
  ASSUME TypeOK, Located, PendingExact, [Next]_vars
  PROVE  PendingExact'
  <1> USE DEF CountedPhases, InFlight, countVars
  <1>1. ASSUME NEW t \in Tasks, Accept(t) \/ Count(t) \/ Put(t) PROVE PendingExact'
    <2>1. PICK q \in Phases : Mark(t, q) /\ (phase[t] \in CountedPhases <=> q \in CountedPhases)
      BY <1>1 DEF Accept, Count, Put, At, Phases
    <2>2. QED
      BY <1>1, <2>1, PendingMoved DEF Accept, Count, Put
  <1>2. ASSUME NEW k \in Pools, GetFirst(k) \/ DrainOne(k) PROVE PendingExact'
    <2>1. Head(queue) \in Tasks /\ phase[Head(queue)] = "queued"
      BY <1>2, TailFacts DEF GetFirst, DrainOne, TypeOK, Located, AllAt
    <2>2. QED
      BY <1>2, <2>1, PendingMoved DEF GetFirst, DrainOne
  <1>3. ASSUME NEW k \in Pools, Submit(k) PROVE PendingExact'
    <2>1. Head(batch[k]) \in Tasks /\ phase[Head(batch[k])] = "taken"
      BY <1>3, TailFacts DEF Submit, TypeOK, Located, Stage, AllAt
    <2>2. PICK q \in {"dropped", "submitted"} : Mark(Head(batch[k]), q)
      BY <1>3 DEF Submit
    <2>3. UNCHANGED pending
      BY <1>3 DEF Submit
    <2>4. QED
      BY <2>1, <2>2, <2>3, PendingMoved
  <1>4. ASSUME NEW k \in Pools, Begin(k) PROVE PendingExact'
    <2>1. Head(work[k]) \in Tasks /\ phase[Head(work[k])] = "submitted"
      BY <1>4, TailFacts DEF Begin, TypeOK, Located, Stage, AllAt
    <2>2. QED
      BY <1>4, <2>1, PendingMoved DEF Begin
  <1>5. ASSUME NEW k \in Pools, NEW t \in Tasks, Account(k, t) PROVE PendingExact'
    BY <1>5, PendingMoved DEF Account, At
  <1>6. ASSUME UNCHANGED <<phase, pending>> PROVE PendingExact'
    BY <1>6, PendingStill
  <1>7. ASSUME NEW k \in Pools, Loop(k) \/ GetTimeout(k) \/ BatchDone(k) PROVE PendingExact'
    BY <1>6, <1>7 DEF Loop, GetTimeout, BatchDone
  <1>8. ASSUME Start \/ StopCall PROVE PendingExact'
    BY <1>6, <1>8 DEF Start, StopCall
  <1>9. ASSUME Stop PROVE PendingExact'
    <2>1. CASE StopCancel
      BY <2>1, CancelHead, PendingMoved
    <2>2. CASE ~StopCancel
      BY <1>6, <1>9, <2>2 DEF Stop, StopSignal, StopClear, StopJoin, StopReturn
    <2>3. QED
      BY <2>1, <2>2
  <1>10. ASSUME UNCHANGED vars PROVE PendingExact'
    BY <1>6, <1>10 DEF vars
  <1>11. QED
    BY <1>1, <1>2, <1>3, <1>4, <1>5, <1>7, <1>8, <1>9, <1>10, PendingTally, PendingRelease,
       PendingCheck DEF Next, Enqueue, Coordinate, Work

-----------------------------------------------------------------------------
LEMMA InitIInv == Init => IInv
  <1> SUFFICES ASSUME Init PROVE IInv
    OBVIOUS
  <1>1. Located
    BY DEF Init, Located, Stage, AllAt, Distinct, Disjoint
  <1>2. \A n \in Tenants : Tallied(n) = {}
    BY DEF Init, Tallied, InFlight
  <1>3. PendingExact
    BY <1>2, FS_EmptySet DEF Init, PendingExact
  <1>4. QED
    BY TypeInit, <1>1, <1>3 DEF IInv

(* The inductive invariant holds in every reachable state.                 *)
LEMMA QueueInvariant == Spec => []IInv
  <1>1. IInv /\ [Next]_vars => IInv'
    BY TypeNext, LocatedNext, PendingNext DEF IInv
  <1>2. QED
    BY InitIInv, <1>1, PTL DEF Spec

(* Every state is well typed.                                              *)
THEOREM QueueTypeOK == Spec => []TypeOK
  <1>1. IInv => TypeOK
    BY DEF IInv
  <1>2. QED
    BY <1>1, QueueInvariant, PTL

(* The counter of a tenant is exact, however callers, coordinators and     *)
(* workers interleave: it counts the tasks on their way and those dropped. *)
THEOREM QueuePendingExact == Spec => []PendingExact
  <1>1. IInv => PendingExact
    BY DEF IInv
  <1>2. QED
    BY <1>1, QueueInvariant, PTL

-----------------------------------------------------------------------------
(* Every step that moves a task moves it forward.                          *)
Forward == \A t \in Tasks : phase'[t] # phase[t] => Rank(phase'[t]) > Rank(phase[t])

LEMMA ForwardMoved ==
  ASSUME TypeOK, NEW t \in Tasks, NEW q, Mark(t, q), Rank(q) > Rank(phase[t])
  PROVE  Forward
  <1>1. \A u \in Tasks : phase'[u] = IF u = t THEN q ELSE phase[u]
    BY DEF Mark, TypeOK
  <1>2. QED
    BY <1>1 DEF Forward

LEMMA ForwardNext ==
  ASSUME IInv, Next
  PROVE  Forward
  <1> USE DEF IInv
  <1>1. ASSUME NEW t \in Tasks, Accept(t) \/ Tally(t) \/ Count(t) \/ Put(t) PROVE Forward
    <2>1. PICK p \in Phases, q \in Phases : phase[t] = p /\ Mark(t, q) /\ Rank(q) > Rank(p)
      BY <1>1 DEF Accept, Tally, Count, Put, At, Phases, Rank
    <2>2. QED
      BY <2>1, ForwardMoved
  <1>2. ASSUME NEW k \in Pools, GetFirst(k) \/ DrainOne(k) PROVE Forward
    <2>1. Head(queue) \in Tasks /\ phase[Head(queue)] = "queued"
      BY <1>2, TailFacts DEF GetFirst, DrainOne, TypeOK, Located, AllAt
    <2>2. Rank("taken") > Rank("queued")
      BY DEF Rank
    <2>3. QED
      BY <1>2, <2>1, <2>2, ForwardMoved DEF GetFirst, DrainOne
  <1>3. ASSUME NEW k \in Pools, CheckExecutor(k) PROVE Forward
    <2>1. \A t \in Tasks : phase'[t] = phase[t] \/ (phase[t] = "taken" /\ phase'[t] = "dropped")
      BY <1>3, CheckMoves
    <2>2. Rank("dropped") > Rank("taken")
      BY DEF Rank
    <2>3. QED
      BY <2>1, <2>2 DEF Forward
  <1>4. ASSUME NEW k \in Pools, Submit(k) PROVE Forward
    <2>1. Head(batch[k]) \in Tasks /\ phase[Head(batch[k])] = "taken"
      BY <1>4, TailFacts DEF Submit, TypeOK, Located, Stage, AllAt
    <2>2. PICK q \in {"dropped", "submitted"} : Mark(Head(batch[k]), q)
      BY <1>4 DEF Submit
    <2>3. Rank(q) > Rank("taken")
      BY DEF Rank
    <2>4. QED
      BY <2>1, <2>2, <2>3, ForwardMoved
  <1>5. ASSUME NEW k \in Pools, Begin(k) PROVE Forward
    <2>1. Head(work[k]) \in Tasks /\ phase[Head(work[k])] = "submitted"
      BY <1>5, TailFacts DEF Begin, TypeOK, Located, Stage, AllAt
    <2>2. Rank("running") > Rank("submitted")
      BY DEF Rank
    <2>3. QED
      BY <1>5, <2>1, <2>2, ForwardMoved DEF Begin
  <1>6. ASSUME NEW k \in Pools, NEW t \in Tasks, Account(k, t) \/ Release(k, t) PROVE Forward
    <2>1. Rank("accounted") > Rank("running") /\ Rank("done") > Rank("accounted")
      BY DEF Rank
    <2>2. QED
      BY <1>6, <2>1, ForwardMoved DEF Account, Release, At
  <1>7. ASSUME UNCHANGED phase PROVE Forward
    BY <1>7 DEF Forward
  <1>8. ASSUME NEW k \in Pools, Loop(k) \/ GetTimeout(k) \/ BatchDone(k) PROVE Forward
    BY <1>7, <1>8 DEF Loop, GetTimeout, BatchDone
  <1>9. ASSUME Start \/ StopCall \/ Stop PROVE Forward
    <2>1. CASE StopCancel
      <3>1. Rank("dropped") > Rank("submitted")
        BY DEF Rank
      <3>2. QED
        BY <2>1, <3>1, CancelHead, ForwardMoved
    <2>2. CASE ~StopCancel
      BY <1>7, <1>9, <2>2 DEF Start, StopCall, Stop, StopSignal, StopClear, StopJoin, StopReturn
    <2>3. QED
      BY <2>1, <2>2
  <1>10. QED
    BY <1>1, <1>2, <1>3, <1>4, <1>5, <1>6, <1>8, <1>9 DEF Next, Enqueue, Coordinate, Work

(* No task is queued, submitted or run a second time, with any number of   *)
(* coordinators and executors started and stopped.                         *)
THEOREM QueueRunsOnce == Spec => RunsOnce
  <1>1. IInv /\ [Next]_vars => [Forward]_vars
    BY ForwardNext
  <1>2. QED
    BY <1>1, QueueInvariant, PTL DEF Spec, RunsOnce, Forward

-----------------------------------------------------------------------------
(* A pool that stop() has shut down gets no task any more, and what it had *)
(* is done before stop() returns.                                          *)
LEMMA StoppedNext ==
  ASSUME TypeOK, Located, StoppedPoolIdle, Next
  PROVE  StoppedPoolIdle'
  <1> DEFINE Waits(k) == stopper.at = "wait" /\ stopper.pool = k
  <1>s. stopper.at \in {"idle", "flush", "clear", "join", "wait"}
    BY DEF TypeOK
  <1>i. ASSUME stopper.at # "wait" PROVE \A k \in shut : PoolIdle(k)
    BY <1>i DEF StoppedPoolIdle
  <1>1. ASSUME UNCHANGED <<shut, stopper>>, \A k \in shut : PoolIdle(k) => PoolIdle(k)'
        PROVE  StoppedPoolIdle'
    BY <1>1 DEF StoppedPoolIdle
  <1>2. ASSUME UNCHANGED <<shut, stopper, work, running>> PROVE StoppedPoolIdle'
    BY <1>1, <1>2 DEF PoolIdle
  <1>3. ASSUME NEW t \in Tasks, Accept(t) \/ Enqueue(t) PROVE StoppedPoolIdle'
    BY <1>2, <1>3 DEF Accept, Enqueue, Tally, Count, Put, poolVars, stopVars
  <1>4. CASE Start
    BY <1>2, <1>4 DEF Start
  <1>5. ASSUME NEW k \in Pools, Coordinate(k) PROVE StoppedPoolIdle'
    <2>1. CASE Submit(k)
      <3>1. \A j \in shut : work'[j] = work[j]
        BY <2>1 DEF Submit, TypeOK
      <3>2. UNCHANGED <<shut, stopper, running>>
        BY <2>1 DEF Submit, stopVars
      <3> QED
        BY <1>1, <3>1, <3>2 DEF PoolIdle
    <2>2. CASE ~Submit(k)
      BY <1>2, <1>5, <2>2
         DEF Coordinate, Loop, GetFirst, GetTimeout, DrainOne, CheckExecutor, BatchDone, stopVars
    <2> QED
      BY <2>1, <2>2
  <1>6. ASSUME NEW k \in Pools, Work(k) PROVE StoppedPoolIdle'
    <2>1. UNCHANGED <<shut, stopper>>
      BY <1>6 DEF Work, Begin, Account, Release, poolVars, stopVars
    <2>2. ASSUME NEW j \in Pools, PoolIdle(j) PROVE work'[j] = <<>> /\ running'[j] = {}
      <3>1. CASE Begin(k)
        <4>1. j # k
          BY <2>2, <3>1 DEF Begin, PoolIdle
        <4> QED
          BY <2>2, <3>1, <4>1 DEF Begin, PoolIdle, TypeOK
      <3>2. ASSUME NEW t \in Tasks, Account(k, t) \/ Release(k, t)
            PROVE  work'[j] = <<>> /\ running'[j] = {}
        BY <2>2, <3>2 DEF Account, Release, PoolIdle, TypeOK, poolVars
      <3> QED
        BY <1>6, <3>1, <3>2 DEF Work
    <2>3. shut \subseteq Pools
      BY DEF TypeOK
    <2> QED
      BY <1>1, <2>1, <2>2, <2>3 DEF PoolIdle
  <1>7. ASSUME UNCHANGED <<shut, work, running>>, \A k \in shut : PoolIdle(k) \/ Waits(k)'
        PROVE  StoppedPoolIdle'
    BY <1>7 DEF StoppedPoolIdle, PoolIdle
  <1>8. CASE StopCall \/ StopSignal \/ StopClear
    BY <1>i, <1>7, <1>8 DEF StopCall, StopSignal, StopClear, poolVars
  <1>9. CASE StopJoin
    <2>1. /\ stopper.at = "join" /\ stopper'.at = "wait" /\ stopper'.pool = stopper.pool
          /\ shut' = IF stopper.pool = None THEN shut ELSE shut \cup {stopper.pool}
          /\ UNCHANGED <<work, running>>
      BY <1>9, <1>s DEF StopJoin, TypeOK
    <2>2. \A k \in shut : PoolIdle(k)
      BY <1>i, <2>1
    <2> QED
      BY <2>1, <2>2 DEF StoppedPoolIdle, PoolIdle
  <1>10. CASE StopReturn
    <2>1. /\ stopper.pool # None => PoolIdle(stopper.pool)
          /\ UNCHANGED <<shut, work, running>>
      BY <1>10 DEF StopReturn, poolVars
    <2>2. ASSUME NEW k \in shut PROVE PoolIdle(k)
      <3>1. k # None
        BY QueueAssumption DEF TypeOK, Pools, None
      <3>2. CASE Waits(k)
        BY <2>1, <3>1, <3>2
      <3>3. CASE PoolIdle(k)
        BY <3>3
      <3> QED
        BY <3>2, <3>3 DEF StoppedPoolIdle
    <2> QED
      BY <1>7, <2>1, <2>2
  <1>11. CASE StopCancel
    <2>1. PICK k \in Pools : /\ work[k] # <<>> /\ work' = [work EXCEPT ![k] = Tail(@)]
                             /\ UNCHANGED <<running, shut, stopper>>
      BY <1>11, CancelHead
    <2>2. \A j \in shut : PoolIdle(j) => PoolIdle(j)'
      BY <2>1 DEF PoolIdle, TypeOK
    <2> QED
      BY <1>1, <2>1, <2>2
  <1> QED
    BY <1>3, <1>4, <1>5, <1>6, <1>8, <1>9, <1>10, <1>11 DEF Next, Stop

(* When stop() has returned its executor runs nothing any more, however    *)
(* late a coordinator that outlived the join submits what it holds.        *)
THEOREM QueueStoppedPoolIdle == Spec => []StoppedPoolIdle
  <1>1. Init => StoppedPoolIdle
    BY DEF Init, StoppedPoolIdle
  <1>2. IInv /\ StoppedPoolIdle /\ [Next]_vars => StoppedPoolIdle'
    <2>1. ASSUME StoppedPoolIdle, UNCHANGED vars PROVE StoppedPoolIdle'
      BY <2>1 DEF vars, poolVars, stopVars, StoppedPoolIdle, PoolIdle
    <2> QED
      BY <2>1, StoppedNext DEF IInv
  <1> QED
    BY <1>1, <1>2, QueueInvariant, PTL DEF Spec

-----------------------------------------------------------------------------
(* The task pool: what the executor, the batch and the queue hold is one   *)
(* line of tasks.                                                          *)

(* A task that goes from the head of one part to the end of the part ahead *)
(* of it keeps its place in the line.                                      *)
LEMMA HandedOn ==
  ASSUME NEW S, NEW s \in Seq(S), NEW u \in Seq(S), u # <<>>
  PROVE  Append(s, Head(u)) \o Tail(u) = s \o u
<1>1. /\ Head(u) \in S /\ Tail(u) \in Seq(S) /\ Len(Tail(u)) = Len(u) - 1
      /\ \A i \in 1..Len(Tail(u)) : Tail(u)[i] = u[i + 1]
  BY HeadTailProperties
<1>2. /\ Append(s, Head(u)) \in Seq(S) /\ Len(Append(s, Head(u))) = Len(s) + 1
      /\ \A i \in 1..Len(s) : Append(s, Head(u))[i] = s[i]
      /\ Append(s, Head(u))[Len(s) + 1] = Head(u)
  BY <1>1, AppendProperties
<1>3. Len(s) \in Nat /\ Len(u) \in Nat /\ Len(u) >= 1 /\ Head(u) = u[1]
  BY LenProperties, EmptySeq
<1> DEFINE a == Append(s, Head(u))
           t == Tail(u)
<1>4. /\ a \o t \in Seq(S) /\ Len(a \o t) = Len(a) + Len(t)
      /\ \A i \in 1..(Len(a) + Len(t)) : (a \o t)[i] = IF i <= Len(a) THEN a[i] ELSE t[i - Len(a)]
  BY <1>1, <1>2, ConcatProperties
<1>5. /\ s \o u \in Seq(S) /\ Len(s \o u) = Len(s) + Len(u)
      /\ \A i \in 1..(Len(s) + Len(u)) : (s \o u)[i] = IF i <= Len(s) THEN s[i] ELSE u[i - Len(s)]
  BY ConcatProperties
<1> HIDE DEF a, t
<1>6. Len(a) = Len(s) + 1 /\ Len(t) = Len(u) - 1
  BY <1>1, <1>2 DEF a, t
<1>7. ASSUME NEW i \in 1..Len(s \o u) PROVE (a \o t)[i] = (s \o u)[i]
  <2>1. CASE i <= Len(s)
    BY <1>2, <1>3, <1>4, <1>5, <1>6, <1>7, <2>1 DEF a
  <2>2. CASE i = Len(s) + 1
    BY <1>2, <1>3, <1>4, <1>5, <1>6, <1>7, <2>2 DEF a
  <2>3. CASE i > Len(s) + 1
    <3>1. i - Len(a) \in 1..Len(t) /\ (i - Len(a)) + 1 = i - Len(s)
      BY <1>3, <1>5, <1>6, <1>7, <2>3
    <3>2. t[i - Len(a)] = u[i - Len(s)]
      BY <1>1, <3>1 DEF t
    <3> QED
      BY <1>3, <1>4, <1>5, <1>6, <1>7, <2>3, <3>2
  <2>4. i \in Nat
    BY <1>3, <1>5, <1>7
  <2>5. i <= Len(s) \/ i = Len(s) + 1 \/ i > Len(s) + 1
    BY <1>3, <2>4
  <2> QED
    BY <2>1, <2>2, <2>3, <2>5
<1>8. Len(a \o t) = Len(s \o u)
  BY <1>3, <1>4, <1>5, <1>6
<1>9. a \o t = s \o u
  BY <1>4, <1>5, <1>7, <1>8, SeqEqual
<1> QED
  BY <1>9 DEF a, t

(* The first of the line is the first of its first part.                   *)
LEMMA HeadTailConcat ==
  ASSUME NEW S, NEW s \in Seq(S), NEW u \in Seq(S), s # <<>>
  PROVE  s \o u # <<>> /\ Head(s \o u) = Head(s) /\ Tail(s \o u) = Tail(s) \o u
<1> DEFINE h == Head(s)
           t == Tail(s)
<1>1. h \in S /\ t \in Seq(S) /\ <<>> \in Seq(S) /\ <<h>> \in Seq(S) /\ t \o u \in Seq(S)
  BY HeadTailProperties, ConcatProperties
<1>2. <<h>> \o t = s
  <2>1. Append(<<>>, h) \o t = <<>> \o s
    BY <1>1, HandedOn
  <2> QED
    BY <2>1, ConcatEmptySeq
<1>3. s \o u = <<h>> \o (t \o u)
  BY <1>1, <1>2, ConcatAssociative
<1> HIDE DEF h, t
<1>4. /\ <<h>> \o (t \o u) # <<>> /\ Head(<<h>> \o (t \o u)) = h
      /\ Tail(<<h>> \o (t \o u)) = t \o u
  BY <1>1
<1> QED
  BY <1>3, <1>4 DEF h, t

(* Who joins the second part joins the whole.                              *)
Joins(s, u, x) == s \o Append(u, x) = Append(s \o u, x)

LEMMA AppendJoins ==
  ASSUME NEW S, NEW s \in Seq(S), NEW u \in Seq(S), NEW x \in S
  PROVE  Joins(s, u, x)
<1>1. <<x>> \in Seq(S) /\ s \o u \in Seq(S)
  BY ConcatProperties
<1>2. Append(u, x) = u \o <<x>> /\ Append(s \o u, x) = (s \o u) \o <<x>>
  BY <1>1, AppendIsConcat
<1>3. (s \o u) \o <<x>> = s \o (u \o <<x>>)
  BY <1>1, ConcatAssociative
<1> QED
  BY <1>2, <1>3 DEF Joins

(* The parts of a line of three, however they are put together.            *)
Grouped(s, u, v) == (s \o u) \o v = s \o (u \o v)

LEMMA Grouping ==
  ASSUME NEW S, NEW s \in Seq(S), NEW u \in Seq(S), NEW v \in Seq(S)
  PROVE  Grouped(s, u, v)
BY ConcatAssociative DEF Grouped

(* The line without the part x.                                            *)
Cut(from, to) ==
  \E i, j \in 0..Len(from) :
    i <= j /\ to = SubSeq(from, 1, i) \o SubSeq(from, j + 1, Len(from))

LEMMA CutOut ==
  ASSUME NEW S, NEW s \in Seq(S), NEW x \in Seq(S), NEW t \in Seq(S)
  PROVE  Cut(s \o (x \o t), s \o t)
<1> DEFINE all == s \o (x \o t)
           i == Len(s)
           j == Len(s) + Len(x)
<1>1. Len(s) \in Nat /\ Len(x) \in Nat /\ Len(t) \in Nat
  BY LenProperties
<1>2. /\ x \o t \in Seq(S) /\ Len(x \o t) = Len(x) + Len(t)
      /\ \A k \in 1..(Len(x) + Len(t)) : (x \o t)[k] = IF k <= Len(x) THEN x[k] ELSE t[k - Len(x)]
  BY ConcatProperties
<1>3. /\ all \in Seq(S) /\ Len(all) = Len(s) + Len(x \o t)
      /\ \A k \in 1..(Len(s) + Len(x \o t)) :
           all[k] = IF k <= Len(s) THEN s[k] ELSE (x \o t)[k - Len(s)]
  BY <1>2, ConcatProperties
<1> HIDE DEF all
<1>4. Len(all) = Len(s) + Len(x) + Len(t) /\ i \in 0..Len(all) /\ j \in 0..Len(all) /\ i <= j
  BY <1>1, <1>2, <1>3
<1>5. \A k \in 1..Len(all) : all[k] \in S
  BY <1>3, ElementOfSeq
<1>6. /\ SubSeq(all, 1, i) \in Seq(S)
      /\ Len(SubSeq(all, 1, i)) = IF 1 <= i THEN i - 1 + 1 ELSE 0
      /\ \A k \in 1..(i - 1 + 1) : SubSeq(all, 1, i)[k] = all[1 + k - 1]
  <2>1. 1 \in Int /\ i \in Int /\ \A k \in 1..i : all[k] \in S
    BY <1>1, <1>4, <1>5
  <2> HIDE DEF i
  <2> QED
    BY <2>1, SubSeqProperties
<1>7. SubSeq(all, 1, i) = s
  <2>1. Len(SubSeq(all, 1, i)) = Len(s)
    BY <1>1, <1>6
  <2>2. \A k \in 1..Len(s) : SubSeq(all, 1, i)[k] = s[k]
    BY <1>1, <1>2, <1>3, <1>6
  <2> QED
    BY <1>6, <2>1, <2>2, SeqEqual
<1>8. /\ SubSeq(all, j + 1, Len(all)) \in Seq(S)
      /\ Len(SubSeq(all, j + 1, Len(all))) = IF j + 1 <= Len(all) THEN Len(all) - (j + 1) + 1 ELSE 0
      /\ \A k \in 1..(Len(all) - (j + 1) + 1) :
           SubSeq(all, j + 1, Len(all))[k] = all[(j + 1) + k - 1]
  <2>1. j + 1 \in Int /\ Len(all) \in Int /\ \A k \in (j + 1)..Len(all) : all[k] \in S
    BY <1>1, <1>4, <1>5
  <2> HIDE DEF j
  <2> QED
    BY <2>1, SubSeqProperties
<1>9. SubSeq(all, j + 1, Len(all)) = t
  <2>1. Len(SubSeq(all, j + 1, Len(all))) = Len(t)
    BY <1>1, <1>4, <1>8
  <2>2. ASSUME NEW k \in 1..Len(t) PROVE SubSeq(all, j + 1, Len(all))[k] = t[k]
    <3>1. k \in 1..(Len(all) - (j + 1) + 1)
      BY <1>1, <1>4, <2>2
    <3>2. SubSeq(all, j + 1, Len(all))[k] = all[(j + 1) + k - 1]
      BY <1>8, <3>1
    <3>3. (j + 1) + k - 1 = j + k /\ j + k \in 1..(Len(s) + Len(x \o t)) /\ ~(j + k <= Len(s))
          /\ (j + k) - Len(s) = Len(x) + k /\ Len(x) + k \in 1..(Len(x) + Len(t))
          /\ ~(Len(x) + k <= Len(x)) /\ (Len(x) + k) - Len(x) = k
      BY <1>1, <1>2, <2>2
    <3>4. all[j + k] = (x \o t)[Len(x) + k]
      BY <1>3, <3>3
    <3>5. (x \o t)[Len(x) + k] = t[k]
      BY <1>2, <3>3
    <3> QED
      BY <3>2, <3>3, <3>4, <3>5
  <2> QED
    BY <1>8, <2>1, <2>2, SeqEqual
<1> QED
  BY <1>4, <1>7, <1>9 DEF all, Cut


(* A pool that nothing was started for holds nothing, a coordinator holds  *)
(* a batch only while it fills or submits it, and the pool that enqueue    *)
(* uses is none that stop() took.                                          *)
Unstarted(k) == coord[k] = "none"

PoolInv ==
  /\ \A k \in Pools : Unstarted(k) => work[k] = <<>> /\ running[k] = {}
  /\ \A k \in Pools : coord[k] \notin {"drain", "submit"} => batch[k] = <<>>
  /\ current # None => ~Unstarted(current) /\ current \notin shut /\ stopper.pool # current
  /\ \A k \in shut : ~Unstarted(k)
  /\ stopper.pool # None => ~Unstarted(stopper.pool)
  /\ stopper.at \in {"idle", "flush", "clear"} => stopper.pool = None

LEMMA PoolInvInit == Init => PoolInv
BY DEF Init, AtRest, PoolInv, Unstarted, None

LEMMA PoolInvNext ==
  ASSUME TypeOK, Located, PoolInv, [Next]_vars
  PROVE  PoolInv'
<1> USE DEF Unstarted
<1>t. /\ coord \in [Pools -> {"none", "top", "get", "drain", "submit", "exited"}]
      /\ batch \in [Pools -> Seq(Tasks)] /\ work \in [Pools -> Seq(Tasks)]
      /\ running \in [Pools -> SUBSET Tasks] /\ current \in Pools \cup {None} /\ shut \subseteq Pools
      /\ stopper.pool \in Pools \cup {None} /\ None \notin Pools
  BY QueueAssumption DEF TypeOK, Pools, None
<1>1. ASSUME UNCHANGED <<batch, work, running, current, shut, stopper, coord>> PROVE PoolInv'
  BY <1>1 DEF PoolInv
<1>2. ASSUME NEW t \in Tasks, Accept(t) \/ Enqueue(t) PROVE PoolInv'
  BY <1>1, <1>2 DEF Accept, Enqueue, Tally, Count, Put, poolVars, stopVars
<1>3. CASE Start
  <2>1. PICK k \in Pools : coord[k] = "none" /\ current' = k /\ coord' = [coord EXCEPT ![k] = "top"]
    BY <1>3 DEF Start
  <2>2. UNCHANGED <<batch, work, running, shut, stopper>>
    BY <1>3 DEF Start
  <2>3. k \notin shut /\ stopper.pool # k /\ batch[k] = <<>>
    BY <2>1, <1>t DEF PoolInv
  <2>4. coord'[k] = "top" /\ \A j \in Pools : j # k => coord'[j] = coord[j]
    BY <2>1, <1>t
  <2> QED
    BY <1>t, <2>1, <2>2, <2>3, <2>4 DEF PoolInv
<1>4. ASSUME NEW k \in Pools, coord[k] # "none", coord'[k] # "none",
             \A j \in Pools : j # k => coord'[j] = coord[j] /\ batch'[j] = batch[j],
             coord'[k] \notin {"drain", "submit"} => batch'[k] = <<>>,
             UNCHANGED <<running, current, shut, stopper>>,
             \A j \in Pools : j # current => work'[j] = work[j]
      PROVE  PoolInv'
  <2>1. \A j \in Pools : coord'[j] = "none" <=> coord[j] = "none"
    BY <1>4
  <2>2. \A j \in Pools : coord[j] = "none" => work'[j] = <<>>
    BY <1>4, <1>t DEF PoolInv
  <2>3. \A j \in Pools : coord'[j] \notin {"drain", "submit"} => batch'[j] = <<>>
    BY <1>4 DEF PoolInv
  <2> QED
    BY <1>4, <1>t, <2>1, <2>2, <2>3 DEF PoolInv
<1>5. ASSUME NEW k \in Pools, Coordinate(k) PROVE PoolInv'
  <2>1. CASE Loop(k) \/ GetTimeout(k) \/ BatchDone(k)
    BY <1>4, <1>t, <2>1 DEF Loop, GetTimeout, BatchDone, PoolInv, stopVars
  <2>2. CASE GetFirst(k) \/ DrainOne(k)
    BY <1>4, <1>t, <2>2 DEF GetFirst, DrainOne, stopVars
  <2>3. CASE CheckExecutor(k)
    BY <1>4, <1>t, <2>3 DEF CheckExecutor, stopVars
  <2>4. CASE Submit(k)
    <3>1. coord[k] = "submit" /\ UNCHANGED <<running, current, coord, shut, stopper>>
          /\ batch' = [batch EXCEPT ![k] = Tail(@)]
      BY <2>4 DEF Submit, stopVars
    <3>2. \A j \in Pools : j # current => work'[j] = work[j]
      BY <2>4, <1>t DEF Submit
    <3> QED
      BY <1>4, <1>t, <3>1, <3>2
  <2> QED
    BY <1>5, <2>1, <2>2, <2>3, <2>4 DEF Coordinate
<1>6. ASSUME NEW k \in Pools, Work(k) PROVE PoolInv'
  <2>1. UNCHANGED <<batch, current, shut, stopper, coord>>
    BY <1>6 DEF Work, Begin, Account, Release, poolVars, stopVars
  <2>2. \A j \in Pools : work[j] = <<>> /\ running[j] = {} => work'[j] = <<>> /\ running'[j] = {}
    <3>1. CASE Begin(k)
      BY <1>t, <3>1 DEF Begin
    <3>2. ASSUME NEW t \in Tasks, Account(k, t) \/ Release(k, t)
          PROVE  \A j \in Pools : work[j] = <<>> /\ running[j] = {} =>
                                    work'[j] = <<>> /\ running'[j] = {}
      BY <1>t, <3>2 DEF Account, Release, poolVars
    <3> QED
      BY <1>6, <3>1, <3>2 DEF Work
  <2> QED
    BY <2>1, <2>2 DEF PoolInv
<1>7. CASE StopCall \/ StopSignal
  <2>1. /\ UNCHANGED <<batch, work, running, current, shut, coord>>
        /\ stopper.at \in {"idle", "flush"} /\ stopper'.pool = stopper.pool
    BY <1>7 DEF StopCall, StopSignal, poolVars, TypeOK
  <2> QED
    BY <2>1 DEF PoolInv
<1>8. CASE StopClear
  <2>1. /\ UNCHANGED <<batch, work, running, shut, coord>> /\ current' = None
        /\ stopper'.at = "join" /\ stopper'.pool = current
    BY <1>8 DEF StopClear, TypeOK
  <2> QED
    BY <2>1, <1>t DEF PoolInv
<1>9. CASE StopJoin
  <2>1. /\ UNCHANGED <<batch, work, running, coord, current>>
        /\ stopper'.pool = stopper.pool /\ stopper'.at = "wait"
        /\ shut' = IF stopper.pool = None THEN shut ELSE shut \cup {stopper.pool}
    BY <1>9 DEF StopJoin, TypeOK
  <2> QED
    BY <2>1, <1>t DEF PoolInv
<1>10. CASE StopReturn
  <2>1. /\ UNCHANGED <<batch, work, running, coord, current, shut>>
        /\ stopper'.at = "idle" /\ stopper'.pool = None
    BY <1>10 DEF StopReturn, AtRest, poolVars
  <2> QED
    BY <2>1, <1>t DEF PoolInv
<1>11. CASE StopCancel
  <2>1. PICK k \in Pools :
          /\ work[k] # <<>> /\ work' = [work EXCEPT ![k] = Tail(@)]
          /\ UNCHANGED <<batch, running, current, shut, stopper, coord>>
    BY <1>11, CancelHead
  <2>2. \A j \in Pools : work[j] = <<>> => work'[j] = <<>>
    BY <1>t, <2>1
  <2> QED
    BY <2>1, <2>2 DEF PoolInv
<1>12. CASE UNCHANGED vars
  BY <1>1, <1>12 DEF vars, poolVars, stopVars
<1> QED
  BY <1>2, <1>3, <1>5, <1>6, <1>7, <1>8, <1>9, <1>10, <1>11, <1>12 DEF Next, Stop


(* The tasks that were put on the queue.                                   *)
PutTasks == {t \in Tasks : phase[t] \in InFlight \cup {"done", "dropped"}}

LEMMA PutTasksStay ==
  ASSUME TypeOK, NEW t \in Tasks, NEW q, Mark(t, q),
         phase[t] \in InFlight \cup {"done", "dropped"} <=> q \in InFlight \cup {"done", "dropped"}
  PROVE  PutTasks' = PutTasks
<1>1. \A u \in Tasks : phase'[u] = IF u = t THEN q ELSE phase[u]
  BY DEF Mark, TypeOK
<1> QED
  BY <1>1 DEF PutTasks

(* The line of tasks.                                                      *)
Line == work[1] \o (batch[1] \o queue)

LEMMA LineTypes ==
  ASSUME TypeOK
  PROVE  /\ 1 \in Pools /\ 1 # None /\ None \notin Pools
         /\ work[1] \in Seq(Tasks) /\ batch[1] \in Seq(Tasks) /\ queue \in Seq(Tasks)
         /\ batch[1] \o queue \in Seq(Tasks) /\ Line \in Seq(Tasks)
<1>1. 1 \in Pools /\ 1 # None /\ None \notin Pools
  BY QueueAssumption DEF QueueAssumption, Pools, None
<1>2. work[1] \in Seq(Tasks) /\ batch[1] \in Seq(Tasks) /\ queue \in Seq(Tasks)
  BY <1>1 DEF TypeOK
<1>3. batch[1] \o queue \in Seq(Tasks)
  BY <1>2, ConcatProperties
<1> QED
  BY <1>1, <1>2, <1>3, ConcatProperties DEF Line

(* A step that changes no part of the pool stutters.                       *)
LEMMA PoolStutters ==
  ASSUME UNCHANGED <<queue, batch, work, running, current>>, PutTasks' = PutTasks
  PROVE  UNCHANGED OnePool!vars
BY DEF OnePool!vars, PutTasks

LEMMA PoolPut ==
  ASSUME TypeOK, NEW t \in Tasks, Put(t)
  PROVE  OnePool!Put(t)
<1>1. /\ phase[t] = "counted" /\ queue' = Append(queue, t)
      /\ \A u \in Tasks : phase'[u] = IF u = t THEN "queued" ELSE phase[u]
      /\ UNCHANGED <<batch, work, running, current>>
  BY DEF Put, At, Mark, TypeOK, poolVars
<1>2. t \notin PutTasks /\ PutTasks' = PutTasks \cup {t}
  BY <1>1 DEF PutTasks, InFlight
<1>0. /\ work[1] \in Seq(Tasks) /\ batch[1] \in Seq(Tasks) /\ queue \in Seq(Tasks)
      /\ batch[1] \o queue \in Seq(Tasks)
  BY LineTypes
<1>3. batch[1] \o Append(queue, t) = Append(batch[1] \o queue, t)
  <2>1. Joins(batch[1], queue, t)
    BY <1>0, AppendJoins
  <2> QED
    BY <2>1 DEF Joins
<1>4. work[1] \o Append(batch[1] \o queue, t) = Append(Line, t)
  <2>1. Joins(work[1], batch[1] \o queue, t)
    BY <1>0, AppendJoins
  <2> QED
    BY <2>1 DEF Joins, Line
<1>5. Line' = Append(Line, t)
  BY <1>1, <1>3, <1>4 DEF Line
<1> QED
  BY <1>1, <1>2, <1>5 DEF OnePool!Put, PutTasks, Line

(* Only the first pool's threads take steps while it is alone.             *)
LEMMA AlonePools ==
  ASSUME TypeOK, PoolInv, Alone', NEW k \in Pools, Coordinate(k) \/ Begin(k)
  PROVE  k = 1
<1>1. coord[k] # "none"
  <2>1. CASE Coordinate(k)
    BY <2>1 DEF Coordinate, Loop, GetFirst, GetTimeout, DrainOne, CheckExecutor, Submit, BatchDone
  <2>2. CASE Begin(k)
    BY <2>2 DEF Begin, PoolInv, Unstarted
  <2> QED
    BY <2>1, <2>2
<1>2. coord'[k] # "none"
  BY <1>1 DEF TypeOK, Coordinate, Begin, Loop, GetFirst, GetTimeout, DrainOne, CheckExecutor, Submit,
              BatchDone
<1> QED
  BY <1>2 DEF Alone

(* The head of the queue joins the batch.                                  *)
LEMMA PoolTakes ==
  ASSUME IInv, PoolInv, GetFirst(1) \/ DrainOne(1)
  PROVE  UNCHANGED OnePool!vars
<1>1. TypeOK /\ queue # <<>> /\ queue' = Tail(queue) /\ UNCHANGED <<work, running, current>>
      /\ Mark(Head(queue), "taken")
  BY DEF IInv, GetFirst, DrainOne
<1>2. batch'[1] = Append(batch[1], Head(queue))
  <2>1. CASE GetFirst(1)
    <3>1. batch[1] = <<>> /\ batch'[1] = <<Head(queue)>>
      BY <1>1, <2>1, LineTypes DEF GetFirst, PoolInv, TypeOK
    <3> QED
      BY <3>1
  <2>2. CASE DrainOne(1)
    BY <1>1, <2>2, LineTypes DEF DrainOne, TypeOK
  <2> QED
    BY <2>1, <2>2
<1>3. batch'[1] \o queue' = batch[1] \o queue
  BY <1>1, <1>2, LineTypes, HandedOn
<1>4. Head(queue) \in Tasks /\ phase[Head(queue)] = "queued"
  BY <1>1, TailFacts DEF TypeOK, IInv, Located, AllAt
<1>5. PutTasks' = PutTasks
  BY <1>1, <1>4, PutTasksStay DEF InFlight
<1> QED
  BY <1>1, <1>3, <1>5 DEF OnePool!vars, PutTasks

(* Without an executor the part of the line in the batch is dropped.       *)
LEMMA PoolChecks ==
  ASSUME IInv, PoolInv, CheckExecutor(1)
  PROVE  OnePool!Drop \/ UNCHANGED OnePool!vars
<1>1. TypeOK /\ UNCHANGED <<queue, work, running, current>>
  BY DEF IInv, CheckExecutor
<1>2. \A t \in Tasks : phase'[t] = phase[t] \/ (phase[t] = "taken" /\ phase'[t] = "dropped")
  BY <1>1, LineTypes, CheckMoves DEF IInv
<1>3. PutTasks' = PutTasks
  BY <1>2 DEF PutTasks, InFlight
<1>4. CASE current # None
  <2>1. UNCHANGED batch
    BY <1>4 DEF CheckExecutor
  <2> QED
    BY <1>1, <1>3, <2>1, PoolStutters
<1>5. CASE current = None
  <2>1. batch'[1] = <<>>
    BY <1>1, <1>5, LineTypes DEF CheckExecutor, TypeOK
  <2>2. <<>> \o queue = queue
    BY <1>1, LineTypes, ConcatEmptySeq
  <2>0. Line = work[1] \o (batch[1] \o queue)
    BY DEF Line
  <2>t. work[1] \in Seq(Tasks) /\ batch[1] \in Seq(Tasks) /\ queue \in Seq(Tasks)
    BY <1>1, LineTypes
  <2>3. Line' = work[1] \o queue
    BY <1>1, <2>1, <2>2 DEF Line
  <2>4. Cut(Line, work[1] \o queue)
    <3>1. Cut(work[1] \o (batch[1] \o queue), work[1] \o queue)
      BY <2>t, CutOut
    <3> QED
      BY <2>0, <3>1
  <2> QED
    BY <1>1, <1>3, <1>5, <2>3, <2>4 DEF OnePool!Drop, PutTasks, Line, Cut
<1> QED
  BY <1>4, <1>5

(* The head of the batch goes to the executor, or is dropped without one.  *)
LEMMA PoolSubmits ==
  ASSUME IInv, PoolInv, Alone, Submit(1)
  PROVE  OnePool!Drop \/ UNCHANGED OnePool!vars
<1>1. /\ TypeOK /\ batch[1] # <<>> /\ batch'[1] = Tail(batch[1])
      /\ UNCHANGED <<queue, running, current>>
  BY LineTypes DEF IInv, TypeOK, Submit
<1>2. Head(batch[1]) \in Tasks /\ Tail(batch[1]) \in Seq(Tasks) /\ phase[Head(batch[1])] = "taken"
  BY <1>1, LineTypes, TailFacts DEF IInv, Located, Stage, AllAt
<1>3. PICK q \in {"dropped", "submitted"} : Mark(Head(batch[1]), q)
  BY DEF Submit
<1>4. PutTasks' = PutTasks
  BY <1>1, <1>2, <1>3, PutTasksStay DEF InFlight
<1>5. CASE current = None
  <2> DEFINE x == <<Head(batch[1])>>
             rest == Tail(batch[1]) \o queue
  <2>1. UNCHANGED work
    BY <1>5 DEF Submit
  <2>2. x \in Seq(Tasks) /\ rest \in Seq(Tasks)
    BY <1>1, <1>2, LineTypes, ConcatProperties
  <2>3. x \o Tail(batch[1]) = batch[1]
    <3>1. Append(<<>>, Head(batch[1])) = x /\ <<>> \in Seq(Tasks)
      OBVIOUS
    <3>2. Append(<<>>, Head(batch[1])) \o Tail(batch[1]) = <<>> \o batch[1]
      BY <1>1, <3>1, LineTypes, HandedOn
    <3> QED
      BY <1>1, <3>1, <3>2, LineTypes, ConcatEmptySeq
  <2>4. x \o rest = batch[1] \o queue
    <3>0. queue \in Seq(Tasks)
      BY <1>1, LineTypes
    <3>1. Grouped(x, Tail(batch[1]), queue)
      BY <1>2, <2>2, <3>0, Grouping
    <3> QED
      BY <2>3, <3>1 DEF Grouped
  <2>5. Line' = work[1] \o rest /\ Line = work[1] \o (x \o rest)
    BY <1>1, <2>1, <2>4 DEF Line
  <2> HIDE DEF x, rest
  <2>6. Cut(Line, Line')
    <3>0. work[1] \in Seq(Tasks)
      BY <1>1, LineTypes
    <3>1. Cut(work[1] \o (x \o rest), work[1] \o rest)
      BY <2>2, <3>0, CutOut
    <3> QED
      BY <2>5, <3>1
  <2> QED
    BY <1>1, <1>4, <1>5, <2>6 DEF OnePool!Drop, PutTasks, Line, Cut
<1>6. CASE current # None
  <2>1. current = 1 /\ current \notin shut
    BY <1>1, <1>6 DEF TypeOK, PoolInv, Unstarted, Alone
  <2>2. work'[1] = Append(work[1], Head(batch[1]))
    BY <1>1, <1>6, <2>1, LineTypes DEF Submit, TypeOK
  <2> DEFINE u == batch[1] \o queue
             h == Head(batch[1])
             rest == Tail(batch[1]) \o queue
  <2>3. <<h>> \in Seq(Tasks) /\ rest \in Seq(Tasks)
    BY <1>1, <1>2, LineTypes, ConcatProperties
  <2>4. <<h>> \o rest = u
    <3>1. Append(<<>>, h) = <<h>> /\ <<>> \in Seq(Tasks)
      OBVIOUS
    <3>2. Append(<<>>, h) \o Tail(batch[1]) = <<>> \o batch[1]
      BY <1>1, LineTypes, HandedOn
    <3>3. <<h>> \o Tail(batch[1]) = batch[1]
      BY <1>1, <3>1, <3>2, LineTypes, ConcatEmptySeq
    <3>0. queue \in Seq(Tasks)
      BY <1>1, LineTypes
    <3>4. Grouped(<<h>>, Tail(batch[1]), queue)
      BY <1>2, <2>3, <3>0, Grouping
    <3> QED
      BY <3>3, <3>4 DEF Grouped
  <2>5. Append(work[1], h) \o rest = work[1] \o u
    <3>1. Append(work[1], h) = work[1] \o <<h>>
      BY <1>1, <1>2, LineTypes, AppendIsConcat
    <3>0. work[1] \in Seq(Tasks)
      BY <1>1, LineTypes
    <3>2. Grouped(work[1], <<h>>, rest)
      BY <2>3, <3>0, Grouping
    <3> QED
      BY <2>4, <3>1, <3>2 DEF Grouped
  <2>6. Line' = Line
    BY <1>1, <2>2, <2>5 DEF Line
  <2> QED
    BY <1>1, <1>4, <2>6 DEF OnePool!vars, PutTasks, Line
<1> QED
  BY <1>5, <1>6

(* The head of the line begins.                                            *)
LEMMA PoolBegins ==
  ASSUME IInv, Begin(1)
  PROVE  OnePool!Begin
<1>1. /\ TypeOK /\ work[1] # <<>> /\ work'[1] = Tail(work[1])
      /\ running'[1] = running[1] \cup {Head(work[1])} /\ Cardinality(running[1]) < Workers
      /\ UNCHANGED <<queue, batch, current>> /\ Mark(Head(work[1]), "running")
  BY LineTypes DEF IInv, TypeOK, Begin
<1>2. Head(work[1]) \in Tasks /\ Tail(work[1]) \in Seq(Tasks) /\ phase[Head(work[1])] = "submitted"
  BY <1>1, LineTypes, TailFacts DEF IInv, Located, Stage, AllAt
<1>3. PutTasks' = PutTasks
  BY <1>1, <1>2, PutTasksStay DEF InFlight
<1> DEFINE u == batch[1] \o queue
<1>4. Line # <<>> /\ Head(Line) = Head(work[1]) /\ Tail(Line) = Tail(work[1]) \o u
  <2>1. work[1] \in Seq(Tasks) /\ u \in Seq(Tasks)
    BY <1>1, LineTypes
  <2> HIDE DEF u
  <2>2. work[1] \o u # <<>> /\ Head(work[1] \o u) = Head(work[1])
        /\ Tail(work[1] \o u) = Tail(work[1]) \o u
    BY <1>1, <2>1, HeadTailConcat
  <2> QED
    BY <2>2 DEF Line, u
<1>5. Line' = Tail(Line)
  BY <1>1, <1>4 DEF Line
<1>6. OnePool!Cardinality(running[1]) = Cardinality(running[1])
  BY DEF OnePool!Cardinality, Cardinality
<1> QED
  BY <1>1, <1>3, <1>4, <1>5, <1>6 DEF OnePool!Begin, PutTasks, Line

LEMMA PoolEnds ==
  ASSUME IInv, NEW t \in Tasks, Release(1, t)
  PROVE  OnePool!End(t)
<1>1. /\ TypeOK /\ t \in running[1] /\ running'[1] = running[1] \ {t} /\ phase[t] = "accounted"
      /\ UNCHANGED <<queue, batch, work, current>> /\ Mark(t, "done")
  BY LineTypes DEF IInv, TypeOK, Release, At
<1>2. PutTasks' = PutTasks
  BY <1>1, PutTasksStay DEF InFlight
<1> QED
  BY <1>1, <1>2 DEF OnePool!End, PutTasks

(* A start while no other pool was made is the first one.                  *)
LEMMA PoolStarts ==
  ASSUME IInv, PoolInv, Alone', Start
  PROVE  OnePool!Toggle
<1>1. PICK k \in Pools : coord[k] = "none" /\ current' = k /\ coord' = [coord EXCEPT ![k] = "top"]
  BY DEF Start
<1>2. TypeOK /\ UNCHANGED <<phase, queue, batch, work, running>>
  BY DEF IInv, Start
<1>3. /\ coord'[k] = "top" /\ \A j \in Pools : j # k => coord'[j] = coord[j]
  BY <1>1, <1>2 DEF TypeOK
<1>4. k = 1
  BY <1>3 DEF Alone
<1>5. current = None
  BY <1>1, <1>2, <1>3, <1>4 DEF Alone, PoolInv, Unstarted, TypeOK
<1>6. current' # None /\ PutTasks' = PutTasks
  BY <1>1, <1>2, LineTypes DEF PutTasks
<1> QED
  BY <1>2, <1>5, <1>6 DEF OnePool!Toggle, PutTasks

LEMMA PoolCloses ==
  ASSUME IInv, StopClear
  PROVE  OnePool!Toggle \/ UNCHANGED OnePool!vars
<1>1. /\ current' = None /\ UNCHANGED <<phase, queue, batch, work, running>>
  BY DEF StopClear
<1>2. PutTasks' = PutTasks
  BY <1>1 DEF PutTasks
<1>3. CASE current = None
  BY <1>1, <1>2, <1>3, PoolStutters
<1>4. CASE current # None
  BY <1>1, <1>2, <1>4 DEF OnePool!Toggle, PutTasks
<1> QED
  BY <1>3, <1>4

(* What stop() takes from the executor is dropped: the pool is closed.     *)
LEMMA PoolCancels ==
  ASSUME IInv, PoolInv, Alone', StopCancel
  PROVE  OnePool!Drop
<1>1. PICK k \in Pools :
        /\ k = stopper.pool /\ work[k] # <<>> /\ work' = [work EXCEPT ![k] = Tail(@)]
        /\ Head(work[k]) \in Tasks /\ phase[Head(work[k])] = "submitted"
        /\ Mark(Head(work[k]), "dropped")
        /\ UNCHANGED <<queue, batch, running, current, coord>>
  BY CancelHead DEF IInv
<1>2. TypeOK /\ Alone /\ k = 1
  BY <1>1 DEF IInv, Alone, PoolInv, Unstarted
<1>3. current = None
  BY <1>1, <1>2 DEF Alone, PoolInv, Unstarted, TypeOK
<1>4. PutTasks' = PutTasks
  BY <1>1, <1>2, PutTasksStay DEF InFlight
<1> DEFINE x == <<Head(work[1])>>
           w == Tail(work[1])
           rest == batch[1] \o queue
<1>5. work'[1] = w /\ w \in Seq(Tasks) /\ rest \in Seq(Tasks) /\ x \in Seq(Tasks)
  <2>1. work[1] \in Seq(Tasks) /\ 1 \in Pools /\ rest \in Seq(Tasks) /\ work \in [Pools -> Seq(Tasks)]
    BY <1>2, LineTypes DEF TypeOK
  <2>2. w \in Seq(Tasks)
    BY <1>1, <1>2, <2>1, TailFacts
  <2>3. work'[1] = w
    BY <1>1, <1>2, <2>1
  <2>4. x \in Seq(Tasks)
    BY <1>1, <1>2
  <2> QED
    BY <2>1, <2>2, <2>3, <2>4
<1>6. x \o w = work[1]
  <2>1. Append(<<>>, Head(work[1])) = x /\ <<>> \in Seq(Tasks)
    OBVIOUS
  <2>2. Append(<<>>, Head(work[1])) \o Tail(work[1]) = <<>> \o work[1]
    BY <1>1, <1>2, <2>1, LineTypes, HandedOn
  <2> QED
    BY <1>2, <2>1, <2>2, LineTypes, ConcatEmptySeq
<1>7. Line = work[1] \o rest /\ Line' = w \o rest
  BY <1>1, <1>5 DEF Line
<1> HIDE DEF x, w, rest
<1>8. w \o rest \in Seq(Tasks) /\ <<>> \in Seq(Tasks)
  BY <1>5, ConcatProperties
<1>9. Line = x \o (w \o rest)
  <2>1. Grouped(x, w, rest)
    BY <1>5, Grouping
  <2> QED
    BY <1>6, <1>7, <2>1 DEF Grouped
<1>10. Cut(Line, Line')
  <2>1. Cut(<<>> \o (x \o (w \o rest)), <<>> \o (w \o rest))
    BY <1>5, <1>8, CutOut
  <2>2. x \o (w \o rest) \in Seq(Tasks)
    BY <1>5, <1>8, ConcatProperties
  <2> QED
    BY <1>7, <1>8, <1>9, <2>1, <2>2, ConcatEmptySeq
<1> QED
  BY <1>1, <1>2, <1>3, <1>4, <1>10 DEF OnePool!Drop, PutTasks, Line, Cut

(* While one pool was made, every step is one of TaskPool or a stutter.    *)
LEMMA PoolStep ==
  ASSUME IInv, PoolInv, Next, Alone'
  PROVE  OnePool!Next \/ UNCHANGED OnePool!vars
<1> DEFINE Goal == OnePool!Next \/ UNCHANGED OnePool!vars
<1>t. TypeOK
  BY DEF IInv
<1>1. ASSUME UNCHANGED <<queue, batch, work, running, current>>, PutTasks' = PutTasks PROVE Goal
  BY <1>1, PoolStutters
<1>2. ASSUME NEW t \in Tasks, Accept(t) \/ Tally(t) \/ Count(t) PROVE Goal
  <2>1. UNCHANGED <<queue, batch, work, running, current>>
    BY <1>2 DEF Accept, Tally, Count, poolVars
  <2>2. PICK q \in {"accepted", "inline", "tallied", "counted"} :
          Mark(t, q) /\ phase[t] \in {"new", "accepted", "tallied"}
    BY <1>2 DEF Accept, Tally, Count, At
  <2>3. PutTasks' = PutTasks
    BY <1>t, <2>2, PutTasksStay DEF InFlight
  <2> QED
    BY <1>1, <2>1, <2>3
<1>3. ASSUME NEW t \in Tasks, Put(t) PROVE Goal
  BY <1>t, <1>3, PoolPut DEF OnePool!Next
<1>4. ASSUME NEW k \in Pools, Coordinate(k) PROVE Goal
  <2>1. k = 1
    BY <1>t, <1>4, AlonePools
  <2>2. CASE Loop(1) \/ GetTimeout(1) \/ BatchDone(1)
    BY <1>1, <2>2 DEF Loop, GetTimeout, BatchDone, PutTasks
  <2>3. CASE GetFirst(1) \/ DrainOne(1)
    BY <2>3, PoolTakes
  <2>4. CASE CheckExecutor(1)
    BY <2>4, PoolChecks DEF OnePool!Next
  <2>5. CASE Submit(1)
    <3>1. coord' = coord
      BY <2>5 DEF Submit
    <3>2. Alone
      BY <3>1 DEF Alone
    <3> QED
      BY <2>5, <3>2, PoolSubmits DEF OnePool!Next
  <2> QED
    BY <1>4, <2>1, <2>2, <2>3, <2>4, <2>5 DEF Coordinate
<1>5. ASSUME NEW k \in Pools, Begin(k) PROVE Goal
  BY <1>t, <1>5, AlonePools, PoolBegins DEF OnePool!Next
<1>6. ASSUME NEW k \in Pools, NEW t \in Tasks, Account(k, t) PROVE Goal
  <2>1. UNCHANGED <<queue, batch, work, running, current>>
    BY <1>6 DEF Account, poolVars
  <2>2. phase[t] = "running" /\ Mark(t, "accounted")
    BY <1>6 DEF Account, At
  <2>3. PutTasks' = PutTasks
    BY <1>t, <2>2, PutTasksStay DEF InFlight
  <2> QED
    BY <1>1, <2>1, <2>3
<1>7. ASSUME NEW k \in Pools, NEW t \in Tasks, Release(k, t) PROVE Goal
  <2>1. coord' = coord /\ running[k] # {}
    BY <1>7 DEF Release
  <2>2. k = 1
    BY <2>1 DEF Alone, PoolInv, Unstarted
  <2> QED
    BY <1>7, <2>2, PoolEnds DEF OnePool!Next
<1>8. CASE Start
  BY <1>8, PoolStarts DEF OnePool!Next
<1>9. CASE StopClear
  BY <1>9, PoolCloses DEF OnePool!Next
<1>10. CASE StopCall \/ StopSignal \/ StopJoin \/ StopReturn
  BY <1>1, <1>10 DEF StopCall, StopSignal, StopJoin, StopReturn, poolVars, PutTasks
<1>11. CASE StopCancel
  BY <1>11, PoolCancels DEF OnePool!Next
<1> QED
  BY <1>2, <1>3, <1>4, <1>5, <1>6, <1>7, <1>8, <1>9, <1>10, <1>11 DEF Next, Enqueue, Work, Stop

(* Until a second pool is made the queue is a task pool: tasks begin in    *)
(* the order they were put, each once, never more than Workers at a time,  *)
(* and none is dropped before stop() has cleared the pool.                 *)
THEOREM QueueImplementsTaskPool == Spec => ImplementsTaskPool
<1>1. Init => OnePool!Init
  <2> SUFFICES ASSUME Init PROVE OnePool!Init
    OBVIOUS
  <2>1. 1 \in Pools
    BY QueueAssumption DEF QueueAssumption, Pools
  <2>2. work[1] = <<>> /\ batch[1] = <<>> /\ queue = <<>> /\ running[1] = {} /\ current = None
    BY <2>1 DEF Init
  <2>3. work[1] \o (batch[1] \o queue) = <<>>
    BY <2>2
  <2>4. \A t \in Tasks : phase[t] = "new"
    BY DEF Init
  <2> QED
    BY <2>2, <2>3, <2>4 DEF OnePool!Init, InFlight
<1>2. IInv /\ PoolInv /\ [Next]_vars => [Alone' => OnePool!Next \/ UNCHANGED OnePool!vars]_vars
  BY PoolStep
<1>3. Spec => []PoolInv
  <2>1. IInv /\ PoolInv /\ [Next]_vars => PoolInv'
    BY PoolInvNext DEF IInv
  <2> QED
    BY PoolInvInit, <2>1, QueueInvariant, PTL DEF Spec
<1> QED
  BY <1>1, <1>2, <1>3, QueueInvariant, PTL DEF Spec, ImplementsTaskPool

-----------------------------------------------------------------------------
(* The light cone: a track is a walk of nodes, none of them twice.         *)

LEMMA TrackIs ==
  ASSUME NEW w \in Tracks
  PROVE  /\ Len(w) \in Nat /\ Len(w) >= 1 /\ DOMAIN w = 1..Len(w) /\ \A i \in 1..Len(w) : w[i] \in Nodes
         /\ \A i, j \in 1..Len(w) : w[i] = w[j] => i = j
<1>1. RootDepth \in Nat
  BY LightConeAssumption
<1>2. PICK k \in 1..(RootDepth + 1) : w \in [1..k -> Nodes] /\ \A i, j \in 1..k : w[i] = w[j] => i = j
  BY DEF Tracks, Walks
<1>3. w \in Seq(Nodes) /\ Len(w) = k /\ k \in Nat /\ k >= 1
  BY <1>1, <1>2
<1> QED
  BY <1>2, <1>3

(* The roots of a collection stay when only edges to a node change that    *)
(* holds nothing: no walk up from elsewhere meets it.                      *)
LEMMA RootsStay ==
  ASSUME NEW c \in Nodes, NEW x \in Nodes, c # x,
         \A m \in Nodes : x \notin Parents(m),
         \A m \in Nodes : m # x => Parents(m)' = Parents(m)
  PROVE  Roots(c)' = Roots(c)
<1>1. ASSUME NEW w \in Tracks, \A i \in 1..Len(w) : w[i] # x
      PROVE  (WalksUp(w)' <=> WalksUp(w)) /\ (Ends(w)' <=> Ends(w))
  <2>1. \A i \in 1..Len(w) : Parents(w[i])' = Parents(w[i])
    BY <1>1, TrackIs
  <2>2. Len(w) \in 1..Len(w) /\ \A i \in 1..(Len(w) - 1) : i \in 1..Len(w)
    BY TrackIs
  <2> QED
    BY <2>1, <2>2 DEF WalksUp, Ends
<1>2. ASSUME NEW w \in Tracks, w[1] = c, WalksUp(w) \/ WalksUp(w)', NEW i \in 1..Len(w)
      PROVE  w[i] # x
  <2>1. CASE i = 1
    BY <1>2, <2>1
  <2>2. CASE i # 1
    <3> DEFINE h == i - 1
    <3>1. h \in 1..(Len(w) - 1) /\ h \in 1..Len(w) /\ h + 1 = i /\ h # i
      BY <2>2, TrackIs
    <3> HIDE DEF h
    <3>2. w[i] \in Parents(w[h]) \/ w[i] \in Parents(w[h])'
      BY <1>2, <3>1 DEF WalksUp
    <3>3. w[h] \in Nodes /\ w[h] # w[i]
      BY <1>2, <3>1, TrackIs
    <3> QED
      BY <3>2, <3>3
  <2> QED
    BY <2>1, <2>2
<1>3. \A w \in Tracks : w[1] = c => (WalksUp(w) /\ Ends(w) <=> WalksUp(w)' /\ Ends(w)')
  BY <1>1, <1>2
<1>4. {v \in Tracks : v[1] = c /\ WalksUp(v) /\ Ends(v)}' = {v \in Tracks : v[1] = c /\ WalksUp(v) /\ Ends(v)}
  <2>1. Tracks' = Tracks
    BY DEF Tracks, Walks
  <2> QED
    BY <1>3, <2>1
<1> QED
  BY <1>4 DEF Roots

(* An artifact whose collection has one root, under which the artifact is  *)
(* in the index or on its way to it.                                       *)
Indexed(n) ==
  coll[n] \in Nodes =>
    /\ ~Ambiguous(coll[n])
    /\ \/ <<n, coll[n]>> \in waiting
       \/ \E r \in Roots(coll[n]) : <<r, coll[n], n>> \in entries

IsEdges(edges) == edges \in [Nodes \X Nodes -> SUBSET Actions]

ConeTypes ==
  /\ coll \in [Nodes -> Nodes \cup {Top, Unborn, Gone}]
  /\ IsEdges(through)

(* Nothing is held by what does not exist yet.                             *)
UnbornHoldNothing == \A n \in Nodes : coll[n] = Unborn => ~Holds(n)

ConeInv ==
  /\ ConeTypes
  /\ UnbornHoldNothing
  /\ ~rearranged => \A n \in Nodes \ {Capability} : Indexed(n)

LEMMA ConeConstants ==
  /\ Top \notin Nodes /\ Unborn \notin Nodes /\ Gone \notin Nodes
  /\ Top # Unborn /\ Gone # Unborn
  /\ Server \in Nodes /\ Capability \in Nodes
BY LightConeAssumption

(* Nothing that is not there yet comes to hold anything.                   *)
LEMMA UnbornStays ==
  ASSUME UnbornHoldNothing,
         \A n \in Nodes : coll'[n] = Unborn => coll[n] = Unborn,
         \A n, m \in Nodes : coll'[m] = n \/ through'[<<n, m>>] # {} =>
                               coll[m] = n \/ through[<<n, m>>] # {} \/ coll[n] # Unborn
  PROVE  UnbornHoldNothing'
BY DEF Holds, UnbornHoldNothing

(* What is indexed, or going to be, stays so while its collection keeps    *)
(* its roots.                                                              *)
LEMMA IndexedStays ==
  ASSUME NEW n \in Nodes, Indexed(n),
         waiting \subseteq waiting', entries \subseteq entries',
         \A c \in Nodes : Holds(c) => Roots(c)' = Roots(c),
         coll'[n] \in Nodes => coll'[n] = coll[n]
  PROVE  Indexed(n)'
<1> SUFFICES ASSUME coll'[n] \in Nodes, coll'[n] = coll[n]
             PROVE  /\ ~(\E r, s \in Roots(coll[n])' : r # s)
                    /\ \/ <<n, coll[n]>> \in waiting'
                       \/ \E r \in Roots(coll[n])' : <<r, coll[n], n>> \in entries'
  BY DEF Indexed, Ambiguous
<1>1. Holds(coll[n])
  BY DEF Holds
<1>2. Roots(coll[n])' = Roots(coll[n])
  BY <1>1
<1> QED
  BY <1>2 DEF Indexed, Ambiguous

(* A change of the edges to one node that holds nothing.                   *)
LEMMA RootsStayAt ==
  ASSUME NEW x \in Nodes, ~Holds(x),
         \A a, b \in Nodes : b # x => through'[<<a, b>>] = through[<<a, b>>]
  PROVE  \A c \in Nodes : c # x => Roots(c)' = Roots(c)
<1>1. \A m \in Nodes : x \notin Parents(m)
  BY DEF Parents, Holds
<1>2. \A m \in Nodes : m # x => Parents(m)' = Parents(m)
  BY DEF Parents
<1> QED
  BY <1>1, <1>2, RootsStay

LEMMA RootsStayAll ==
  ASSUME through' = through
  PROVE  \A c \in Nodes : Roots(c)' = Roots(c)
<1>1. \A w : (WalksUp(w)' <=> WalksUp(w)) /\ (Ends(w)' <=> Ends(w))
  BY DEF WalksUp, Ends, Parents
<1> QED
  BY <1>1 DEF Roots, Tracks, Walks

LEMMA EdgeSet ==
  ASSUME NEW edges, NEW edges2, NEW c \in Nodes, NEW n \in Nodes, NEW mask \in SUBSET Actions,
         IsEdges(edges), edges2 = AddEdge(edges, c, n, mask)
  PROVE  /\ IsEdges(edges2)
         /\ \A a, b \in Nodes :
              edges2[<<a, b>>] = IF a = c /\ b = n THEN mask ELSE edges[<<a, b>>]
BY DEF AddEdge, IsEdges

LEMMA Masks == {} \in SUBSET Actions /\ Actions \in SUBSET Actions
OBVIOUS

(* A step that changes the document of one node and the edges to it: it    *)
(* holds nothing, or the collections count as rearranged.                  *)
LEMMA OneNodeStep ==
  ASSUME ConeInv, NEW x \in Nodes, ConeTypes',
         \A a, b \in Nodes : b # x => through'[<<a, b>>] = through[<<a, b>>],
         \A a \in Nodes : through'[<<a, x>>] # {} => through[<<a, x>>] # {} \/ coll[a] # Unborn,
         \A n \in Nodes : n # x => coll'[n] = coll[n],
         coll'[x] = Unborn => coll[x] = Unborn,
         coll'[x] \in Nodes => coll'[x] = coll[x] \/ coll[coll'[x]] # Unborn,
         waiting \subseteq waiting', entries \subseteq entries',
         ~rearranged' => ~rearranged /\ ~Holds(x),
         ~rearranged' => x = Capability \/ Indexed(x)' \/ (coll'[x] \in Nodes => coll'[x] = coll[x])
  PROVE  ConeInv'
<1>1. UnbornHoldNothing'
  <2>1. UnbornHoldNothing
    BY DEF ConeInv
  <2> QED
    BY <2>1, UnbornStays
<1>2. ASSUME ~rearranged', NEW n \in Nodes \ {Capability} PROVE Indexed(n)'
  <2>1. \A c \in Nodes : c # x => Roots(c)' = Roots(c)
    BY <1>2, RootsStayAt
  <2>2. \A c \in Nodes : Holds(c) => Roots(c)' = Roots(c)
    BY <1>2, <2>1
  <2>3. Indexed(n)
    BY <1>2 DEF ConeInv
  <2> QED
    BY <1>2, <2>2, <2>3, IndexedStays
<1> QED
  BY <1>1, <1>2 DEF ConeInv

(* A step that leaves the documents and their edges alone.                 *)
LEMMA OtherStep ==
  ASSUME ConeInv, coll' = coll, through' = through, rearranged' = rearranged,
         waiting \subseteq waiting', entries \subseteq entries'
  PROVE  ConeInv'
<1>1. UnbornHoldNothing' /\ ConeTypes'
  BY DEF ConeInv, UnbornHoldNothing, ConeTypes, Holds
<1>2. ASSUME ~rearranged', NEW n \in Nodes \ {Capability} PROVE Indexed(n)'
  <2>1. Indexed(n)
    BY <1>2 DEF ConeInv
  <2> QED
    BY <2>1, RootsStayAll, IndexedStays
<1> QED
  BY <1>1, <1>2 DEF ConeInv

LEMMA AllowedExists ==
  ASSUME NEW u \in Users, NEW n \in Nodes, Allowed(u, n, "write")
  PROVE  coll[n] # Unborn
BY DEF Allowed, Exists

LEMMA CreateTopStep ==
  ASSUME ConeInv, NEW u \in Users, NEW n \in Nodes, CreateTop(u, n)
  PROVE  ConeInv'
<1>1. coll[n] = Unborn /\ coll' = [coll EXCEPT ![n] = Top] /\ through' = through
      /\ waiting' = waiting /\ entries' = entries /\ rearranged' = rearranged
  BY DEF CreateTop
<1>2. ~Holds(n)
  BY <1>1 DEF ConeInv, UnbornHoldNothing
<1>3. ConeTypes'
  BY <1>1 DEF ConeInv, ConeTypes
<1>4. coll'[n] = Top /\ \A m \in Nodes : m # n => coll'[m] = coll[m]
  BY <1>1 DEF ConeInv, ConeTypes
<1> QED
  BY <1>1, <1>2, <1>3, <1>4, ConeConstants, OneNodeStep

LEMMA CreateStep ==
  ASSUME ConeInv, NEW u \in Users, NEW n \in Nodes, NEW c \in Nodes, Create(u, n, c)
  PROVE  ConeInv'
<1>1. coll[n] = Unborn /\ coll' = [coll EXCEPT ![n] = c]
      /\ through' = AddEdge(through, c, n, Actions)
      /\ waiting' = waiting \cup {<<n, c>>} /\ entries' = entries
      /\ (~rearranged' => ~rearranged /\ ~Ambiguous(c)) /\ Allowed(u, c, "write")
  BY DEF Create
<1>2. ~Holds(n)
  BY <1>1 DEF ConeInv, UnbornHoldNothing
<1>3. coll[c] # Unborn /\ c # n
  BY <1>1, AllowedExists
<1>4. /\ ConeTypes' /\ coll'[n] = c /\ \A m \in Nodes : m # n => coll'[m] = coll[m]
      /\ \A a, b \in Nodes : through'[<<a, b>>] = IF a = c /\ b = n THEN Actions ELSE through[<<a, b>>]
  BY <1>1, EdgeSet DEF ConeInv, ConeTypes
<1>5. ASSUME ~rearranged' PROVE Indexed(n)'
  <2>1. Roots(c)' = Roots(c)
    BY <1>2, <1>3, <1>4, RootsStayAt
  <2>2. ~(\E r, s \in Roots(c)' : r # s)
    BY <1>1, <1>5, <2>1 DEF Ambiguous
  <2>3. <<n, c>> \in waiting'
    BY <1>1
  <2> QED
    BY <1>4, <2>2, <2>3 DEF Indexed, Ambiguous
<1>6. waiting \subseteq waiting' /\ entries \subseteq entries'
  BY <1>1
<1>7. /\ \A a, b \in Nodes : b # n => through'[<<a, b>>] = through[<<a, b>>]
      /\ \A a \in Nodes : through'[<<a, n>>] # {} => through[<<a, n>>] # {} \/ coll[a] # Unborn
  BY <1>3, <1>4
<1>8. coll'[n] = Unborn => coll[n] = Unborn
  BY <1>1
<1>9. coll'[n] \in Nodes => coll'[n] = coll[n] \/ coll[coll'[n]] # Unborn
  BY <1>3, <1>4
<1>10. /\ ~rearranged' => ~rearranged /\ ~Holds(n)
       /\ ~rearranged' => n = Capability \/ Indexed(n)' \/ (coll'[n] \in Nodes => coll'[n] = coll[n])
  BY <1>1, <1>2, <1>5
<1>11. ConeTypes' /\ \A m \in Nodes : m # n => coll'[m] = coll[m]
  BY <1>4
<1> QED
  BY <1>6, <1>7, <1>8, <1>9, <1>10, <1>11, OneNodeStep

LEMMA SaveStep ==
  ASSUME ConeInv, NEW u \in Users, NEW n \in Nodes, Save(u, n)
  PROVE  ConeInv'
BY OtherStep DEF Save, store

LEMMA GrantStep ==
  ASSUME ConeInv, NEW u \in Users, NEW n \in Nodes, NEW actions, Grant(u, n, actions) \/ Revoke(u, n)
  PROVE  ConeInv'
BY OtherStep DEF Grant, Revoke

LEMMA LinkStep ==
  ASSUME ConeInv, NEW u \in Users, NEW n \in Nodes, NEW c \in Nodes, Link(u, n, c)
  PROVE  ConeInv'
<1>1. coll' = coll /\ through' = AddEdge(through, c, n, Actions)
      /\ waiting' = waiting /\ entries' = entries
      /\ (~rearranged' => ~rearranged /\ ~Holds(n)) /\ Allowed(u, c, "write")
  BY DEF Link
<1>2. coll[c] # Unborn
  BY <1>1, AllowedExists
<1>3. /\ ConeTypes'
      /\ \A a, b \in Nodes : through'[<<a, b>>] = IF a = c /\ b = n THEN Actions ELSE through[<<a, b>>]
  <2>1. ConeTypes
    BY DEF ConeInv
  <2>2. /\ IsEdges(through)'
        /\ \A a, b \in Nodes :
             through'[<<a, b>>] = IF a = c /\ b = n THEN Actions ELSE through[<<a, b>>]
    <3>1. IsEdges(through) /\ through' = AddEdge(through, c, n, Actions)
      BY <1>1, <2>1 DEF ConeTypes
    <3> QED
      BY ONLY <3>1, Masks, EdgeSet, n \in Nodes, c \in Nodes
  <2>3. coll' \in [Nodes -> Nodes \cup {Top, Unborn, Gone}]
    BY <1>1, <2>1 DEF ConeTypes
  <2> QED
    BY <2>2, <2>3 DEF ConeTypes
<1>4. /\ \A a, b \in Nodes : b # n => through'[<<a, b>>] = through[<<a, b>>]
      /\ \A a \in Nodes : through'[<<a, n>>] # {} => through[<<a, n>>] # {} \/ coll[a] # Unborn
  BY <1>2, <1>3
<1> QED
  BY <1>1, <1>3, <1>4, OneNodeStep

LEMMA MoveStep ==
  ASSUME ConeInv, NEW u \in Users, NEW n \in Nodes, NEW c \in Nodes, Move(u, n, c)
  PROVE  ConeInv'
<1>1. coll[n] \in Nodes /\ coll' = [coll EXCEPT ![n] = c]
      /\ through' = AddEdge(AddEdge(through, coll[n], n, {}), c, n, Actions)
      /\ rearranged' = TRUE /\ Allowed(u, c, "write")
  BY DEF Move
<1>2. coll[c] # Unborn
  BY <1>1, AllowedExists
<1> DEFINE cut == AddEdge(through, coll[n], n, {})
<1>3. /\ IsEdges(cut)
      /\ \A a, b \in Nodes : cut[<<a, b>>] = {} \/ cut[<<a, b>>] = through[<<a, b>>]
  BY <1>1, EdgeSet, Masks DEF ConeInv, ConeTypes
<1>4. through' = AddEdge(cut, c, n, Actions)
  BY <1>1
<1> HIDE DEF cut
<1>5. /\ IsEdges(through)'
      /\ \A a, b \in Nodes : through'[<<a, b>>] = IF a = c /\ b = n THEN Actions ELSE cut[<<a, b>>]
  BY ONLY <1>3, <1>4, EdgeSet, Masks, n \in Nodes, c \in Nodes
<1>6. \A a, b \in Nodes : through'[<<a, b>>] # {} => through[<<a, b>>] # {} \/ a = c
  BY <1>3, <1>5
<1>7. \A m \in Nodes : coll'[m] = IF m = n THEN c ELSE coll[m]
  BY <1>1 DEF ConeInv, ConeTypes
<1>8. UnbornHoldNothing'
  <2>1. UnbornHoldNothing
    BY DEF ConeInv
  <2>2. \A m \in Nodes : coll'[m] = Unborn => coll[m] = Unborn
    BY <1>7, ConeConstants
  <2>3. \A m, k \in Nodes : coll'[k] = m \/ through'[<<m, k>>] # {} =>
                             coll[k] = m \/ through[<<m, k>>] # {} \/ coll[m] # Unborn
    BY <1>2, <1>6, <1>7
  <2> QED
    BY <2>1, <2>2, <2>3, UnbornStays
<1>9. ConeTypes'
  BY <1>1, <1>5 DEF ConeInv, ConeTypes
<1> QED
  BY <1>1, <1>8, <1>9 DEF ConeInv

LEMMA RemoveStep ==
  ASSUME ConeInv, NEW u \in Users, NEW n \in Nodes, NEW c \in Nodes, Remove(u, n, c)
  PROVE  ConeInv'
<1>1. (coll' = coll \/ coll' = [coll EXCEPT ![n] = Gone])
      /\ through' = AddEdge(through, c, n, {})
      /\ waiting' = waiting /\ entries' = entries
      /\ (~rearranged' => ~rearranged /\ ~Holds(n))
  BY DEF Remove
<1>2. /\ ConeTypes'
      /\ \A a, b \in Nodes : through'[<<a, b>>] = IF a = c /\ b = n THEN {} ELSE through[<<a, b>>]
  <2>1. ConeTypes
    BY DEF ConeInv
  <2>2. /\ IsEdges(through)'
        /\ \A a, b \in Nodes :
             through'[<<a, b>>] = IF a = c /\ b = n THEN {} ELSE through[<<a, b>>]
    <3>1. IsEdges(through) /\ through' = AddEdge(through, c, n, {})
      BY <1>1, <2>1 DEF ConeTypes
    <3> QED
      BY ONLY <3>1, Masks, EdgeSet, n \in Nodes, c \in Nodes
  <2>3. coll' \in [Nodes -> Nodes \cup {Top, Unborn, Gone}]
    BY <1>1, <2>1 DEF ConeTypes
  <2> QED
    BY <2>2, <2>3 DEF ConeTypes
<1>3. /\ \A m \in Nodes : m # n => coll'[m] = coll[m]
      /\ coll'[n] = coll[n] \/ coll'[n] = Gone
  BY <1>1 DEF ConeInv, ConeTypes
<1>4. /\ \A a, b \in Nodes : b # n => through'[<<a, b>>] = through[<<a, b>>]
      /\ \A a \in Nodes : through'[<<a, n>>] # {} => through[<<a, n>>] # {} \/ coll[a] # Unborn
  BY <1>2
<1>5. (coll'[n] = Unborn => coll[n] = Unborn) /\ (coll'[n] \in Nodes => coll'[n] = coll[n])
  BY <1>3, ConeConstants
<1>6. waiting \subseteq waiting' /\ entries \subseteq entries' /\ (~rearranged' => ~rearranged /\ ~Holds(n))
  BY <1>1
<1> QED
  BY <1>2, <1>3, <1>4, <1>5, <1>6, OneNodeStep

LEMMA DeleteStep ==
  ASSUME ConeInv, NEW u \in Users, NEW n \in Nodes, Delete(u, n)
  PROVE  ConeInv'
<1>1. coll' = [coll EXCEPT ![n] = Gone]
      /\ through' = [e \in DOMAIN through |-> IF e[2] = n THEN {} ELSE through[e]]
      /\ waiting' = waiting /\ entries' = entries
      /\ (~rearranged' => ~rearranged /\ ~Holds(n))
  BY DEF Delete
<1>2. coll \in [Nodes -> Nodes \cup {Top, Unborn, Gone}] /\ IsEdges(through)
  BY DEF ConeInv, ConeTypes
<1>3. /\ IsEdges(through')
      /\ \A a, b \in Nodes : through'[<<a, b>>] = IF b = n THEN {} ELSE through[<<a, b>>]
  BY <1>1, <1>2 DEF IsEdges
<1>4. /\ coll' \in [Nodes -> Nodes \cup {Top, Unborn, Gone}]
      /\ coll'[n] = Gone /\ \A m \in Nodes : m # n => coll'[m] = coll[m]
  BY <1>1, <1>2
<1>5. ConeTypes'
  BY <1>3, <1>4 DEF ConeTypes
<1>6. /\ \A a, b \in Nodes : b # n => through'[<<a, b>>] = through[<<a, b>>]
      /\ \A a \in Nodes : through'[<<a, n>>] # {} => through[<<a, n>>] # {} \/ coll[a] # Unborn
  BY <1>3
<1> QED
  BY <1>1, <1>4, <1>5, <1>6, ConeConstants, OneNodeStep

LEMMA ImportStep ==
  ASSUME ConeInv, Import
  PROVE  ConeInv'
<1> DEFINE n == Capability
<1>1. Exists(Server)
      /\ coll' = [coll EXCEPT ![n] = IF Exists(n) THEN @ ELSE Server]
      /\ through' = AddEdge(through, Server, n, {"read"})
      /\ waiting' = waiting /\ entries' = entries
      /\ (~rearranged' => ~rearranged /\ ~Holds(n))
  BY DEF Import
<1>2. coll \in [Nodes -> Nodes \cup {Top, Unborn, Gone}] /\ IsEdges(through)
  BY DEF ConeInv, ConeTypes
<1>3. n \in Nodes /\ Server \in Nodes /\ n = Capability
  BY ConeConstants
<1> HIDE DEF n
<1>4. {"read"} \in SUBSET Actions
  BY DEF Actions
<1>5. /\ IsEdges(through')
      /\ \A a, b \in Nodes :
           through'[<<a, b>>] = IF a = Server /\ b = n THEN {"read"} ELSE through[<<a, b>>]
  <2>1. through' = AddEdge(through, Server, n, {"read"}) /\ IsEdges(through)
    BY <1>1, <1>2
  <2> QED
    BY ONLY <2>1, <1>3, <1>4, EdgeSet
<1>6. /\ coll' \in [Nodes -> Nodes \cup {Top, Unborn, Gone}]
      /\ coll'[n] = coll[n] \/ coll'[n] = Server
      /\ \A m \in Nodes : m # n => coll'[m] = coll[m]
  BY <1>1, <1>2, <1>3
<1>7. coll[Server] # Unborn
  BY <1>1 DEF Exists
<1>8. ConeTypes'
  BY <1>5, <1>6 DEF ConeTypes
<1>9. /\ \A a, b \in Nodes : b # n => through'[<<a, b>>] = through[<<a, b>>]
      /\ \A a \in Nodes : through'[<<a, n>>] # {} => through[<<a, n>>] # {} \/ coll[a] # Unborn
  BY <1>3, <1>5, <1>7
<1>10. /\ coll'[n] = Unborn => coll[n] = Unborn
       /\ coll'[n] \in Nodes => coll'[n] = coll[n] \/ coll[coll'[n]] # Unborn
  BY <1>6, <1>7, ConeConstants
<1>11. waiting \subseteq waiting' /\ entries \subseteq entries' /\ (~rearranged' => ~rearranged /\ ~Holds(n))
  BY <1>1
<1> QED
  BY <1>3, <1>6, <1>8, <1>9, <1>10, <1>11, OneNodeStep

(* Reindexing puts everything in the queue, and tells anew whether the     *)
(* collections have their roots for certain.                               *)
LEMMA ReindexStep ==
  ASSUME ConeInv, Reindex
  PROVE  ConeInv'
<1>1. waiting' = waiting \cup {<<n, CollectionOf(n)>> : n \in {m \in Nodes : Exists(m)}}
      /\ rearranged' = (\E n \in Nodes : Holds(n) /\ Ambiguous(n))
      /\ coll' = coll /\ through' = through
  BY DEF Reindex, store
<1>2. UnbornHoldNothing' /\ ConeTypes'
  BY <1>1 DEF ConeInv, UnbornHoldNothing, ConeTypes, Holds, IsEdges
<1>3. ASSUME ~rearranged', NEW n \in Nodes, NEW c \in Nodes, coll[n] = c
      PROVE  ~Ambiguous(c)' /\ <<n, c>> \in waiting'
  <2>1. Holds(c)
    BY <1>3 DEF Holds
  <2>2. ~Ambiguous(c)
    BY <1>1, <1>3, <2>1
  <2>3. Roots(c)' = Roots(c)
    BY <1>1, RootsStayAll
  <2>4. ~Ambiguous(c)'
    BY <2>2, <2>3 DEF Ambiguous
  <2>5. Exists(n) /\ CollectionOf(n) = c
    BY <1>3, ConeConstants DEF Exists, CollectionOf
  <2> QED
    BY <1>1, <2>4, <2>5
<1>4. ASSUME ~rearranged', NEW n \in Nodes PROVE Indexed(n)'
  <2>1. CASE coll[n] \in Nodes
    <3>1. PICK c \in Nodes : coll[n] = c
      BY <2>1
    <3>2. ~Ambiguous(c)' /\ <<n, c>> \in waiting' /\ coll'[n] = c
      BY <1>1, <1>3, <1>4, <3>1
    <3> QED
      BY <3>2 DEF Indexed, Ambiguous
  <2>2. CASE coll[n] \notin Nodes
    BY <1>1, <2>2 DEF Indexed
  <2> QED
    BY <2>1, <2>2
<1> QED
  BY <1>2, <1>4 DEF ConeInv

(* A task indexes under the only root there is.                            *)
LEMMA IndexStep ==
  ASSUME ConeInv, NEW task \in waiting, Index(task)
  PROVE  ConeInv'
<1>1. PICK r \in Roots(task[2]) : entries' = entries \cup {<<r, task[2], task[1]>>}
  BY DEF Index
<1>2. waiting' = waiting \ {task} /\ coll' = coll /\ through' = through /\ rearranged' = rearranged
  BY DEF Index, store
<1>3. UnbornHoldNothing' /\ ConeTypes'
  BY <1>2 DEF ConeInv, UnbornHoldNothing, ConeTypes, Holds, IsEdges
<1>4. ASSUME ~rearranged', NEW n \in Nodes \ {Capability} PROVE Indexed(n)'
  <2> SUFFICES ASSUME NEW c \in Nodes, coll[n] = c
               PROVE  /\ ~(\E p, q \in Roots(c)' : p # q)
                      /\ \/ <<n, c>> \in waiting'
                         \/ \E p \in Roots(c)' : <<p, c, n>> \in entries'
    BY <1>2 DEF Indexed, Ambiguous
  <2>1. Indexed(n)
    BY <1>2, <1>4 DEF ConeInv
  <2>2. Roots(c)' = Roots(c)
    BY <1>2, RootsStayAll
  <2>3. /\ ~(\E p, q \in Roots(c) : p # q)
        /\ <<n, c>> \in waiting \/ \E p \in Roots(c) : <<p, c, n>> \in entries
    BY <2>1 DEF Indexed, Ambiguous
  <2>4. CASE task = <<n, c>>
    BY <1>1, <2>2, <2>3, <2>4
  <2>5. CASE task # <<n, c>>
    BY <1>1, <1>2, <2>2, <2>3, <2>5
  <2> QED
    BY <2>4, <2>5
<1> QED
  BY <1>3, <1>4 DEF ConeInv

(* A readable artifact is in the light cone with its own collection, which *)
(* the search therefore visits.                                            *)
LEMMA IndexedIsFound ==
  ASSUME ConeInv PROVE FoundWhereReadable
<1> SUFFICES ASSUME waiting = {}, ~rearranged, NEW u \in Users,
                    NEW n \in Scope(u) \ {Capability}, NEW c \in Nodes, coll[n] = c
             PROVE  Finds(u, n)
  BY DEF FoundWhereReadable
<1>1. n \in Nodes
  BY DEF Scope
<1>2. Indexed(n)
  BY <1>1 DEF ConeInv
<1>3. /\ ~(\E p, q \in Roots(c) : p # q)
      /\ \E p \in Roots(c) : <<p, c, n>> \in entries
  BY <1>2 DEF Indexed, Ambiguous
<1>4. \A r \in Roots(c) : <<r, c, n>> \in entries
  BY <1>3
<1>5. CollectionOf(n) = c
  BY ConeConstants DEF CollectionOf
<1>6. c \in Contexts(u)
  BY <1>5 DEF Contexts
<1> QED
  BY <1>4, <1>6 DEF Finds

LEMMA ConeInvInit == ConeInit => ConeInv
<1> SUFFICES ASSUME ConeInit PROVE ConeInv
  OBVIOUS
<1>1. coll = [n \in Nodes |-> Unborn] /\ through = [e \in Nodes \X Nodes |-> {}]
  BY DEF ConeInit
<1>2. ConeTypes
  BY <1>1 DEF ConeTypes, IsEdges
<1>3. UnbornHoldNothing
  BY <1>1, ConeConstants DEF UnbornHoldNothing, Holds
<1>4. \A n \in Nodes : Indexed(n)
  BY <1>1, ConeConstants DEF Indexed
<1> QED
  BY <1>2, <1>3, <1>4 DEF ConeInv

LEMMA ConeInvNext == ConeInv /\ [ConeNext]_coneVars => ConeInv'
<1> SUFFICES ASSUME ConeInv, [ConeNext]_coneVars PROVE ConeInv'
  OBVIOUS
<1>1. CASE UNCHANGED coneVars
  BY <1>1, OtherStep DEF coneVars, store
<1>2. ASSUME NEW u \in Users, NEW n \in Nodes,
             CreateTop(u, n) \/ Save(u, n) \/ Delete(u, n) \/ Revoke(u, n)
      PROVE  ConeInv'
  BY <1>2, CreateTopStep, SaveStep, DeleteStep, GrantStep
<1>3. ASSUME NEW u \in Users, NEW n \in Nodes, NEW c \in Nodes,
             Create(u, n, c) \/ Link(u, n, c) \/ Move(u, n, c) \/ Remove(u, n, c)
      PROVE  ConeInv'
  BY <1>3, CreateStep, LinkStep, MoveStep, RemoveStep
<1>4. ASSUME NEW u \in Users, NEW n \in Nodes, NEW actions \in {{"read"}, Actions}, Grant(u, n, actions)
      PROVE  ConeInv'
  BY <1>4, GrantStep
<1> QED
  BY <1>1, <1>2, <1>3, <1>4, ImportStep, ReindexStep, IndexStep DEF ConeNext

(* Whatever is created, linked, moved, imported, granted and indexed in    *)
(* whichever order: when the queue is empty and nothing was rearranged     *)
(* since the last reindexing, everyone finds what their light cone holds,  *)
(* for any number of artifacts, users and edges, and walks of any depth.   *)
THEOREM ReadableIsFound == ConeSpec => []FoundWhereReadable
<1>1. ConeInit => ConeInv
  BY ConeInvInit
<1>2. ConeInv /\ [ConeNext]_coneVars => ConeInv'
  BY ConeInvNext
<1>3. ConeInv => FoundWhereReadable
  BY IndexedIsFound
<1> QED
  BY <1>1, <1>2, <1>3, PTL DEF ConeSpec

(* Who was granted something, and what an edge lets through, stays         *)
(* reachable by the same walk.                                             *)
LEMMA ScopeGrows ==
  ASSUME \A n \in Nodes : Exists(n) => Exists(n)',
         \A u \in Users, n \in Nodes : "read" \in grants[<<u, n>>] => "read" \in grants'[<<u, n>>],
         \A m, n \in Nodes : "read" \in through[<<m, n>>] => "read" \in through'[<<m, n>>],
         NEW u \in Users
  PROVE  Scope(u) \subseteq Scope(u)'
<1> SUFFICES ASSUME NEW n \in Nodes, Exists(n), n \in Reach(u, "read", DownWalks)
             PROVE  n \in Scope(u)'
  BY DEF Scope
<1>1. PICK w \in DownWalks : Leads(w, u, "read") /\ n = w[Len(w)]
  BY DEF Reach
<1>2. /\ \A i \in 1..(Len(w) - 1) : w[i] \in Nodes /\ w[i + 1] \in Nodes
      /\ w[1] \in Nodes
  <2>1. DownDepth \in Nat
    BY LightConeAssumption
  <2>2. PICK k \in 1..(DownDepth + 1) : w \in [1..k -> Nodes]
    BY DEF DownWalks, Walks
  <2>3. w \in Seq(Nodes) /\ Len(w) = k /\ k \in Nat /\ k >= 1
    BY <2>1, <2>2
  <2> QED
    BY <2>2, <2>3
<1>3. Leads(w, u, "read")'
  BY <1>1, <1>2 DEF Leads
<1>4. DownWalks' = DownWalks
  BY DEF DownWalks, Walks
<1>5. n \in Reach(u, "read", DownWalks)'
  BY <1>1, <1>3, <1>4 DEF Reach
<1> QED
  BY <1>5 DEF Scope

IsGrants == grants \in [Users \X Nodes -> SUBSET Actions]

LEMMA IsGrantsStays == IsGrants /\ [ConeNext]_coneVars => IsGrants'
<1> SUFFICES ASSUME IsGrants, [ConeNext]_coneVars PROVE IsGrants'
  OBVIOUS
<1>1. Actions \in SUBSET Actions /\ {"read"} \in SUBSET Actions /\ {} \in SUBSET Actions
  BY DEF Actions
<1>2. grants' = grants
        \/ \E u \in Users, n \in Nodes, mask \in SUBSET Actions : grants' = [grants EXCEPT ![<<u, n>>] = mask]
  BY <1>1 DEF ConeNext, coneVars, store, CreateTop, Save, Delete, Revoke, Create, Link, Move, Remove,
              Grant, Import, Reindex, Index
<1> QED
  BY <1>2 DEF IsGrants

(* What adds, adds.                                                        *)
LEMMA AddsKeeps ==
  ASSUME ConeInv, IsGrants, Adds, NEW u \in Users
  PROVE  Scope(u) \subseteq Scope(u)'
<1>1. coll \in [Nodes -> Nodes \cup {Top, Unborn, Gone}] /\ IsEdges(through)
  BY DEF ConeInv, ConeTypes
<1>2. ASSUME NEW v \in Users, NEW n \in Nodes, CreateTop(v, n) PROVE Scope(u) \subseteq Scope(u)'
  <2>1. coll[n] = Unborn /\ coll' = [coll EXCEPT ![n] = Top]
        /\ grants' = [grants EXCEPT ![<<v, n>>] = Actions] /\ through' = through
    BY <1>2 DEF CreateTop
  <2>2. \A m \in Nodes : Exists(m) => Exists(m)'
    BY <1>1, <2>1, ConeConstants DEF Exists
  <2>3. \A x \in Users, m \in Nodes : "read" \in grants[<<x, m>>] => "read" \in grants'[<<x, m>>]
    BY <2>1 DEF IsGrants, Actions
  <2> QED
    BY <2>1, <2>2, <2>3, ScopeGrows
<1>3. ASSUME NEW v \in Users, NEW n \in Nodes, NEW c \in Nodes, Create(v, n, c) \/ Link(v, n, c)
      PROVE  Scope(u) \subseteq Scope(u)'
  <2>1. /\ coll' = coll \/ (coll' = [coll EXCEPT ![n] = c] /\ coll[n] = Unborn)
        /\ grants' = grants /\ through' = AddEdge(through, c, n, Actions)
    BY <1>3 DEF Create, Link
  <2>2. \A m \in Nodes : Exists(m) => Exists(m)'
    BY <1>1, <2>1, ConeConstants DEF Exists
  <2>3. /\ IsEdges(through)'
        /\ \A a, b \in Nodes : through'[<<a, b>>] = IF a = c /\ b = n THEN Actions ELSE through[<<a, b>>]
    <3>1. IsEdges(through) /\ through' = AddEdge(through, c, n, Actions)
      BY <1>1, <2>1
    <3> QED
      BY ONLY <3>1, Masks, EdgeSet, n \in Nodes, c \in Nodes
  <2>4. \A a, b \in Nodes : "read" \in through[<<a, b>>] => "read" \in through'[<<a, b>>]
    BY <2>3 DEF Actions
  <2> QED
    BY <2>1, <2>2, <2>4, ScopeGrows
<1>4. ASSUME NEW v \in Users, NEW n \in Nodes, NEW actions \in {{"read"}, Actions}, Grant(v, n, actions)
      PROVE  Scope(u) \subseteq Scope(u)'
  <2>1. coll' = coll /\ through' = through /\ grants' = [grants EXCEPT ![<<v, n>>] = actions]
    BY <1>4 DEF Grant
  <2>2. "read" \in actions
    BY DEF Actions
  <2>3. \A x \in Users, m \in Nodes : "read" \in grants[<<x, m>>] => "read" \in grants'[<<x, m>>]
    BY <2>1, <2>2 DEF IsGrants
  <2>4. \A m \in Nodes : Exists(m) => Exists(m)'
    BY <2>1 DEF Exists
  <2> QED
    BY <2>1, <2>3, <2>4, ScopeGrows
<1>5. ASSUME Import PROVE Scope(u) \subseteq Scope(u)'
  <2> DEFINE n == Capability
  <2>1. Exists(Server) /\ coll' = [coll EXCEPT ![n] = IF Exists(n) THEN @ ELSE Server]
        /\ grants' = grants /\ through' = AddEdge(through, Server, n, {"read"})
    BY <1>5 DEF Import
  <2>2. n \in Nodes /\ Server \in Nodes
    BY ConeConstants
  <2> HIDE DEF n
  <2>3. \A m \in Nodes : Exists(m) => Exists(m)'
    BY <1>1, <2>1, <2>2, ConeConstants DEF Exists
  <2>4. /\ IsEdges(through')
        /\ \A a, b \in Nodes :
             through'[<<a, b>>] = IF a = Server /\ b = n THEN {"read"} ELSE through[<<a, b>>]
    <3>1. IsEdges(through) /\ through' = AddEdge(through, Server, n, {"read"})
      BY <1>1, <2>1
    <3>2. {"read"} \in SUBSET Actions
      BY DEF Actions
    <3> QED
      BY ONLY <3>1, <3>2, <2>2, EdgeSet
  <2>5. \A a, b \in Nodes : "read" \in through[<<a, b>>] => "read" \in through'[<<a, b>>]
    BY <2>4
  <2> QED
    BY <2>1, <2>3, <2>5, ScopeGrows
<1> QED
  BY <1>2, <1>3, <1>4, <1>5 DEF Adds

(* A step that adds takes nothing out of anyone's light cone: what an edge *)
(* is overwritten with lets through at least as much to read.              *)
THEOREM ConeAddingHidesNothing == ConeSpec => AddingHidesNothing
<1>1. ConeInit => ConeInv
  BY ConeInvInit
<1>2. ConeInv /\ [ConeNext]_coneVars => ConeInv'
  BY ConeInvNext
<1>3. ConeInit => IsGrants
  BY DEF ConeInit, IsGrants
<1>4. IsGrants /\ [ConeNext]_coneVars => IsGrants'
  BY IsGrantsStays
<1>5. ConeInv /\ IsGrants => ((\A u \in Users : Scope(u) \subseteq Scope(u)') \/ ~Adds)
  BY AddsKeeps
<1> QED
  BY <1>1, <1>2, <1>3, <1>4, <1>5, PTL DEF ConeSpec, AddingHidesNothing
=============================================================================
