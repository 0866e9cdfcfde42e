---------------------------- MODULE BillingProofs ----------------------------
(***************************************************************************)
(* Proofs about Billing, for any finite set of events, any plans and any   *)
(* number of deliveries, restarts and events remembered: no event acts     *)
(* more often than the process forgot it, no checkout raises the limits    *)
(* without its cards, nobody has credit that was not paid for, and without *)
(* trouble the row is what the events amount to.                           *)
(***************************************************************************)
EXTENDS Billing, FiniteSetTheorems, TLAPS

Row == [plan : Plans, vu : Nat]

AllSteps == Steps \cup {"none", "done", "lost"}

(* Only the steps of its own kind are open to an event's task.             *)
StepsOf(e) == IF Kind[e] = "topup" THEN {"read", "write"} ELSE Cards \cup {"sync"}

TypeOK ==
  /\ limits \in Row
  /\ made \in [Events -> [Cards -> Nat]]
  /\ synced \in [Events -> Nat]
  /\ processed \subseteq Events
  /\ step \in [Deliveries -> AllSteps]
  /\ seen \in [Deliveries -> Row]
  /\ delivered \in [Events -> 0..MaxDeliveries]
  /\ forgot \in Nat
  /\ clean \in BOOLEAN
  /\ bought \in Nat
  /\ \A d \in Running : step[d] \in StepsOf(d[1])

-----------------------------------------------------------------------------
(* The deliveries of an event that wait at one of the steps W              *)

Due(e, W, st) == {d \in Deliveries : d[1] = e /\ st[d] \in W}

Waits(e, W, st) == Cardinality(Due(e, W, st))

LEMMA DueFinite ==
  ASSUME BillingAssumption, NEW e, NEW W, NEW st
  PROVE  IsFiniteSet(Due(e, W, st)) /\ Waits(e, W, st) \in Nat
  <1>1. IsFiniteSet(Deliveries)
    <2>1. IsFiniteSet(1..MaxDeliveries)
      BY FS_Interval DEF BillingAssumption
    <2>2. QED
      BY <2>1, FS_Product DEF Deliveries, BillingAssumption
  <1>2. Due(e, W, st) \subseteq Deliveries
    BY DEF Due
  <1>3. QED
    BY <1>1, <1>2, FS_Subset, FS_CardinalityType DEF Waits

(* No more of them wait when no delivery comes to these steps ...          *)
LEMMA DueStays ==
  ASSUME BillingAssumption, NEW e, NEW W, NEW st, NEW st2,
         Due(e, W, st2) \subseteq Due(e, W, st)
  PROVE  Waits(e, W, st2) <= Waits(e, W, st)
  BY DueFinite, FS_Subset DEF Waits

(* ... one more at most when one delivery moves ...                        *)
LEMMA DueComes ==
  ASSUME BillingAssumption, NEW e, NEW W, NEW st \in [Deliveries -> AllSteps],
         NEW d \in Deliveries, NEW s
  PROVE  Waits(e, W, [st EXCEPT ![d] = s]) <= Waits(e, W, st) + 1
  <1> DEFINE new == Due(e, W, [st EXCEPT ![d] = s])
             old == Due(e, W, st)
  <1>1. new \subseteq old \cup {d}
    BY DEF Due
  <1>2. IsFiniteSet(old) /\ Cardinality(old) \in Nat
    BY DueFinite DEF Waits
  <1>3. IsFiniteSet(new) /\ Cardinality(new) \in Nat
    BY DueFinite DEF Waits
  <1>4. /\ IsFiniteSet(old \cup {d})
        /\ Cardinality(old \cup {d}) = IF d \in old THEN Cardinality(old) ELSE Cardinality(old) + 1
    BY <1>2, FS_AddElement
  <1> HIDE DEF new, old
  <1>5. Cardinality(new) <= Cardinality(old \cup {d})
    BY <1>1, <1>4, FS_Subset
  <1>6. Cardinality(new) <= Cardinality(old) + 1
    BY <1>2, <1>3, <1>4, <1>5
  <1>7. QED
    BY <1>6 DEF new, old, Waits

(* ... and one less when one of them leaves.                               *)
LEMMA DueLeaves ==
  ASSUME BillingAssumption, NEW W, NEW st \in [Deliveries -> AllSteps],
         NEW d \in Deliveries, NEW s, st[d] \in W, s \notin W
  PROVE  Waits(d[1], W, [st EXCEPT ![d] = s]) + 1 = Waits(d[1], W, st)
  <1> DEFINE new == Due(d[1], W, [st EXCEPT ![d] = s])
             old == Due(d[1], W, st)
  <1>1. new = old \ {d} /\ d \in old
    BY DEF Due
  <1>2. IsFiniteSet(old) /\ Cardinality(old) \in Nat
    BY DueFinite DEF Waits
  <1> HIDE DEF new, old
  <1>3. Cardinality(new) = Cardinality(old) - 1
    BY <1>1, <1>2, FS_RemoveElement
  <1>4. Cardinality(new) + 1 = Cardinality(old)
    BY <1>2, <1>3
  <1>5. QED
    BY <1>4 DEF new, old, Waits

-----------------------------------------------------------------------------
(* Types                                                                   *)

LEMMA EventOf ==
  ASSUME NEW d \in Deliveries
  PROVE  d[1] \in Events
  BY DEF Deliveries

LEMMA EffectTyped ==
  ASSUME BillingAssumption, NEW l \in Row, NEW e \in Events
  PROVE  /\ Kind[e] = "topup" => ToppedUp(l, e) \in Row
         /\ Kind[e] # "topup" => PlanLimits(e) \in Row
  <1>1. Kind[e] = "topup" => NewPlan[e] \in Nat
    BY DEF BillingAssumption
  <1>2. Kind[e] # "topup" => NewPlan[e] \in Plans
    BY DEF BillingAssumption
  <1>3. ASSUME Kind[e] = "topup" PROVE ToppedUp(l, e) \in Row
    <2>1. Pack * NewPlan[e] \in Nat
      BY <1>1, <1>3 DEF BillingAssumption
    <2>2. QED
      BY <2>1 DEF ToppedUp, Row
  <1>4. ASSUME Kind[e] # "topup" PROVE PlanLimits(e) \in Row
    BY <1>2, <1>4 DEF PlanLimits, Row, BillingAssumption
  <1>5. QED
    BY <1>3, <1>4

LEMMA FirstStepOf ==
  ASSUME BillingAssumption, NEW e \in Events
  PROVE  FirstStep(e) \in StepsOf(e) /\ StepsOf(e) \subseteq Steps /\ FirstStep(e) # "write"
  BY DEF BillingAssumption, FirstStep, StepsOf, Steps, Cards

(* What the steps of a delivery do to it, action by action.                *)
LEMMA TaskSteps ==
  ASSUME BillingAssumption, TypeOK, NEW d \in Deliveries
  PROVE  /\ step[d] \in Cards => Kind[d[1]] # "topup" /\ AfterCard(step[d]) \in StepsOf(d[1])
         /\ step[d] = "sync" => Kind[d[1]] # "topup"
         /\ step[d] \in {"read", "write"} => Kind[d[1]] = "topup"
  BY DEF TypeOK, Running, StepsOf, Steps, Cards, AfterCard

(* A task that moves to a step of its kind, or ends, keeps the types.      *)
LEMMA MoveTyped ==
  ASSUME BillingAssumption, TypeOK, NEW d \in Deliveries,
         NEW s \in StepsOf(d[1]) \cup {"done"}, step' = [step EXCEPT ![d] = s]
  PROVE  /\ step' \in [Deliveries -> AllSteps]
         /\ \A x \in Running' : step'[x] \in StepsOf(x[1])
  BY EventOf, FirstStepOf DEF TypeOK, AllSteps, Running, Steps

LEMMA DeliverTyped ==
  ASSUME BillingAssumption, TypeOK, NEW e \in Events, Deliver(e)
  PROVE  TypeOK'
  <1> DEFINE d == <<e, delivered[e] + 1>>
  <1>1. d \in Deliveries /\ d[1] = e /\ delivered[e] + 1 \in 0..MaxDeliveries
    BY DEF Deliver, TypeOK, Deliveries, BillingAssumption
  <1>2. step' = [step EXCEPT ![d] = FirstStep(e)]
    BY DEF Deliver
  <1>3. FirstStep(e) \in StepsOf(d[1]) \cup {"done"}
    BY <1>1, FirstStepOf
  <1> HIDE DEF d
  <1>4. /\ step' \in [Deliveries -> AllSteps]
        /\ \A x \in Running' : step'[x] \in StepsOf(x[1])
    BY <1>1, <1>2, <1>3, MoveTyped
  <1>5. /\ processed' \subseteq Events /\ forgot' \in Nat /\ clean' \in BOOLEAN
        /\ delivered' \in [Events -> 0..MaxDeliveries]
    BY <1>1 DEF Deliver, TypeOK
  <1>6. QED
    BY <1>4, <1>5 DEF Deliver, TypeOK, cacheVars

LEMMA MakeCardTyped ==
  ASSUME BillingAssumption, TypeOK, NEW d \in Deliveries, MakeCard(d)
  PROVE  TypeOK'
  <1>1. PICK carriedOut \in BOOLEAN, ok \in BOOLEAN :
          /\ made' = IF carriedOut THEN [made EXCEPT ![d[1]][step[d]] = @ + 1] ELSE made
          /\ step' = [step EXCEPT ![d] = IF ok THEN AfterCard(step[d]) ELSE "done"]
          /\ clean' = (clean /\ ok)
    BY DEF MakeCard, Proceed
  <1>2. step[d] \in Cards
    BY DEF MakeCard
  <1>3. (IF ok THEN AfterCard(step[d]) ELSE "done") \in StepsOf(d[1]) \cup {"done"}
    BY <1>2, TaskSteps
  <1>4. /\ step' \in [Deliveries -> AllSteps]
        /\ \A x \in Running' : step'[x] \in StepsOf(x[1])
    BY <1>1, <1>3, MoveTyped
  <1>5. made' \in [Events -> [Cards -> Nat]]
    BY <1>1, <1>2, EventOf DEF TypeOK
  <1>6. clean' \in BOOLEAN
    BY <1>1 DEF TypeOK
  <1>7. QED
    BY <1>4, <1>5, <1>6 DEF MakeCard, TypeOK

(* What was bought only grows: by a top-up that goes through.              *)
LEMMA BoughtGrows ==
  ASSUME BillingAssumption, TypeOK, NEW d \in Deliveries, NEW l, SetLimits(d, l)
  PROVE  bought' \in Nat /\ bought' >= bought
  <1>1. PICK carriedOut \in BOOLEAN :
          bought' = IF carriedOut /\ Kind[d[1]] = "topup" THEN bought + Pack * NewPlan[d[1]] ELSE bought
    BY DEF SetLimits
  <1>2. bought \in Nat
    BY DEF TypeOK
  <1>3. ASSUME Kind[d[1]] = "topup"
        PROVE  Pack * NewPlan[d[1]] \in Nat
    <2>1. NewPlan[d[1]] \in Nat /\ Pack \in Nat
      BY <1>3, EventOf DEF BillingAssumption
    <2>2. QED
      BY <2>1
  <1> DEFINE price == Pack * NewPlan[d[1]]
  <1>4. CASE carriedOut /\ Kind[d[1]] = "topup"
    <2>1. price \in Nat /\ bought' = bought + price
      BY <1>1, <1>3, <1>4
    <2> HIDE DEF price
    <2>2. QED
      BY <1>2, <2>1
  <1>5. CASE ~(carriedOut /\ Kind[d[1]] = "topup")
    BY <1>1, <1>2, <1>5
  <1>6. QED
    BY <1>4, <1>5

LEMMA SetLimitsTyped ==
  ASSUME BillingAssumption, TypeOK, NEW d \in Deliveries, NEW l \in Row, SetLimits(d, l)
  PROVE  TypeOK'
  <1>1. PICK carriedOut \in BOOLEAN :
          /\ limits' = IF carriedOut THEN l ELSE limits
          /\ synced' = IF carriedOut THEN [synced EXCEPT ![d[1]] = @ + 1] ELSE synced
          /\ clean' = (clean /\ carriedOut)
    BY DEF SetLimits
  <1>2. step' = [step EXCEPT ![d] = "done"]
    BY DEF SetLimits, Proceed
  <1>3. /\ step' \in [Deliveries -> AllSteps]
        /\ \A x \in Running' : step'[x] \in StepsOf(x[1])
    BY <1>2, MoveTyped
  <1>4. synced' \in [Events -> Nat] /\ limits' \in Row /\ clean' \in BOOLEAN
    BY <1>1, EventOf DEF TypeOK
  <1>5. bought' \in Nat
    BY BoughtGrows
  <1>6. QED
    BY <1>3, <1>4, <1>5 DEF SetLimits, TypeOK

LEMMA ReadTyped ==
  ASSUME BillingAssumption, TypeOK, NEW d \in Deliveries, ReadLimits(d)
  PROVE  TypeOK'
  <1>1. PICK s \in {"write", "done"} :
          /\ step' = [step EXCEPT ![d] = s]
          /\ clean' \in {clean, FALSE}
          /\ seen' \in {seen, [seen EXCEPT ![d] = limits]}
    BY DEF ReadLimits, Proceed
  <1>2. s \in StepsOf(d[1]) \cup {"done"}
    BY TaskSteps DEF ReadLimits, StepsOf
  <1>3. /\ step' \in [Deliveries -> AllSteps]
        /\ \A x \in Running' : step'[x] \in StepsOf(x[1])
    BY <1>1, <1>2, MoveTyped
  <1>4. seen' \in [Deliveries -> Row] /\ clean' \in BOOLEAN
    BY <1>1 DEF TypeOK
  <1>5. QED
    BY <1>3, <1>4 DEF ReadLimits, TypeOK, cacheVars

LEMMA CrashEndsTasks ==
  ASSUME TypeOK, Crash
  PROVE  step' \in [Deliveries -> AllSteps] /\ \A d \in Deliveries : step'[d] \notin Steps
  <1>1. \A d \in Deliveries : step'[d] = IF step[d] \in Steps THEN "lost" ELSE step[d]
    BY DEF Crash, Running
  <1>2. step' = [d \in Deliveries |-> IF d \in Running THEN "lost" ELSE step[d]]
    BY DEF Crash
  <1>3. \A d \in Deliveries : step[d] \in AllSteps
    BY DEF TypeOK
  <1>4. "lost" \in AllSteps /\ "lost" \notin Steps
    BY DEF AllSteps, Steps
  <1>5. QED
    BY <1>1, <1>2, <1>3, <1>4

LEMMA NextTyped ==
  ASSUME BillingAssumption, TypeOK, [Next]_vars
  PROVE  TypeOK'
  <1>1. ASSUME NEW e \in Events, AlreadyProcessed(e)
        PROVE  TypeOK'
    BY <1>1 DEF AlreadyProcessed, TypeOK, cacheVars, ghostVars, Running, BillingAssumption
  <1>2. ASSUME NEW d \in Deliveries, Sync(d)
        PROVE  TypeOK'
    <2>1. PlanLimits(d[1]) \in Row
      BY <1>2, TaskSteps, EffectTyped, EventOf DEF Sync, TypeOK
    <2>2. QED
      BY <1>2, <2>1, SetLimitsTyped DEF Sync
  <1>3. ASSUME NEW d \in Deliveries, WriteLimits(d)
        PROVE  TypeOK'
    <2>1. ToppedUp(seen[d], d[1]) \in Row
      BY <1>3, TaskSteps, EffectTyped, EventOf DEF WriteLimits, TypeOK
    <2>2. QED
      BY <1>3, <2>1, SetLimitsTyped DEF WriteLimits
  <1>4. CASE Crash
    <2>1. step' \in [Deliveries -> AllSteps] /\ Running' = {}
      BY <1>4, CrashEndsTasks DEF Running
    <2>2. \A d \in Running' : step'[d] \in StepsOf(d[1])
      BY <2>1
    <2>3. /\ processed' \subseteq Events /\ forgot' \in Nat
          /\ clean' \in BOOLEAN
      <3>1. processed' \subseteq Events
        BY <1>4 DEF Crash
      <3>2. forgot' \in Nat
        BY <1>4 DEF Crash, TypeOK
      <3>3. clean' \in BOOLEAN
        BY <1>4 DEF Crash
      <3>4. QED
        BY <3>1, <3>2, <3>3
    <2>4. UNCHANGED <<limits, made, synced, seen, delivered, bought>>
      BY <1>4 DEF Crash, cacheVars
    <2>5. QED
      BY <2>1, <2>2, <2>3, <2>4 DEF TypeOK
  <1>5. CASE UNCHANGED vars
    BY <1>5 DEF vars, TypeOK, cacheVars, ghostVars, Running
  <1>6. QED
    BY <1>1, <1>2, <1>3, <1>4, <1>5, DeliverTyped, MakeCardTyped, ReadTyped DEF Next

-----------------------------------------------------------------------------
(* Idempotency                                                             *)

(* How often an event may have acted: once, and once more for each time it *)
(* was forgotten.                                                          *)
BudgetOf(e, seenEvents, n) == n + IF e \in seenEvents THEN 1 ELSE 0

(* The steps up to a card, and those behind it.                            *)
Upto(c) == CASE c = "entitlement" -> {"entitlement"}
             [] c = "subscription" -> {"entitlement", "subscription"}
             [] c = "event" -> Cards
Past(c) == CASE c = "entitlement" -> {"subscription", "event", "sync"}
             [] c = "subscription" -> {"event", "sync"}
             [] c = "event" -> {"sync"}

(* What an event did, and what its tasks have yet to do, stays in budget.  *)
WithinBudget ==
  \A e \in Events :
    /\ synced[e] + Waits(e, Steps, step) <= BudgetOf(e, processed, forgot)
    /\ \A c \in Cards : made[e][c] + Waits(e, Upto(c), step) <= BudgetOf(e, processed, forgot)

(* Limits that were raised by a checkout, and those its tasks are about to *)
(* raise, have their cards.                                                *)
CardsFirst ==
  \A e \in Events : Kind[e] = "checkout" =>
    \A c \in Cards : synced[e] + Waits(e, Past(c), step) <= made[e][c]

LEMMA CardOrder ==
  ASSUME NEW c \in Cards
  PROVE  /\ Upto(c) \subseteq Steps /\ Past(c) \subseteq Steps
         /\ c \in Upto(c) /\ AfterCard(c) \notin Upto(c) /\ "done" \notin Upto(c)
         /\ c \notin Past(c) /\ "done" \notin Past(c)
         /\ "sync" \in Past(c) /\ "entitlement" \notin Past(c)
         /\ \A x \in Cards \ {c} : AfterCard(x) \in Upto(c) => x \in Upto(c)
         /\ \A x \in Cards \ {c} : AfterCard(x) \in Past(c) => x \in Past(c)
         /\ {"sync", "read", "write"} \cap Upto(c) = {}
         /\ {"read", "write"} \cap Past(c) = {}
  BY DEF Cards, Upto, Past, AfterCard, Steps

LEMMA BudgetTyped ==
  ASSUME TypeOK, NEW e
  PROVE  BudgetOf(e, processed, forgot) \in Nat
  BY DEF TypeOK, BudgetOf

LEMMA DeliverKeeps ==
  ASSUME BillingAssumption, TypeOK, WithinBudget, CardsFirst, NEW e0 \in Events, Deliver(e0)
  PROVE  WithinBudget' /\ CardsFirst'
  <1> DEFINE d == <<e0, delivered[e0] + 1>>
  <1>1. d \in Deliveries /\ d[1] = e0
    BY DEF Deliver, TypeOK, Deliveries, BillingAssumption
  <1>2. step' = [step EXCEPT ![d] = FirstStep(e0)] /\ UNCHANGED <<made, synced>>
    BY DEF Deliver, cacheVars
  <1> HIDE DEF d
  <1>3. e0 \notin processed
    BY DEF Deliver
  <1>4. \/ processed' = processed \cup {e0} /\ forgot' = forgot
        \/ processed' = {e0} /\ forgot' = forgot + 1
    BY DEF Deliver
  <1>5. step \in [Deliveries -> AllSteps] /\ forgot \in Nat
    BY DEF TypeOK
  <1>6. ASSUME NEW e \in Events, NEW W
        PROVE  /\ Waits(e, W, step) \in Nat /\ Waits(e, W, step') \in Nat
               /\ Waits(e, W, step') <= Waits(e, W, step) + IF e = e0 THEN 1 ELSE 0
               /\ FirstStep(e0) \notin W => Waits(e, W, step') <= Waits(e, W, step)
    <2>1. Waits(e, W, step) \in Nat /\ Waits(e, W, step') \in Nat
      BY DueFinite
    <2>2. Waits(e, W, step') <= Waits(e, W, step) + 1
      BY <1>1, <1>2, <1>5, DueComes
    <2>3. e # e0 \/ FirstStep(e0) \notin W => Waits(e, W, step') <= Waits(e, W, step)
      <3>1. e # e0 \/ FirstStep(e0) \notin W => Due(e, W, step') \subseteq Due(e, W, step)
        BY <1>1, <1>2, <1>5 DEF Due
      <3>2. QED
        BY <3>1, DueStays
    <2>4. QED
      BY <2>1, <2>2, <2>3
  <1>7. ASSUME NEW e \in Events
        PROVE  BudgetOf(e, processed', forgot')
                 >= BudgetOf(e, processed, forgot) + IF e = e0 THEN 1 ELSE 0
    BY <1>3, <1>4, <1>5 DEF BudgetOf
  <1>8. WithinBudget'
    <2> SUFFICES ASSUME NEW e \in Events, NEW n \in Nat, NEW W,
                        n + Waits(e, W, step) <= BudgetOf(e, processed, forgot)
                 PROVE  n + Waits(e, W, step') <= BudgetOf(e, processed', forgot')
      BY <1>2 DEF WithinBudget, TypeOK
    <2>1. BudgetOf(e, processed, forgot) \in Nat /\ BudgetOf(e, processed', forgot') \in Nat
      BY <1>4, <1>5 DEF BudgetOf
    <2>2. QED
      BY <1>6, <1>7, <2>1
  <1>9. CardsFirst'
    <2> SUFFICES ASSUME NEW e \in Events, Kind[e] = "checkout", NEW c \in Cards
                 PROVE  synced[e] + Waits(e, Past(c), step') <= made[e][c]
      BY <1>2 DEF CardsFirst
    <2>1. synced[e] + Waits(e, Past(c), step) <= made[e][c]
      BY DEF CardsFirst
    <2>2. e = e0 => FirstStep(e0) \notin Past(c)
      BY CardOrder DEF FirstStep
    <2>3. Waits(e, Past(c), step') <= Waits(e, Past(c), step)
      BY <1>6, <2>2
    <2>4. synced[e] \in Nat /\ made[e][c] \in Nat
      BY DEF TypeOK
    <2>5. QED
      BY <1>6, <2>1, <2>3, <2>4
  <1>10. QED
    BY <1>8, <1>9

(* A task that moves from a step it was at leaves no event with more that  *)
(* wait up to a card, or on the whole, than before.                        *)
LEMMA MoveWaits ==
  ASSUME BillingAssumption, TypeOK, NEW d \in Deliveries, NEW s,
         step' = [step EXCEPT ![d] = s], NEW e \in Events, NEW W,
         e = d[1] /\ s \in W => step[d] \in W
  PROVE  /\ Waits(e, W, step) \in Nat /\ Waits(e, W, step') \in Nat
         /\ Waits(e, W, step') <= Waits(e, W, step)
  <1>1. Due(e, W, step') \subseteq Due(e, W, step)
    BY DEF Due, TypeOK
  <1>2. QED
    BY <1>1, DueFinite, DueStays

LEMMA LeaveWaits ==
  ASSUME BillingAssumption, TypeOK, NEW d \in Deliveries, NEW s,
         step' = [step EXCEPT ![d] = s], NEW W, step[d] \in W, s \notin W
  PROVE  /\ Waits(d[1], W, step) \in Nat /\ Waits(d[1], W, step') \in Nat
         /\ Waits(d[1], W, step') + 1 = Waits(d[1], W, step)
  <1>1. step \in [Deliveries -> AllSteps]
    BY DEF TypeOK
  <1>2. QED
    BY <1>1, DueFinite, DueLeaves

LEMMA MakeCardKeeps ==
  ASSUME BillingAssumption, TypeOK, WithinBudget, CardsFirst, NEW d \in Deliveries, MakeCard(d)
  PROVE  WithinBudget' /\ CardsFirst'
  <1>1. PICK carriedOut \in BOOLEAN, ok \in BOOLEAN :
          /\ ok => carriedOut
          /\ made' = IF carriedOut THEN [made EXCEPT ![d[1]][step[d]] = @ + 1] ELSE made
          /\ step' = [step EXCEPT ![d] = IF ok THEN AfterCard(step[d]) ELSE "done"]
    BY DEF MakeCard, Proceed
  <1> DEFINE s == IF ok THEN AfterCard(step[d]) ELSE "done"
  <1>2. step[d] \in Cards /\ UNCHANGED <<synced, processed, forgot>> /\ d[1] \in Events
    BY EventOf DEF MakeCard
  <1>3. step' = [step EXCEPT ![d] = s]
    BY <1>1
  <1>4. s # "done" => ok /\ s = AfterCard(step[d])
    OBVIOUS
  <1>5. "done" \notin Steps /\ step[d] \in Steps
    BY <1>2, CardOrder DEF Steps, Cards
  <1> HIDE DEF s
  <1>6. /\ synced \in [Events -> Nat] /\ made \in [Events -> [Cards -> Nat]]
        /\ \A e \in Events : BudgetOf(e, processed, forgot) \in Nat
    BY BudgetTyped DEF TypeOK
  <1>7. ASSUME NEW e \in Events, NEW c \in Cards, ~(e = d[1] /\ c = step[d])
        PROVE  made'[e][c] = made[e][c]
    BY <1>1, <1>2, <1>6, <1>7
  <1>8. made'[d[1]][step[d]] = IF carriedOut THEN made[d[1]][step[d]] + 1 ELSE made[d[1]][step[d]]
    BY <1>1, <1>2, <1>6
  <1>9. ASSUME NEW e \in Events
        PROVE  synced'[e] + Waits(e, Steps, step') <= BudgetOf(e, processed', forgot')
    <2>1. synced[e] + Waits(e, Steps, step) <= BudgetOf(e, processed, forgot)
      BY DEF WithinBudget
    <2>2. /\ Waits(e, Steps, step) \in Nat /\ Waits(e, Steps, step') \in Nat
          /\ Waits(e, Steps, step') <= Waits(e, Steps, step)
      BY <1>3, <1>5, MoveWaits
    <2>3. QED
      BY <1>2, <1>6, <2>1, <2>2
  <1>10. ASSUME NEW e \in Events, NEW c \in Cards
         PROVE  made'[e][c] + Waits(e, Upto(c), step') <= BudgetOf(e, processed', forgot')
    <2>1. made[e][c] + Waits(e, Upto(c), step) <= BudgetOf(e, processed, forgot)
      BY DEF WithinBudget
    <2>2. made[e][c] \in Nat
      BY <1>6
    <2>3. CASE e = d[1] /\ c = step[d]
      <3>1. step[d] \in Upto(c) /\ s \notin Upto(c)
        BY <1>4, <2>3, CardOrder
      <3>2. /\ Waits(e, Upto(c), step) \in Nat /\ Waits(e, Upto(c), step') \in Nat
            /\ Waits(e, Upto(c), step') + 1 = Waits(e, Upto(c), step)
        BY <1>3, <2>3, <3>1, LeaveWaits
      <3>3. made'[e][c] \in Nat /\ made'[e][c] <= made[e][c] + 1
        BY <1>8, <2>2, <2>3
      <3>4. QED
        BY <1>2, <1>6, <2>1, <2>2, <3>2, <3>3
    <2>4. CASE ~(e = d[1] /\ c = step[d])
      <3>1. e = d[1] /\ s \in Upto(c) => step[d] \in Upto(c)
        BY <1>2, <1>4, <2>4, CardOrder
      <3>2. /\ Waits(e, Upto(c), step) \in Nat /\ Waits(e, Upto(c), step') \in Nat
            /\ Waits(e, Upto(c), step') <= Waits(e, Upto(c), step)
        BY <1>3, <3>1, MoveWaits
      <3>3. QED
        BY <1>2, <1>6, <1>7, <2>1, <2>2, <2>4, <3>2
    <2>5. QED
      BY <2>3, <2>4
  <1>11. ASSUME NEW e \in Events, Kind[e] = "checkout", NEW c \in Cards
         PROVE  synced'[e] + Waits(e, Past(c), step') <= made'[e][c]
    <2>1. synced[e] + Waits(e, Past(c), step) <= made[e][c]
      BY <1>11 DEF CardsFirst
    <2>2. made[e][c] \in Nat /\ synced[e] \in Nat
      BY <1>6
    <2>3. CASE e = d[1] /\ c = step[d]
      <3>1. CASE ok
        <4>1. made'[e][c] = made[e][c] + 1
          BY <1>1, <1>8, <2>3, <3>1
        <4>2. Waits(e, Past(c), step') <= Waits(e, Past(c), step) + 1
          BY <1>3, DueComes DEF TypeOK
        <4>3. Waits(e, Past(c), step) \in Nat /\ Waits(e, Past(c), step') \in Nat
          BY DueFinite
        <4>4. QED
          BY <1>2, <2>1, <2>2, <4>1, <4>2, <4>3
      <3>2. CASE ~ok
        <4>1. s \notin Past(c)
          BY <1>4, <3>2, CardOrder
        <4>2. /\ Waits(e, Past(c), step) \in Nat /\ Waits(e, Past(c), step') \in Nat
              /\ Waits(e, Past(c), step') <= Waits(e, Past(c), step)
          BY <1>3, <4>1, MoveWaits
        <4>3. made'[e][c] \in Nat /\ made'[e][c] >= made[e][c]
          BY <1>8, <2>2, <2>3
        <4>4. QED
          BY <1>2, <2>1, <2>2, <4>2, <4>3
      <3>3. QED
        BY <3>1, <3>2
    <2>4. CASE ~(e = d[1] /\ c = step[d])
      <3>1. e = d[1] /\ s \in Past(c) => step[d] \in Past(c)
        BY <1>2, <1>4, <2>4, CardOrder
      <3>2. /\ Waits(e, Past(c), step) \in Nat /\ Waits(e, Past(c), step') \in Nat
            /\ Waits(e, Past(c), step') <= Waits(e, Past(c), step)
        BY <1>3, <3>1, MoveWaits
      <3>3. QED
        BY <1>2, <1>7, <2>1, <2>2, <2>4, <3>2
    <2>5. QED
      BY <2>3, <2>4
  <1>12. WithinBudget'
    BY <1>9, <1>10 DEF WithinBudget
  <1>13. CardsFirst'
    BY <1>11 DEF CardsFirst
  <1>14. QED
    BY <1>12, <1>13

(* A request to set limits is the last one of its delivery.                *)
LEMMA SetLimitsKeeps ==
  ASSUME BillingAssumption, TypeOK, WithinBudget, CardsFirst, NEW d \in Deliveries,
         step[d] \in {"sync", "write"}, NEW l, SetLimits(d, l)
  PROVE  WithinBudget' /\ CardsFirst'
  <1>1. /\ step' = [step EXCEPT ![d] = "done"]
        /\ UNCHANGED <<made, processed, forgot>>
        /\ synced' \in {synced, [synced EXCEPT ![d[1]] = @ + 1]}
    BY DEF SetLimits, Proceed
  <1>2. /\ d[1] \in Events /\ step[d] \in Steps /\ "done" \notin Steps
    BY EventOf DEF Steps
  <1>3. /\ synced \in [Events -> Nat] /\ made \in [Events -> [Cards -> Nat]]
        /\ \A e \in Events : BudgetOf(e, processed, forgot) \in Nat
    BY BudgetTyped DEF TypeOK
  <1>4. ASSUME NEW e \in Events
        PROVE  /\ synced'[e] \in Nat /\ synced'[e] <= synced[e] + 1
               /\ e # d[1] => synced'[e] = synced[e]
    BY <1>1, <1>2, <1>3
  <1>5. ASSUME NEW e \in Events
        PROVE  synced'[e] + Waits(e, Steps, step') <= BudgetOf(e, processed', forgot')
    <2>1. synced[e] + Waits(e, Steps, step) <= BudgetOf(e, processed, forgot)
      BY DEF WithinBudget
    <2>2. CASE e = d[1]
      <3>1. /\ Waits(e, Steps, step) \in Nat /\ Waits(e, Steps, step') \in Nat
            /\ Waits(e, Steps, step') + 1 = Waits(e, Steps, step)
        BY <1>1, <1>2, <2>2, LeaveWaits
      <3>2. QED
        BY <1>1, <1>3, <1>4, <2>1, <3>1
    <2>3. CASE e # d[1]
      <3>1. /\ Waits(e, Steps, step) \in Nat /\ Waits(e, Steps, step') \in Nat
            /\ Waits(e, Steps, step') <= Waits(e, Steps, step)
        BY <1>1, <2>3, MoveWaits
      <3>2. QED
        BY <1>1, <1>3, <1>4, <2>1, <2>3, <3>1
    <2>4. QED
      BY <2>2, <2>3
  <1>6. ASSUME NEW e \in Events, NEW c \in Cards
        PROVE  made'[e][c] + Waits(e, Upto(c), step') <= BudgetOf(e, processed', forgot')
    <2>1. made[e][c] + Waits(e, Upto(c), step) <= BudgetOf(e, processed, forgot)
      BY DEF WithinBudget
    <2>2. "done" \notin Upto(c)
      BY CardOrder
    <2>3. /\ Waits(e, Upto(c), step) \in Nat /\ Waits(e, Upto(c), step') \in Nat
          /\ Waits(e, Upto(c), step') <= Waits(e, Upto(c), step)
      BY <1>1, <2>2, MoveWaits
    <2>4. QED
      BY <1>1, <1>3, <2>1, <2>3
  <1>7. ASSUME NEW e \in Events, Kind[e] = "checkout", NEW c \in Cards
        PROVE  synced'[e] + Waits(e, Past(c), step') <= made'[e][c]
    <2>1. synced[e] + Waits(e, Past(c), step) <= made[e][c]
      BY <1>7 DEF CardsFirst
    <2>2. "done" \notin Past(c) /\ "sync" \in Past(c)
      BY CardOrder
    <2>3. CASE e = d[1]
      <3>1. step[d] \in Past(c)
        BY <1>7, <2>2, <2>3, TaskSteps
      <3>2. /\ Waits(e, Past(c), step) \in Nat /\ Waits(e, Past(c), step') \in Nat
            /\ Waits(e, Past(c), step') + 1 = Waits(e, Past(c), step)
        BY <1>1, <2>2, <2>3, <3>1, LeaveWaits
      <3>3. QED
        BY <1>1, <1>3, <1>4, <2>1, <3>2
    <2>4. CASE e # d[1]
      <3>1. /\ Waits(e, Past(c), step) \in Nat /\ Waits(e, Past(c), step') \in Nat
            /\ Waits(e, Past(c), step') <= Waits(e, Past(c), step)
        BY <1>1, <2>4, MoveWaits
      <3>2. QED
        BY <1>1, <1>3, <1>4, <2>1, <2>4, <3>1
    <2>5. QED
      BY <2>3, <2>4
  <1>8. WithinBudget'
    BY <1>5, <1>6 DEF WithinBudget
  <1>9. CardsFirst'
    BY <1>7 DEF CardsFirst
  <1>10. QED
    BY <1>8, <1>9

LEMMA ReadKeeps ==
  ASSUME BillingAssumption, TypeOK, WithinBudget, CardsFirst, NEW d \in Deliveries, ReadLimits(d)
  PROVE  WithinBudget' /\ CardsFirst'
  <1>1. PICK s \in {"write", "done"} : step' = [step EXCEPT ![d] = s]
    BY DEF ReadLimits, Proceed
  <1>2. UNCHANGED <<made, synced, processed, forgot>>
    BY DEF ReadLimits, cacheVars
  <1>3. step[d] \in Steps
    BY DEF ReadLimits, Steps
  <1>4. /\ synced \in [Events -> Nat] /\ made \in [Events -> [Cards -> Nat]]
        /\ \A e \in Events : BudgetOf(e, processed, forgot) \in Nat
    BY BudgetTyped DEF TypeOK
  <1>5. ASSUME NEW e \in Events
        PROVE  synced'[e] + Waits(e, Steps, step') <= BudgetOf(e, processed', forgot')
    <2>1. synced[e] + Waits(e, Steps, step) <= BudgetOf(e, processed, forgot)
      BY DEF WithinBudget
    <2>2. /\ Waits(e, Steps, step) \in Nat /\ Waits(e, Steps, step') \in Nat
          /\ Waits(e, Steps, step') <= Waits(e, Steps, step)
      BY <1>1, <1>3, MoveWaits
    <2>3. QED
      BY <1>2, <1>4, <2>1, <2>2
  <1>6. ASSUME NEW e \in Events, NEW c \in Cards
        PROVE  made'[e][c] + Waits(e, Upto(c), step') <= BudgetOf(e, processed', forgot')
    <2>1. made[e][c] + Waits(e, Upto(c), step) <= BudgetOf(e, processed, forgot)
      BY DEF WithinBudget
    <2>2. s \notin Upto(c)
      BY CardOrder
    <2>3. /\ Waits(e, Upto(c), step) \in Nat /\ Waits(e, Upto(c), step') \in Nat
          /\ Waits(e, Upto(c), step') <= Waits(e, Upto(c), step)
      BY <1>1, <2>2, MoveWaits
    <2>4. QED
      BY <1>2, <1>4, <2>1, <2>3
  <1>7. ASSUME NEW e \in Events, Kind[e] = "checkout", NEW c \in Cards
        PROVE  synced'[e] + Waits(e, Past(c), step') <= made'[e][c]
    <2>1. synced[e] + Waits(e, Past(c), step) <= made[e][c]
      BY <1>7 DEF CardsFirst
    <2>2. s \notin Past(c)
      BY CardOrder
    <2>3. /\ Waits(e, Past(c), step) \in Nat /\ Waits(e, Past(c), step') \in Nat
          /\ Waits(e, Past(c), step') <= Waits(e, Past(c), step)
      BY <1>1, <2>2, MoveWaits
    <2>4. QED
      BY <1>2, <1>4, <2>1, <2>3
  <1>8. QED
    BY <1>5, <1>6, <1>7 DEF WithinBudget, CardsFirst

(* A restart ends every task: nothing waits, and all budgets go up.        *)
LEMMA CrashKeeps ==
  ASSUME BillingAssumption, TypeOK, WithinBudget, CardsFirst, Crash
  PROVE  WithinBudget' /\ CardsFirst'
  <1>1. ASSUME NEW e, NEW W \in SUBSET Steps
        PROVE  Waits(e, W, step') = 0 /\ Waits(e, W, step) \in Nat
    <2>1. Due(e, W, step') = {}
      BY CrashEndsTasks DEF Due
    <2>2. QED
      BY <2>1, DueFinite, FS_EmptySet DEF Waits
  <1>2. UNCHANGED <<made, synced>> /\ processed' = {} /\ forgot' = forgot + 1
    BY DEF Crash, cacheVars
  <1>3. /\ synced \in [Events -> Nat] /\ made \in [Events -> [Cards -> Nat]] /\ forgot \in Nat
    BY DEF TypeOK
  <1>4. ASSUME NEW e \in Events
        PROVE  BudgetOf(e, processed, forgot) <= BudgetOf(e, processed', forgot')
               /\ BudgetOf(e, processed, forgot) \in Nat /\ BudgetOf(e, processed', forgot') \in Nat
    BY <1>2, <1>3 DEF BudgetOf
  <1>5. ASSUME NEW e \in Events
        PROVE  synced'[e] + Waits(e, Steps, step') <= BudgetOf(e, processed', forgot')
    <2>1. synced[e] + Waits(e, Steps, step) <= BudgetOf(e, processed, forgot)
      BY DEF WithinBudget
    <2>2. QED
      BY <1>1, <1>2, <1>3, <1>4, <2>1
  <1>6. ASSUME NEW e \in Events, NEW c \in Cards
        PROVE  made'[e][c] + Waits(e, Upto(c), step') <= BudgetOf(e, processed', forgot')
    <2>1. made[e][c] + Waits(e, Upto(c), step) <= BudgetOf(e, processed, forgot)
      BY DEF WithinBudget
    <2>2. Waits(e, Upto(c), step') = 0 /\ Waits(e, Upto(c), step) \in Nat
      BY <1>1, CardOrder
    <2>3. QED
      BY <1>2, <1>3, <1>4, <2>1, <2>2
  <1>7. ASSUME NEW e \in Events, Kind[e] = "checkout", NEW c \in Cards
        PROVE  synced'[e] + Waits(e, Past(c), step') <= made'[e][c]
    <2>1. synced[e] + Waits(e, Past(c), step) <= made[e][c]
      BY <1>7 DEF CardsFirst
    <2>2. Waits(e, Past(c), step') = 0 /\ Waits(e, Past(c), step) \in Nat
      BY <1>1, CardOrder
    <2>3. QED
      BY <1>2, <1>3, <2>1, <2>2
  <1>8. QED
    BY <1>5, <1>6, <1>7 DEF WithinBudget, CardsFirst

LEMMA CountsKept ==
  ASSUME BillingAssumption, TypeOK, WithinBudget, CardsFirst, [Next]_vars
  PROVE  WithinBudget' /\ CardsFirst'
  <1>1. ASSUME UNCHANGED <<made, synced, processed, forgot, step>>
        PROVE  WithinBudget' /\ CardsFirst'
    BY <1>1 DEF WithinBudget, CardsFirst
  <1>2. ASSUME NEW e \in Events, AlreadyProcessed(e)
        PROVE  WithinBudget' /\ CardsFirst'
    BY <1>1, <1>2 DEF AlreadyProcessed, cacheVars
  <1>3. ASSUME NEW d \in Deliveries, Sync(d) \/ WriteLimits(d)
        PROVE  WithinBudget' /\ CardsFirst'
    BY <1>3, SetLimitsKeeps DEF Sync, WriteLimits
  <1>4. CASE UNCHANGED vars
    BY <1>1, <1>4 DEF vars, cacheVars
  <1>5. QED
    BY <1>2, <1>3, <1>4, DeliverKeeps, MakeCardKeeps, ReadKeeps, CrashKeeps DEF Next

-----------------------------------------------------------------------------
(* One event after the other                                               *)

(* Without trouble there is one task at most, and what it is about to      *)
(* write makes the row what the events amount to.                          *)
Serial ==
  clean =>
    /\ Running = {} => limits = ledger
    /\ \A d \in Running :
         /\ Running = {d}
         /\ ledger = Effect(limits, d[1])
         /\ step[d] = "write" => seen[d] = limits

LEMMA SerialKept ==
  ASSUME BillingAssumption, TypeOK, Serial, [Next]_vars
  PROVE  Serial'
  <1>0. step \in [Deliveries -> AllSteps] /\ seen \in [Deliveries -> Row]
    BY DEF TypeOK
  <1>1. ASSUME NEW e \in Events, AlreadyProcessed(e)
        PROVE  Serial'
    BY <1>1 DEF AlreadyProcessed, cacheVars, ghostVars, Serial, Running
  <1>2. ASSUME NEW e \in Events, Deliver(e), clean'
        PROVE  Serial'
    <2> DEFINE d == <<e, delivered[e] + 1>>
    <2>1. d \in Deliveries /\ d[1] = e
      BY <1>2 DEF Deliver, TypeOK, Deliveries, BillingAssumption
    <2>2. /\ step' = [step EXCEPT ![d] = FirstStep(e)]
          /\ ledger' = Effect(ledger, e)
          /\ UNCHANGED <<limits, seen>>
      BY <1>2 DEF Deliver, cacheVars
    <2> HIDE DEF d
    <2>3. clean /\ Running = {}
      BY <1>2 DEF Deliver
    <2>4. limits = ledger
      BY <2>3 DEF Serial
    <2>5. FirstStep(e) \in Steps /\ FirstStep(e) # "write"
      BY FirstStepOf
    <2>6. Running' = {d} /\ step'[d] = FirstStep(e)
      BY <1>0, <2>1, <2>2, <2>3, <2>5 DEF Running
    <2>7. QED
      BY <2>1, <2>2, <2>4, <2>5, <2>6 DEF Serial
  <1>3. ASSUME NEW d \in Deliveries, d \in Running, clean,
               NEW s, step' = [step EXCEPT ![d] = s], s \in Steps,
               UNCHANGED <<limits, ledger>>,
               s = "write" => seen'[d] = limits
        PROVE  Serial'
    <2>1. Running' = {d} /\ step'[d] = s
      BY <1>0, <1>3 DEF Running, Serial
    <2>2. ledger = Effect(limits, d[1])
      BY <1>3 DEF Serial
    <2>3. QED
      BY <1>3, <2>1, <2>2 DEF Serial, Effect, ToppedUp, PlanLimits
  <1>4. ASSUME NEW d \in Deliveries, d \in Running, clean,
               step' = [step EXCEPT ![d] = "done"],
               limits' = Effect(limits, d[1]), ledger' = ledger
        PROVE  Serial'
    <2>1. Running' = {}
      BY <1>0, <1>4 DEF Running, Serial, Steps
    <2>2. ledger = Effect(limits, d[1])
      BY <1>4 DEF Serial
    <2>3. QED
      BY <1>4, <2>1, <2>2 DEF Serial
  <1>5. ASSUME NEW d \in Deliveries, MakeCard(d), clean'
        PROVE  Serial'
    <2>1. PICK ok \in BOOLEAN :
            /\ step' = [step EXCEPT ![d] = IF ok THEN AfterCard(step[d]) ELSE "done"]
            /\ clean' = (clean /\ ok)
      BY <1>5 DEF MakeCard, Proceed
    <2>2. clean /\ ok
      BY <1>5, <2>1
    <2>3. step[d] \in Cards /\ UNCHANGED <<limits, ledger>>
      BY <1>5 DEF MakeCard
    <2>4. AfterCard(step[d]) \in Steps /\ AfterCard(step[d]) # "write" /\ d \in Running
      BY <2>3 DEF AfterCard, Steps, Cards, Running
    <2>5. step' = [step EXCEPT ![d] = AfterCard(step[d])]
      BY <2>1, <2>2
    <2>6. QED
      BY <1>3, <2>2, <2>3, <2>4, <2>5
  <1>6. ASSUME NEW d \in Deliveries, NEW l, SetLimits(d, l), clean', d \in Running,
               clean => l = Effect(limits, d[1])
        PROVE  Serial'
    <2>1. PICK carriedOut \in BOOLEAN :
            /\ limits' = IF carriedOut THEN l ELSE limits
            /\ clean' = (clean /\ carriedOut)
      BY <1>6 DEF SetLimits
    <2>2. clean /\ carriedOut
      BY <1>6, <2>1
    <2>3. step' = [step EXCEPT ![d] = "done"] /\ ledger' = ledger
      BY <1>6 DEF SetLimits, Proceed
    <2>4. QED
      BY <1>4, <1>6, <2>1, <2>2, <2>3
  <1>7. ASSUME NEW d \in Deliveries, Sync(d), clean'
        PROVE  Serial'
    <2>1. d \in Running /\ Kind[d[1]] # "topup"
      BY <1>7, TaskSteps DEF Sync, Running, Steps
    <2>2. PlanLimits(d[1]) = Effect(limits, d[1])
      BY <2>1 DEF Effect
    <2>3. QED
      BY <1>6, <1>7, <2>1, <2>2 DEF Sync
  <1>8. ASSUME NEW d \in Deliveries, WriteLimits(d), clean'
        PROVE  Serial'
    <2>1. d \in Running /\ Kind[d[1]] = "topup" /\ step[d] = "write"
      BY <1>8, TaskSteps DEF WriteLimits, Running, Steps
    <2>2. clean => ToppedUp(seen[d], d[1]) = Effect(limits, d[1])
      BY <2>1 DEF Effect, Serial
    <2>3. QED
      BY <1>6, <1>8, <2>1, <2>2 DEF WriteLimits
  <1>9. ASSUME NEW d \in Deliveries, ReadLimits(d), clean'
        PROVE  Serial'
    <2>1. /\ seen' = [seen EXCEPT ![d] = limits]
          /\ step' = [step EXCEPT ![d] = "write"]
          /\ clean' = clean
      BY <1>9 DEF ReadLimits, Proceed
    <2>2. d \in Running /\ "write" \in Steps /\ UNCHANGED <<limits, ledger>> /\ clean
      BY <1>9, <2>1 DEF ReadLimits, Running, Steps, cacheVars
    <2>3. seen'[d] = limits
      BY <1>0, <2>1
    <2>4. QED
      BY <1>3, <2>1, <2>2, <2>3
  <1>10. CASE Crash
    BY <1>10 DEF Crash, Serial
  <1>11. CASE UNCHANGED vars
    BY <1>11 DEF vars, cacheVars, ghostVars, Serial, Running
  <1>12. CASE ~clean'
    BY <1>12 DEF Serial
  <1>13. QED
    BY <1>1, <1>2, <1>5, <1>7, <1>8, <1>9, <1>10, <1>11, <1>12 DEF Next

-----------------------------------------------------------------------------
(* What was paid for                                                       *)

(* The row l is within its plan and what was bought.                       *)
Covered(l, b) == l.vu <= PlanVu[l.plan] + b

(* So are the row and every copy of it that a top-up has read: a copy that *)
(* is old has too little bought in it, never too much.                     *)
Paid == Covered(limits, bought) /\ \A d \in Deliveries : Covered(seen[d], bought)

LEMMA CoveredStays ==
  ASSUME BillingAssumption, NEW l \in Row, NEW b \in Nat, NEW b2 \in Nat, b2 >= b, Covered(l, b)
  PROVE  Covered(l, b2)
  <1>1. PlanVu[l.plan] \in Nat /\ l.vu \in Nat
    BY DEF Row, BillingAssumption
  <1>2. QED
    BY <1>1 DEF Covered

LEMMA SetLimitsPaid ==
  ASSUME BillingAssumption, TypeOK, Paid, NEW d \in Deliveries, NEW l \in Row, SetLimits(d, l),
         Covered(l, bought) \/ (Kind[d[1]] = "topup" /\ Covered(l, bought + Pack * NewPlan[d[1]]))
  PROVE  Paid'
  <1>1. PICK carriedOut \in BOOLEAN :
          /\ limits' = IF carriedOut THEN l ELSE limits
          /\ bought' = IF carriedOut /\ Kind[d[1]] = "topup" THEN bought + Pack * NewPlan[d[1]] ELSE bought
    BY DEF SetLimits
  <1>2. bought \in Nat /\ bought' \in Nat /\ bought' >= bought
    BY BoughtGrows DEF TypeOK
  <1>3. limits \in Row /\ seen \in [Deliveries -> Row]
    BY DEF TypeOK
  <1>4. Covered(limits, bought') /\ \A x \in Deliveries : Covered(seen[x], bought')
    BY <1>2, <1>3, CoveredStays DEF Paid
  <1>5. ASSUME carriedOut
        PROVE  Covered(l, bought')
    <2>1. CASE Covered(l, bought)
      BY <1>2, <2>1, CoveredStays
    <2>2. CASE Kind[d[1]] = "topup" /\ Covered(l, bought + Pack * NewPlan[d[1]])
      BY <1>1, <1>5, <2>2
    <2>3. QED
      BY <2>1, <2>2
  <1>6. seen' = seen
    BY DEF SetLimits
  <1>7. Covered(limits', bought')
    BY <1>1, <1>4, <1>5
  <1>8. QED
    BY <1>4, <1>6, <1>7 DEF Paid

LEMMA PaidKept ==
  ASSUME BillingAssumption, TypeOK, Paid, [Next]_vars
  PROVE  Paid'
  <1>1. ASSUME UNCHANGED <<limits, seen, bought>>
        PROVE  Paid'
    BY <1>1 DEF Paid
  <1>2. limits \in Row /\ seen \in [Deliveries -> Row] /\ bought \in Nat
    BY DEF TypeOK
  <1>3. ASSUME NEW d \in Deliveries, Sync(d)
        PROVE  Paid'
    <2>1. PlanLimits(d[1]) \in Row
      BY <1>3, TaskSteps, EffectTyped, EventOf, <1>2 DEF Sync
    <2>2. PlanLimits(d[1]).vu = PlanVu[PlanLimits(d[1]).plan]
      BY DEF PlanLimits
    <2>3. PlanVu[PlanLimits(d[1]).plan] \in Nat
      BY <2>1 DEF Row, BillingAssumption
    <2>4. Covered(PlanLimits(d[1]), bought)
      BY <1>2, <2>2, <2>3 DEF Covered
    <2>5. QED
      BY <1>3, <2>1, <2>4, SetLimitsPaid DEF Sync
  <1>4. ASSUME NEW d \in Deliveries, WriteLimits(d)
        PROVE  Paid'
    <2> DEFINE l == ToppedUp(seen[d], d[1])
    <2>1. Kind[d[1]] = "topup" /\ d[1] \in Events
      BY <1>4, TaskSteps, EventOf DEF WriteLimits
    <2>2. l \in Row /\ seen[d] \in Row
      BY <1>2, <2>1, EffectTyped
    <2>3. Covered(l, bought + Pack * NewPlan[d[1]])
      <3> DEFINE price == Pack * NewPlan[d[1]]
      <3>1. NewPlan[d[1]] \in Nat /\ Pack \in Nat
        BY <2>1 DEF BillingAssumption
      <3>2. price \in Nat
        BY <3>1
      <3>3. l.plan = seen[d].plan /\ l.vu = seen[d].vu + price
        BY DEF ToppedUp
      <3>4. seen[d].vu <= PlanVu[seen[d].plan] + bought
        BY DEF Paid, Covered
      <3>5. seen[d].vu \in Nat /\ PlanVu[seen[d].plan] \in Nat
        BY <2>2 DEF Row, BillingAssumption
      <3>6. l.vu <= PlanVu[l.plan] + (bought + price)
        <4> HIDE DEF price, l
        <4>1. QED
          BY <1>2, <3>2, <3>3, <3>4, <3>5
      <3>7. QED
        BY <3>6 DEF Covered
    <2>4. SetLimits(d, l)
      BY <1>4 DEF WriteLimits
    <2> HIDE DEF l
    <2>5. QED
      BY <2>1, <2>2, <2>3, <2>4, SetLimitsPaid
  <1>5. ASSUME NEW d \in Deliveries, ReadLimits(d)
        PROVE  Paid'
    <2>1. UNCHANGED <<limits, bought>> /\ seen' \in {seen, [seen EXCEPT ![d] = limits]}
      BY <1>5 DEF ReadLimits, cacheVars
    <2>2. ASSUME NEW x \in Deliveries
          PROVE  seen'[x] \in {seen[x], limits}
      BY <1>2, <2>1
    <2>3. QED
      BY <2>1, <2>2 DEF Paid
  <1>6. ASSUME NEW e \in Events, AlreadyProcessed(e) \/ Deliver(e)
        PROVE  Paid'
    BY <1>1, <1>6 DEF AlreadyProcessed, Deliver, cacheVars, ghostVars
  <1>7. ASSUME NEW d \in Deliveries, MakeCard(d)
        PROVE  Paid'
    BY <1>1, <1>7 DEF MakeCard
  <1>8. CASE Crash
    BY <1>1, <1>8 DEF Crash, cacheVars
  <1>9. CASE UNCHANGED vars
    BY <1>1, <1>9 DEF vars, cacheVars, ghostVars
  <1>10. QED
    BY <1>3, <1>4, <1>5, <1>6, <1>7, <1>8, <1>9 DEF Next

-----------------------------------------------------------------------------
IInv == TypeOK /\ WithinBudget /\ CardsFirst /\ Serial /\ Paid

LEMMA InitIInv ==
  ASSUME BillingAssumption, Init
  PROVE  IInv
  <1>1. Free \in Row
    BY DEF Free, Row, BillingAssumption
  <1>2. Running = {}
    BY DEF Running, Init, Steps
  <1>3. TypeOK
    BY <1>1, <1>2 DEF Init, TypeOK, AllSteps, BillingAssumption
  <1>4. ASSUME NEW e, NEW W \in SUBSET Steps
        PROVE  Waits(e, W, step) = 0
    <2>1. Due(e, W, step) = {}
      BY DEF Due, Init, Steps
    <2>2. QED
      BY <2>1, FS_EmptySet DEF Waits
  <1>5. WithinBudget
    <2> SUFFICES ASSUME NEW e \in Events
                 PROVE  /\ synced[e] + Waits(e, Steps, step) <= BudgetOf(e, processed, forgot)
                        /\ \A c \in Cards :
                             made[e][c] + Waits(e, Upto(c), step) <= BudgetOf(e, processed, forgot)
      BY DEF WithinBudget
    <2>1. synced[e] = 0 /\ BudgetOf(e, processed, forgot) = 0
      BY DEF Init, BudgetOf
    <2>2. \A c \in Cards : made[e][c] = 0 /\ Upto(c) \subseteq Steps
      BY CardOrder DEF Init
    <2>3. QED
      BY <1>4, <2>1, <2>2
  <1>6. CardsFirst
    <2> SUFFICES ASSUME NEW e \in Events, NEW c \in Cards
                 PROVE  synced[e] + Waits(e, Past(c), step) <= made[e][c]
      BY DEF CardsFirst
    <2>1. Waits(e, Past(c), step) = 0
      BY <1>4, CardOrder
    <2>2. QED
      BY <2>1 DEF Init
  <1>7. Serial
    BY <1>2 DEF Serial, Init
  <1>8. Paid
    <2>1. Free.vu = PlanVu[Free.plan] /\ PlanVu[Free.plan] \in Nat
      BY DEF Free, BillingAssumption
    <2>2. Covered(Free, 0)
      BY <2>1 DEF Covered
    <2>3. QED
      BY <2>2 DEF Paid, Init
  <1>9. QED
    BY <1>3, <1>5, <1>6, <1>7, <1>8 DEF IInv

LEMMA BillingInvariant == Spec => []IInv
  <1>1. Init => IInv
    BY InitIInv, BillingAssumption
  <1>2. IInv /\ [Next]_vars => IInv'
    BY NextTyped, CountsKept, SerialKept, PaidKept, BillingAssumption DEF IInv
  <1>3. QED
    BY <1>1, <1>2, PTL DEF Spec

(* However often and however closely Stripe delivers an event, it sets     *)
(* limits and makes each card once, and once more at most for each time    *)
(* its processing was forgotten, by a restart or a full set.               *)
THEOREM BillingReplayNeedsForgetting == Spec => []ReplayNeedsForgetting
  <1>1. IInv => ReplayNeedsForgetting
    <2> SUFFICES ASSUME IInv, NEW e \in Events
                 PROVE  /\ synced[e] <= 1 + forgot
                        /\ \A c \in Cards : made[e][c] <= 1 + forgot
      BY DEF ReplayNeedsForgetting
    <2>1. /\ synced[e] \in Nat /\ \A c \in Cards : made[e][c] \in Nat
          /\ forgot \in Nat
      BY DEF IInv, TypeOK
    <2>2. \A W : Waits(e, W, step) \in Nat
      BY DueFinite, BillingAssumption
    <2>3. BudgetOf(e, processed, forgot) \in Nat /\ BudgetOf(e, processed, forgot) <= 1 + forgot
      BY <2>1 DEF BudgetOf
    <2>4. QED
      BY <2>1, <2>2, <2>3 DEF IInv, WithinBudget
  <1>2. QED
    BY <1>1, BillingInvariant, PTL

(* A checkout raises the limits only after each of its cards was made, as  *)
(* often as it raises them.                                                *)
THEOREM BillingCardsBeforeLimits == Spec => []CardsBeforeLimits
  <1>1. IInv => CardsBeforeLimits
    <2> SUFFICES ASSUME IInv, NEW e \in Events, Kind[e] = "checkout", NEW c \in Cards
                 PROVE  made[e][c] >= synced[e]
      BY DEF CardsBeforeLimits
    <2>1. synced[e] + Waits(e, Past(c), step) <= made[e][c]
      BY DEF IInv, CardsFirst
    <2>2. synced[e] \in Nat /\ made[e][c] \in Nat /\ Waits(e, Past(c), step) \in Nat
      BY DueFinite, BillingAssumption DEF IInv, TypeOK
    <2>3. QED
      BY <2>1, <2>2
  <1>2. QED
    BY <1>1, BillingInvariant, PTL

(* Nobody has VU that were not paid for: however top-ups and plan changes  *)
(* overwrite one another's rows, what a person has beyond the plan was     *)
(* bought by top-ups that went through.                                    *)
THEOREM BillingCreditIsPaidFor == Spec => []CreditIsPaidFor
  <1>1. IInv => CreditIsPaidFor
    BY DEF IInv, Paid, Covered, CreditIsPaidFor
  <1>2. QED
    BY <1>1, BillingInvariant, PTL

(* Without trouble the entitlement row is what the events amount to.       *)
THEOREM BillingSerialExact == Spec => []SerialExact
  <1>1. IInv => SerialExact
    BY DEF IInv, Serial, SerialExact
  <1>2. QED
    BY <1>1, BillingInvariant, PTL
=============================================================================
