------------------------------ MODULE Billing ------------------------------
(***************************************************************************)
(* Stripe's webhooks in Ophan (chorus/ophan/server.py) and the limits they *)
(* set in Mantle (mantle/services/gate_service.py).                        *)
(*                                                                         *)
(* Stripe delivers an event until it is answered, sometimes twice, and in  *)
(* any order.  Every delivery is a task on Chorus's event loop; one action *)
(* is one request to Mantle with what follows up to the next, and such a   *)
(* request may fail before or after Mantle carried it out.                 *)
(***************************************************************************)
EXTENDS Naturals, FiniteSets

CONSTANTS
  Events,         \* Stripe events of one person
  Kind,           \* "checkout", "update" of a subscription, or "topup"
  NewPlan,        \* the plan of a checkout or an update, the packs of a top-up
  PlanVu,         \* vu_limit of _PLAN_LIMITS, by plan
  Pack,           \* VU_TOPUP_PACK_SIZE
  Cap,            \* _PROCESSED_EVENTS_MAX
  MaxDeliveries,  \* bound: deliveries of one event
  MaxCrashes      \* bound: restarts of Chorus

Plans == DOMAIN PlanVu
Cards == {"entitlement", "subscription", "event"}

ASSUME BillingAssumption ==
  /\ IsFiniteSet(Events)
  /\ PlanVu \in [Plans -> Nat]
  /\ "free" \in Plans
  /\ Kind \in [Events -> {"topup", "checkout", "update"}]
  /\ \A e \in Events : NewPlan[e] \in (IF Kind[e] = "topup" THEN Nat ELSE Plans)
  /\ Pack \in Nat /\ Cap \in Nat \ {0} /\ MaxDeliveries \in Nat /\ MaxCrashes \in Nat

VARIABLES
  limits,      \* the person's row in the entitlement cache: a plan's limits and the VU
  made,        \* cards made in the person's inbox, by event
  synced,      \* how often the handling of an event reached set-limits
  processed,   \* _processed_stripe_events
  step,        \* the step each delivery is at
  seen,        \* the limits a top-up has read
  delivered,   \* deliveries begun, by event
  acked,       \* events Stripe got its answer for
  forgot,      \* restarts, and evictions of the processed events
  clean,       \* so far no failure, nothing forgotten, no two tasks at once
  ledger,      \* the limits the events amount to, in the order they came
  bought       \* the VU of the top-ups that reached set-limits

cacheVars == <<limits, made, synced>>
ghostVars == <<clean, ledger, bought>>
vars == <<cacheVars, processed, step, seen, delivered, acked, forgot, ghostVars>>

Deliveries == Events \X (1..MaxDeliveries)
Free == [plan |-> "free", vu |-> PlanVu["free"]]

Steps == {"entitlement", "subscription", "event", "sync", "read", "write"}
Running == {d \in Deliveries : step[d] \in Steps}

(* The first request of an event's handler, and the one after each card.   *)
FirstStep(e) == CASE Kind[e] = "topup" -> "read"
                  [] Kind[e] = "checkout" -> "entitlement"
                  [] Kind[e] = "update" -> "event"
AfterCard(c) == CASE c = "entitlement" -> "subscription"
                  [] c = "subscription" -> "event"
                  [] c = "event" -> "sync"

(* What set-limits writes for a plan, and for a top-up of limits l.        *)
PlanLimits(e) == [plan |-> NewPlan[e], vu |-> PlanVu[NewPlan[e]]]
ToppedUp(l, e) == [plan |-> l.plan, vu |-> l.vu + Pack * NewPlan[e]]
Effect(l, e) == IF Kind[e] = "topup" THEN ToppedUp(l, e) ELSE PlanLimits(e)

Init ==
  /\ limits = Free
  /\ made = [e \in Events |-> [c \in Cards |-> 0]]
  /\ synced = [e \in Events |-> 0]
  /\ processed = {}
  /\ step = [d \in Deliveries |-> "none"]
  /\ seen = [d \in Deliveries |-> Free]
  /\ delivered = [e \in Events |-> 0]
  /\ acked = {}
  /\ forgot = 0
  /\ clean = TRUE
  /\ ledger = Free
  /\ bought = 0

-----------------------------------------------------------------------------
(* A delivery                                                              *)

(* An event that was seen before is answered at once, whatever became of   *)
(* the task that handles it.                                               *)
AlreadyProcessed(e) ==
  /\ delivered[e] < MaxDeliveries
  /\ e \in processed
  /\ delivered' = [delivered EXCEPT ![e] = @ + 1]
  /\ acked' = acked \cup {e}
  /\ UNCHANGED <<cacheVars, processed, step, seen, forgot, ghostVars>>

(* Mutant: the event is noted as processed only by a later handler.        *)
DeliverUnnoted(e) ==
  /\ delivered[e] < MaxDeliveries
  /\ e \notin processed
  /\ clean' = (clean /\ Running = {})
  /\ delivered' = [delivered EXCEPT ![e] = @ + 1]
  /\ step' = [step EXCEPT ![<<e, delivered[e] + 1>>] = FirstStep(e)]
  /\ ledger' = Effect(ledger, e)
  /\ UNCHANGED <<cacheVars, processed, seen, acked, forgot, bought>>

(* The signature is good and the event new: it is noted as processed, for  *)
(* which a full set makes room by forgetting everything, and its handler   *)
(* runs to its first request.                                              *)
Deliver(e) ==
  /\ delivered[e] < MaxDeliveries
  /\ e \notin processed
  /\ LET full == Cardinality(processed) >= Cap IN
       /\ processed' = (IF full THEN {} ELSE processed) \cup {e}
       /\ forgot' = IF full THEN forgot + 1 ELSE forgot
       /\ clean' = (clean /\ ~full /\ Running = {})
  /\ delivered' = [delivered EXCEPT ![e] = @ + 1]
  /\ step' = [step EXCEPT ![<<e, delivered[e] + 1>>] = FirstStep(e)]
  /\ ledger' = Effect(ledger, e)
  /\ UNCHANGED <<cacheVars, seen, acked, bought>>

(* The task goes on to step s, or answers: with 200 whatever happened.     *)
Proceed(d, s) ==
  /\ step' = [step EXCEPT ![d] = s]
  /\ acked' = IF s = "done" THEN acked \cup {d[1]} ELSE acked

(* POST of a card to the person's inbox.  A failure ends the handler.      *)
MakeCard(d) ==
  /\ step[d] \in Cards
  /\ \E carriedOut, ok \in BOOLEAN :
       /\ ok => carriedOut
       /\ made' = IF carriedOut THEN [made EXCEPT ![d[1]][step[d]] = @ + 1] ELSE made
       /\ Proceed(d, IF ok THEN AfterCard(step[d]) ELSE "done")
       /\ clean' = (clean /\ ok)
  /\ UNCHANGED <<limits, synced, processed, seen, delivered, forgot, ledger, bought>>

(* POST /internal/gate/set-limits with limits l.  A failure is logged.     *)
SetLimits(d, l) ==
  /\ \E carriedOut \in BOOLEAN :
       /\ limits' = IF carriedOut THEN l ELSE limits
       /\ synced' = IF carriedOut THEN [synced EXCEPT ![d[1]] = @ + 1] ELSE synced
       /\ bought' = IF carriedOut /\ Kind[d[1]] = "topup"
                    THEN bought + Pack * NewPlan[d[1]] ELSE bought
       /\ clean' = (clean /\ carriedOut)
  /\ Proceed(d, "done")
  /\ UNCHANGED <<made, processed, seen, delivered, forgot, ledger>>

(* _sync_limits_to_core                                                    *)
Sync(d) ==
  /\ step[d] = "sync"
  /\ SetLimits(d, PlanLimits(d[1]))

(* _add_vu_to_core reads the limits ...                                    *)
ReadLimits(d) ==
  /\ step[d] = "read"
  /\ \/ /\ seen' = [seen EXCEPT ![d] = limits]
        /\ Proceed(d, "write")
        /\ UNCHANGED clean
     \/ /\ Proceed(d, "done")
        /\ clean' = FALSE
        /\ UNCHANGED seen
  /\ UNCHANGED <<cacheVars, processed, delivered, forgot, ledger, bought>>

(* Mutant: the write leaves the plan of the row alone.                     *)
WriteVuOnly(d) ==
  /\ step[d] = "write"
  /\ SetLimits(d, [ToppedUp(seen[d], d[1]) EXCEPT !.plan = limits.plan])

(* ... and writes all of them back.                                        *)
WriteLimits(d) ==
  /\ step[d] = "write"
  /\ SetLimits(d, ToppedUp(seen[d], d[1]))

(* Chorus restarts: tasks and processed events are gone.                   *)
Crash ==
  /\ forgot < MaxCrashes
  /\ processed' = {}
  /\ step' = [d \in Deliveries |-> IF d \in Running THEN "lost" ELSE step[d]]
  /\ forgot' = forgot + 1
  /\ clean' = FALSE
  /\ UNCHANGED <<cacheVars, seen, delivered, acked, ledger, bought>>

Next ==
  \/ \E e \in Events : AlreadyProcessed(e) \/ Deliver(e)
  \/ \E d \in Deliveries : MakeCard(d) \/ Sync(d) \/ ReadLimits(d) \/ WriteLimits(d)
  \/ Crash

Spec == Init /\ [][Next]_vars

-----------------------------------------------------------------------------
(* Properties                                                              *)

(* The idempotency of the webhook: however often and however closely an    *)
(* event is delivered, it sets limits and makes each card once, and once   *)
(* more at most for each time the process forgot what it had processed.    *)
ReplayNeedsForgetting ==
  \A e \in Events :
    /\ synced[e] <= 1 + forgot
    /\ \A c \in Cards : made[e][c] <= 1 + forgot

(* No VU that were not paid for: beyond its plan a person never has more   *)
(* than the top-ups that went through, with any races between top-ups and  *)
(* plan changes that read and write the row.                               *)
CreditIsPaidFor == limits.vu <= PlanVu[limits.plan] + bought

(* A checkout raises the limits only after its entitlement, subscription   *)
(* and event cards were made.                                              *)
CardsBeforeLimits ==
  \A e \in Events : Kind[e] = "checkout" =>
    \A c \in Cards : made[e][c] >= synced[e]

(* As long as no request failed, nothing was forgotten and events came one *)
(* after the other, the row is what the events amount to.                  *)
SerialExact == clean /\ Running = {} => limits = ledger
=============================================================================
