-------------------------- MODULE RestaurantOrder --------------------------
(***************************************************************************)
(* The orders one stay places with one restaurant: cart, invoice, capture, *)
(* kitchen, refund and the hand-off at checkout, with the worker that asks *)
(* the payment provider about a bounded number of orders per pass.         *)
(*                                                                         *)
(* Every command locks the order (and room, stay and link before it where  *)
(* it needs them) and is one transaction, hence one step.  The provider    *)
(* keeps what it was told when that transaction rolls back.  Opening hours,*)
(* menu and restaurant accounts are read where they are used and may have  *)
(* any value there.                                                        *)
(***************************************************************************)
EXTENDS Naturals, FiniteSets, SequencesExt

CONSTANTS
    Orders,      \* restaurant_order_record: the orders that may be placed
    Broken,      \* orders whose provider never answers
    TickLimit    \* orders the worker checks per pass

ASSUME RestaurantAssumption ==
    /\ Broken \subseteq Orders
    /\ TickLimit \in Nat \ {0}

Delivered == {"DELIVERED_TO_ROOM", "HANDED_TO_RECEPTION", "PICKED_UP_BY_GUEST"}
MealOver == Delivered \cup {"CANCELLED"}
Kitchen == {"AWAITING_ACCEPTANCE", "ACCEPTED", "PREPARING", "READY", "OUT_FOR_DELIVERY"}

\* What a record of an order can say; payment "NONE" before the order is
\* placed and "INTENT" while it has no invoice, hence no state.
OrderStates ==
    [order : {"PENDING_PAYMENT", "CONFIRMED", "CANCELLED", "COMPLETED"},
     fulfillment : {"NOT_STARTED"} \cup Kitchen \cup MealOver,
     payment : {"NONE", "INTENT", "PENDING", "EXPIRED", "PAID"},
     policy : {"NONE", "MANDATORY", "DISCRETIONARY"},
     request : {"NONE", "OPEN", "APPROVED", "REJECTED", "RESOLVED"},
     refund : {"NONE", "PENDING", "FAILED", "REFUNDED"},
     handoff : {"ROOM", "RECEPTION", "GUEST_PICKUP", "REFUND_REQUEST"}]

VARIABLES
    order,         \* restaurant_order_record.state
    late,          \* the deadline that runs for the order has passed
    mealInvoice,   \* the provider's invoice of the order
    mealRefund,    \* the provider's refund of the order
    link,          \* hotel_restaurant.active
    diner,         \* the stay: ordering, leaving (checkout initiated) or gone
    cursor,        \* restaurant_worker_cursor: orders by their last check
    picked         \* the candidates of the worker's current pass

provider == <<mealInvoice, mealRefund>>
worker == <<cursor, picked>>
restaurantVars == <<order, late, provider, link, diner, worker>>

RestaurantTypeOK ==
    /\ order \in [Orders -> OrderStates]
    /\ late \in [Orders -> BOOLEAN]
    /\ mealInvoice \in [Orders -> {"none", "PENDING", "SUCCEEDED"}]
    /\ mealRefund \in [Orders -> {"none", "PENDING", "FINAL_FAILED", "SUCCEEDED"}]
    /\ link \in BOOLEAN
    /\ diner \in {"ordering", "leaving", "gone"}
    /\ {ToSet(cursor), ToSet(picked)} \subseteq SUBSET Orders
    /\ IsInjective(cursor)
    /\ Len(picked) <= TickLimit

NewOrder == [order |-> "PENDING_PAYMENT", fulfillment |-> "NOT_STARTED", payment |-> "NONE",
             policy |-> "NONE", request |-> "NONE", refund |-> "NONE", handoff |-> "ROOM"]

RestaurantInit ==
    /\ order = [o \in Orders |-> NewOrder]
    /\ late = [o \in Orders |-> FALSE]
    /\ mealInvoice = [o \in Orders |-> "none"]
    /\ mealRefund = [o \in Orders |-> "none"]
    /\ link = TRUE
    /\ diner = "ordering"
    /\ cursor = <<>>
    /\ picked = <<>>

-----------------------------------------------------------------------------
(* Decisions on a record (restaurant_policy.Order).                        *)

\* A refund nobody may refuse; a delivery that took place stays on record.
Mandatory(r) ==
    [r EXCEPT !.order = IF r.fulfillment \in Delivered THEN @ ELSE "CANCELLED",
              !.fulfillment = IF r.fulfillment \in Delivered THEN @ ELSE "CANCELLED",
              !.policy = "MANDATORY", !.request = "APPROVED"]

Expired(r) ==
    IF r.payment = "PENDING"
    THEN [r EXCEPT !.order = "CANCELLED", !.fulfillment = "CANCELLED", !.payment = "EXPIRED"]
    ELSE r

\* Mutant: a payment within the time confirms an order that was cancelled.
CapturedAnyway(r, tooLate, eligible) ==
    IF r.payment = "PAID" THEN r
    ELSE IF tooLate \/ ~eligible THEN Mandatory([r EXCEPT !.payment = "PAID"])
    ELSE [r EXCEPT !.payment = "PAID", !.order = "CONFIRMED", !.fulfillment = "AWAITING_ACCEPTANCE"]

CapturedMeal(r, tooLate, eligible) ==
    IF r.payment = "PAID" THEN r
    ELSE IF tooLate \/ ~eligible \/ r.order = "CANCELLED" THEN Mandatory([r EXCEPT !.payment = "PAID"])
    ELSE [r EXCEPT !.payment = "PAID", !.order = "CONFIRMED", !.fulfillment = "AWAITING_ACCEPTANCE"]

\* The guest may not ask before the deadline, except at checkout once accepted.
MayRequestRefund(r, overdue, atCheckout) ==
    /\ r.payment = "PAID" /\ r.request = "NONE" /\ r.fulfillment # "CANCELLED"
    /\ r.fulfillment = "AWAITING_ACCEPTANCE" => overdue
    /\ r.fulfillment # "AWAITING_ACCEPTANCE" /\ ~atCheckout => overdue /\ r.fulfillment \notin MealOver

RefundRequested(r) ==
    IF r.fulfillment = "AWAITING_ACCEPTANCE" THEN Mandatory(r)
    ELSE [r EXCEPT !.policy = "DISCRETIONARY", !.request = "OPEN"]

\* The stages a stage may be followed by.
NextStages(stage) ==
    CASE stage = "ACCEPTED" -> {"PREPARING"}
      [] stage = "PREPARING" -> {"READY"}
      [] stage = "READY" -> {"OUT_FOR_DELIVERY", "HANDED_TO_RECEPTION", "PICKED_UP_BY_GUEST"}
      [] stage = "OUT_FOR_DELIVERY" -> Delivered
      [] OTHER -> {}

\* Where the guest wants the meal decides where it may be delivered.
HandoffAllows(r, target) ==
    CASE target = "DELIVERED_TO_ROOM" -> r.handoff = "ROOM"
      [] target = "HANDED_TO_RECEPTION" -> r.handoff = "RECEPTION"
      [] target = "PICKED_UP_BY_GUEST" -> r.handoff = "GUEST_PICKUP"
      [] OTHER -> TRUE

-----------------------------------------------------------------------------
(* The environment.                                                        *)

\* The invoice expires; 10 minutes pass without acceptance, 15 after the time
\* promised, or 30 after a refund was requested: whichever deadline runs.
DeadlinePasses(o) ==
    /\ order[o].payment # "NONE" /\ ~late[o]
    /\ late' = [late EXCEPT ![o] = TRUE]
    /\ UNCHANGED <<order, provider, link, diner, worker>>

GuestPays(o) ==
    /\ mealInvoice[o] = "PENDING"
    /\ mealInvoice' = [mealInvoice EXCEPT ![o] = "SUCCEEDED"]
    /\ UNCHANGED <<order, late, mealRefund, link, diner, worker>>

\* A final failure may be followed by a late success.
ProviderDecides(o) ==
    /\ mealRefund[o] \in {"PENDING", "FINAL_FAILED"}
    /\ \E state \in {"FINAL_FAILED", "SUCCEEDED"} \ {mealRefund[o]} :
          mealRefund' = [mealRefund EXCEPT ![o] = state]
    /\ UNCHANGED <<order, late, mealInvoice, link, diner, worker>>

-----------------------------------------------------------------------------
(* Guest, reception and restaurant.                                        *)

\* An unresolved refund request of 30 minutes stops new orders and invoices.
LinkPaused == \E o \in Orders : order[o].request \in {"OPEN", "APPROVED"} /\ late[o]

TakesOrders == link /\ ~LinkPaused /\ diner = "ordering"

CreateOrder(o) ==
    /\ TakesOrders /\ order[o].payment = "NONE"
    /\ order' = [order EXCEPT ![o].payment = "INTENT"]
    /\ UNCHANGED <<late, provider, link, diner, worker>>

AskInvoice(o) ==
    mealInvoice' = [mealInvoice EXCEPT ![o] = IF @ = "none" THEN "PENDING" ELSE @]

InvoiceOrder(o) ==
    /\ TakesOrders /\ order[o].payment = "INTENT" /\ ~late[o]
    /\ o \notin Broken
    /\ AskInvoice(o)
    /\ \/ order' = [order EXCEPT ![o].payment = "PENDING"]
       \/ UNCHANGED order  \* rolled back after the provider was told
    /\ UNCHANGED <<late, mealRefund, link, diner, worker>>

\* The record changes; the deadline that ran before no longer does.
Decide(o, r) ==
    /\ order' = [order EXCEPT ![o] = r]
    /\ late' = [late EXCEPT ![o] = FALSE]

RequestRefund(o) ==
    /\ MayRequestRefund(order[o], late[o], FALSE)
    /\ Decide(o, RefundRequested(order[o]))
    /\ UNCHANGED <<provider, link, diner, worker>>

Accept(o) ==
    /\ order[o].order = "CONFIRMED" /\ order[o].fulfillment = "AWAITING_ACCEPTANCE"
    /\ Decide(o, [order[o] EXCEPT !.fulfillment = "ACCEPTED"])
    /\ UNCHANGED <<provider, link, diner, worker>>

Fulfill(o, target) ==
    /\ order[o].order = "CONFIRMED"
    /\ target \in NextStages(order[o].fulfillment)
    /\ HandoffAllows(order[o], target)
    /\ order' = [order EXCEPT ![o].fulfillment = target,
                              ![o].order = IF target \in Delivered THEN "COMPLETED" ELSE @]
    /\ UNCHANGED <<late, provider, link, diner, worker>>

CannotFulfill(o) ==
    /\ order[o].payment = "PAID" /\ order[o].fulfillment \notin MealOver
    /\ order[o].request \in {"NONE", "OPEN", "REJECTED"}
    /\ Decide(o, Mandatory(order[o]))
    /\ UNCHANGED <<provider, link, diner, worker>>

DecideRefund(o, approve) ==
    /\ order[o].policy = "DISCRETIONARY" /\ order[o].request = "OPEN"
    /\ order' = [order EXCEPT ![o] =
                    IF approve THEN [Mandatory(@) EXCEPT !.policy = "DISCRETIONARY"]
                    ELSE [@ EXCEPT !.request = "REJECTED"]]
    /\ UNCHANGED <<late, provider, link, diner, worker>>

\* Mutant: a refund is begun while the request is still open.
MayBeginUndecided(r) == r.request \in {"OPEN", "APPROVED"} /\ r.refund \in {"NONE", "FAILED"}

MayBeginRefund(r) == r.request = "APPROVED" /\ r.refund \in {"NONE", "FAILED"}

BeginRefund(o) ==
    /\ MayBeginRefund(order[o])
    /\ order' = [order EXCEPT ![o].refund = "PENDING"]
    /\ UNCHANGED <<late, provider, link, diner, worker>>

\* Disabling the link cancels what is not paid yet.
SetLink ==
    /\ link' = ~link
    /\ order' = IF link THEN [o \in Orders |-> Expired(order[o])] ELSE order
    /\ UNCHANGED <<late, provider, diner, worker>>

-----------------------------------------------------------------------------
(* What the provider says of an order.                                     *)

\* Mutant: the stay that ordered is not looked at.
MealEligibleAnyStay == link

MealEligible == link /\ diner # "gone"

\* payment_state: capture, expire or leave; restaurant, menu and hours may
\* be against the order.
PaymentState(o, r, closed, withdrawn) ==
    IF mealInvoice[o] = "SUCCEEDED"
    THEN CapturedMeal(r, late[o] \/ closed, MealEligible /\ ~withdrawn)
    ELSE IF late[o] THEN Expired(r) ELSE r

\* refund_state: the evidence read after the refund was sent.
RefundState(r, evidence) ==
    IF r.refund \notin {"PENDING", "FAILED"} THEN r
    ELSE CASE evidence = "SUCCEEDED" -> [r EXCEPT !.refund = "REFUNDED", !.request = "RESOLVED"]
           [] evidence = "FINAL_FAILED" -> [r EXCEPT !.refund = "FAILED"]
           [] OTHER -> r

SentRefund(o) == IF mealRefund[o] = "none" THEN "PENDING" ELSE mealRefund[o]

\* The deadline of the invoice ends with the capture.
RecordPayment(o, r) ==
    /\ order' = [order EXCEPT ![o] = r]
    /\ late' = [late EXCEPT ![o] = @ /\ (r.payment = "PAID" => order[o].payment = "PAID")]

\* RECONCILE_PAYMENT of an order that has an invoice.
ReconcilePayment(o) ==
    /\ o \notin Broken /\ order[o].payment \in {"PENDING", "EXPIRED"}
    /\ \E closed, withdrawn \in BOOLEAN :
          RecordPayment(o, PaymentState(o, order[o], closed, withdrawn))
    /\ UNCHANGED <<provider, link, diner, worker>>

\* RECONCILE_REFUND; the second disjunct is its rollback.
ReconcileRefund(o) ==
    /\ o \notin Broken /\ order[o].refund \in {"PENDING", "FAILED"}
    /\ mealRefund' = [mealRefund EXCEPT ![o] = SentRefund(o)]
    /\ \/ order' = [order EXCEPT ![o] = RefundState(@, SentRefund(o))]
       \/ UNCHANGED order
    /\ UNCHANGED <<late, mealInvoice, link, diner, worker>>

-----------------------------------------------------------------------------
(* The worker.                                                             *)

\* Orders about which the provider may have news.
Watched ==
    {o \in Orders :
        /\ order[o].payment # "NONE"
        /\ \/ order[o].payment # "PAID" \/ order[o].fulfillment \notin MealOver
           \/ order[o].request \in {"OPEN", "APPROVED"}}

\* checked_at of the cursor's row, as a rank; 0 is NULL.
LastCheck(o) == IF o \in ToSet(cursor) THEN CHOOSE i \in DOMAIN cursor : cursor[i] = o ELSE 0

\* Least recently checked first, the ones never checked before all others; a pass
\* with room left takes every watched order.
LeastRecent(orders) ==
    /\ IsInjective(orders)
    /\ \A i, j \in DOMAIN orders : i < j => LastCheck(orders[i]) <= LastCheck(orders[j])
    /\ \A o \in Watched \ ToSet(orders) :
          Len(orders) = TickLimit /\ \A i \in DOMAIN orders : LastCheck(orders[i]) <= LastCheck(o)

TickSelect ==
    /\ picked = <<>> /\ Watched # {}
    /\ \E n \in 1 .. TickLimit : \E orders \in [1 .. n -> Watched] :
          LeastRecent(orders) /\ picked' = orders
    /\ UNCHANGED <<order, late, provider, link, diner, cursor>>

\* An order has one row, so one place to lose.
Unlisted(o) == IF LastCheck(o) = 0 THEN cursor ELSE RemoveAt(cursor, LastCheck(o))

\* Mutant: an order that failed keeps its place.
MoveBackIfChecked(o, checked) == IF checked THEN Append(Unlisted(o), o) ELSE cursor

MoveBack(o, checked) == Append(Unlisted(o), o)

NextPicked(o, checked) == cursor' = MoveBack(o, checked) /\ picked' = Tail(picked)

\* An invoice whose transaction was lost is found again by the order's name.
Recovered(r) == IF r.payment = "INTENT" THEN [r EXCEPT !.payment = "PENDING"] ELSE r

TickChecks(o) ==
    /\ picked # <<>> /\ o = Head(picked)
    /\ o \notin Broken /\ mealInvoice[o] # "none"
    /\ \E closed, withdrawn \in BOOLEAN :
          LET paid == PaymentState(o, Recovered(order[o]), closed, withdrawn)
              refunding == paid.refund \in {"PENDING", "FAILED"}
          IN /\ RecordPayment(o, IF refunding THEN RefundState(paid, SentRefund(o)) ELSE paid)
             /\ mealRefund' = IF refunding THEN [mealRefund EXCEPT ![o] = SentRefund(o)] ELSE mealRefund
    /\ NextPicked(o, TRUE)
    /\ UNCHANGED <<mealInvoice, link, diner>>

\* No invoice, no answer or a refused transaction: the order is tried later.
TickRetries(o) ==
    /\ picked # <<>> /\ o = Head(picked)
    /\ mealRefund' \in {mealRefund, IF o \notin Broken /\ order[o].refund \in {"PENDING", "FAILED"}
                                    THEN [mealRefund EXCEPT ![o] = SentRefund(o)] ELSE mealRefund}
    /\ NextPicked(o, FALSE)
    /\ UNCHANGED <<order, late, mealInvoice, link, diner>>

-----------------------------------------------------------------------------
(* Checkout.                                                               *)

InitiateCheckout ==
    /\ diner = "ordering"
    /\ diner' = "leaving"
    /\ UNCHANGED <<order, late, provider, link, worker>>

\* The paid orders that are not over; each gets a choice.
OpenMeals == {o \in Orders : order[o].payment = "PAID" /\ order[o].fulfillment \notin MealOver}

HandedOff(o, mode) ==
    LET r == [order[o] EXCEPT !.handoff = mode]
    IN IF mode = "REFUND_REQUEST" THEN RefundRequested(r) ELSE r

CheckoutMeals ==
    /\ diner # "gone"
    /\ \E choice \in [OpenMeals -> {"RECEPTION", "GUEST_PICKUP", "REFUND_REQUEST"}] :
          /\ \A o \in OpenMeals : choice[o] = "REFUND_REQUEST" => MayRequestRefund(order[o], late[o], TRUE)
          /\ order' = [o \in Orders |-> IF o \in OpenMeals THEN HandedOff(o, choice[o]) ELSE order[o]]
          /\ late' = [o \in Orders |-> late[o] /\ ~(o \in OpenMeals /\ choice[o] = "REFUND_REQUEST")]
    /\ diner' = "gone"
    /\ UNCHANGED <<provider, link, worker>>

-----------------------------------------------------------------------------
RestaurantNext ==
    \/ \E o \in Orders :
          \/ DeadlinePasses(o) \/ GuestPays(o) \/ ProviderDecides(o)
          \/ CreateOrder(o) \/ InvoiceOrder(o) \/ RequestRefund(o)
          \/ Accept(o) \/ CannotFulfill(o) \/ BeginRefund(o)
          \/ ReconcilePayment(o) \/ ReconcileRefund(o)
          \/ TickChecks(o) \/ TickRetries(o)
    \/ \E o \in Orders, stage \in Kitchen \cup Delivered : Fulfill(o, stage)
    \/ \E o \in Orders, approve \in BOOLEAN : DecideRefund(o, approve)
    \/ SetLink \/ InitiateCheckout \/ CheckoutMeals \/ TickSelect

\* The worker is run again and again, and a provider that answers at all
\* answers in the end.
RestaurantFairness ==
    /\ WF_restaurantVars(TickSelect)
    /\ \A o \in Orders : WF_restaurantVars(TickChecks(o) \/ TickRetries(o))
    /\ \A o \in Orders \ Broken : SF_restaurantVars(TickChecks(o))

RestaurantSpec == RestaurantInit /\ [][RestaurantNext]_restaurantVars /\ RestaurantFairness

-----------------------------------------------------------------------------
(* Properties.                                                             *)

\* docs/08: a paid order that is not going to be served is refunded, however
\* its payment, its expiry, the link and the checkout raced; and a refund is
\* sent only for a request that was approved and stays so.
PaidIsServedOrRefunded ==
    \A o \in Orders :
        /\ order[o].payment = "PAID" /\ order[o].order = "CANCELLED"
              => order[o].request \in {"APPROVED", "RESOLVED"}
        /\ mealRefund[o] # "none" => order[o].request \in {"APPROVED", "RESOLVED"}

\* A guest who has left gets no meal to the room: every order the kitchen
\* still has was handed off at checkout, and none is confirmed afterwards.
NoMealForEmptyRoom ==
    diner = "gone" =>
        \A o \in Orders : order[o].order = "CONFIRMED" => order[o].handoff # "ROOM"

\* Of the guests who paid, those in the house are served and the others refunded.
MealsReachWhoPaid == PaidIsServedOrRefunded /\ NoMealForEmptyRoom

\* The kitchen never gets back an order that was cancelled or delivered: the
\* trigger guard_restaurant_order_record is never what stops a capture.
MealOverIsFinal ==
    [][\A o \in Orders : order[o].fulfillment \in MealOver
          => order'[o].fulfillment = order[o].fulfillment]_restaurantVars

\* Every payment the provider took is found by the worker in the end, also of
\* an order whose invoice was never committed, of one that expired, and beside
\* orders that keep failing.
\* (A captured invoice and a paid order stay so: []<> says the same as ~>.)
PaidMealIsCaptured ==
    []<>(\A o \in Orders \ Broken : mealInvoice[o] = "SUCCEEDED" => order[o].payment = "PAID")
=============================================================================
