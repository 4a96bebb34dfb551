--------------------------- MODULE ServicesProofs ---------------------------
(***************************************************************************)
(* Proofs about the services beside a stay, for any number of orders,      *)
(* renewals, letters and workers: the meals, the renewal of a subscription,*)
(* staff mail and reminders, each about its own specification; at the end  *)
(* they and the opening of the hotel (OnboardingProofs) are put together   *)
(* for the state space that holds all five side by side.                   *)
(***************************************************************************)
EXTENDS MCServices, OnboardingProofs, FiniteSums

-----------------------------------------------------------------------------
(***************************************************************************)
(* Meals. The decisions of restaurant_policy take a record from one        *)
(* orderly state to another (Follows), whatever the worker remembers of    *)
(* it; NoMealForEmptyRoom and MealsReachWhoPaid rest on what those states  *)
(* say of the payment and of the request for a refund.                     *)
(***************************************************************************)

GrantedRequests == {"APPROVED", "RESOLVED"}

\* Before the payment nothing reached the kitchen; what the kitchen has is paid;
\* what is paid and cancelled, or already being refunded, was approved.
OrderFits(r) ==
    /\ r.payment # "PAID" => /\ r.order \in {"PENDING_PAYMENT", "CANCELLED"}
                             /\ r.fulfillment \in {"NOT_STARTED", "CANCELLED"}
                             /\ r.fulfillment = "CANCELLED" <=> r.order = "CANCELLED"
                             /\ r.request = "NONE"
    /\ r.order = "CONFIRMED" => r.payment = "PAID" /\ r.fulfillment \in Kitchen
    /\ r.payment = "PAID" /\ r.order = "CANCELLED" => r.request \in GrantedRequests
    /\ r.refund # "NONE" => r.request \in GrantedRequests

\* The types of the records; CursorInv has the worker's cursor.
MealRecords ==
    /\ order \in [Orders -> OrderStates]
    /\ late \in [Orders -> BOOLEAN]
    /\ mealInvoice \in [Orders -> {"none", "PENDING", "SUCCEEDED"}]
    /\ mealRefund \in [Orders -> {"none", "PENDING", "FINAL_FAILED", "SUCCEEDED"}]
    /\ link \in BOOLEAN
    /\ diner \in {"ordering", "leaving", "gone"}

MealInv ==
    /\ MealRecords
    /\ \A o \in Orders : OrderFits(order[o])
    /\ \A o \in Orders : mealRefund[o] # "none" => order[o].request \in GrantedRequests
    /\ NoMealForEmptyRoom

\* What may become of one record: an approved request stays approved, a meal that is
\* over stays so, and the kitchen gets a new meal only while the guest is in the house.
Follows(r, s) ==
    /\ s \in OrderStates /\ OrderFits(s)
    /\ r.request \in GrantedRequests => s.request \in GrantedRequests
    /\ r.fulfillment \in MealOver => s.fulfillment = r.fulfillment
    /\ s.handoff = r.handoff
    /\ s.order = "CONFIRMED" /\ diner = "gone" => r.order = "CONFIRMED"

\* Nothing is ordered, paid or refunded in the beginning.
LEMMA InitMealInv == RestaurantInit => MealInv
  BY DEF RestaurantInit, MealInv, MealRecords, NewOrder, OrderStates, OrderFits, NoMealForEmptyRoom,
         GrantedRequests, Kitchen

-----------------------------------------------------------------------------
\* The decisions of restaurant_policy keep a record in order.
LEMMA RowStays == ASSUME NEW r \in OrderStates, OrderFits(r) PROVE Follows(r, r)
  BY DEF Follows

\* A refund that is due in any case cancels what was not delivered.
LEMMA MandatoryFollows ==
    ASSUME NEW r \in OrderStates, OrderFits(r), NEW s, s = Mandatory(r),
           r.payment = "PAID"
    PROVE  Follows(r, s) /\ s.order # "CONFIRMED" /\ s.request = "APPROVED"
<1>1. s \in OrderStates /\ s.order # "CONFIRMED" /\ s.request = "APPROVED" /\ s.handoff = r.handoff
  <2>1. CASE r.fulfillment \in Delivered
    <3>1. s = [r EXCEPT !.policy = "MANDATORY", !.request = "APPROVED"]
      BY <2>1 DEF Mandatory, OrderStates
    <3>2. r.order # "CONFIRMED"
      BY <2>1 DEF OrderFits, Delivered, Kitchen
    <3> QED
      BY <3>1, <3>2 DEF OrderStates
  <2>2. CASE r.fulfillment \notin Delivered
    <3>1. s = [r EXCEPT !.order = "CANCELLED", !.fulfillment = "CANCELLED",
                        !.policy = "MANDATORY", !.request = "APPROVED"]
      BY <2>2 DEF Mandatory
    <3> QED
      BY <3>1 DEF OrderStates, MealOver
  <2> QED
    BY <2>1, <2>2
<1>2. OrderFits(s)
  BY DEF OrderStates, Mandatory, OrderFits, Delivered, MealOver, Kitchen, GrantedRequests
<1>3. r.fulfillment \in MealOver => s.fulfillment = r.fulfillment
  BY DEF OrderStates, Mandatory, Delivered, MealOver
<1> QED
  BY <1>1, <1>2, <1>3 DEF Follows, GrantedRequests

\* An order that was not paid in time is cancelled.
LEMMA ExpiredFollows ==
    ASSUME NEW r \in OrderStates, OrderFits(r), NEW s, s = Expired(r)
    PROVE  Follows(r, s) /\ s.request = r.request /\ s.refund = r.refund
<1>1. CASE r.payment # "PENDING"
  BY <1>1, RowStays DEF Expired
<1>2. CASE r.payment = "PENDING"
  <2>1. s = [r EXCEPT !.order = "CANCELLED", !.fulfillment = "CANCELLED", !.payment = "EXPIRED"]
    BY <1>2 DEF Expired
  <2>2. s \in OrderStates /\ s.request = r.request /\ s.refund = r.refund /\ s.order = "CANCELLED"
        /\ r.request = "NONE" /\ r.refund = "NONE" /\ s.handoff = r.handoff /\ s.fulfillment = "CANCELLED" /\ s.payment = "EXPIRED"
    BY <1>2, <2>1 DEF OrderStates, MealOver, OrderFits, GrantedRequests
  <2>3. OrderFits(s)
    BY <2>2 DEF OrderFits
  <2> QED
    BY <1>2, <2>2, <2>3 DEF Follows, OrderFits, MealOver, Delivered
<1> QED
  BY <1>1, <1>2

\* A captured order goes to the kitchen, or its refund is due.
LEMMA CapturedFollows ==
    ASSUME NEW r \in OrderStates, OrderFits(r), NEW tooLate \in BOOLEAN, NEW eligible \in BOOLEAN,
           eligible => diner # "gone", NEW s, s = CapturedMeal(r, tooLate, eligible)
    PROVE  Follows(r, s)
<1>1. CASE r.payment = "PAID"
  BY <1>1, RowStays DEF CapturedMeal
<1>2. CASE r.payment # "PAID" /\ (tooLate \/ ~eligible \/ r.order = "CANCELLED")
  <2>1. s = Mandatory([r EXCEPT !.payment = "PAID"])
    BY <1>2 DEF CapturedMeal
  <2>2. s \in OrderStates /\ s.order = "CANCELLED" /\ s.fulfillment = "CANCELLED" /\ s.request = "APPROVED"
        /\ s.handoff = r.handoff /\ s.payment = "PAID"
    BY <1>2, <2>1 DEF Mandatory, OrderStates, OrderFits, Delivered, MealOver
  <2> QED
    BY <1>2, <2>2 DEF Follows, OrderFits, GrantedRequests, Kitchen, Delivered, MealOver
<1>3. CASE r.payment # "PAID" /\ ~(tooLate \/ ~eligible \/ r.order = "CANCELLED")
  <2>1. s = [r EXCEPT !.payment = "PAID", !.order = "CONFIRMED", !.fulfillment = "AWAITING_ACCEPTANCE"]
    BY <1>3 DEF CapturedMeal
  <2>2. /\ s \in OrderStates /\ s.payment = "PAID" /\ s.order = "CONFIRMED"
        /\ s.fulfillment = "AWAITING_ACCEPTANCE"
        /\ s.request = r.request /\ s.refund = r.refund /\ s.handoff = r.handoff
    BY <2>1 DEF OrderStates, Kitchen
  <2>3. r.fulfillment \notin MealOver
    BY <1>3 DEF OrderFits, OrderStates, MealOver, Delivered
  <2> QED
    BY <1>3, <2>2, <2>3 DEF Follows, OrderFits, GrantedRequests, Kitchen
<1> QED
  BY <1>1, <1>2, <1>3

\* The guest asks for a refund.
LEMMA RequestedFollows ==
    ASSUME NEW r \in OrderStates, OrderFits(r), r.payment = "PAID", r.request = "NONE", NEW s, s = RefundRequested(r)
    PROVE  Follows(r, s)
<1>1. CASE r.fulfillment = "AWAITING_ACCEPTANCE"
  BY <1>1, MandatoryFollows DEF RefundRequested
<1>2. CASE r.fulfillment # "AWAITING_ACCEPTANCE"
  <2>1. s = [r EXCEPT !.policy = "DISCRETIONARY", !.request = "OPEN"]
    BY <1>2 DEF RefundRequested
  <2>2. /\ s \in OrderStates /\ s.payment = r.payment /\ s.order = r.order /\ s.request = "OPEN"
        /\ s.fulfillment = r.fulfillment /\ s.refund = r.refund /\ s.handoff = r.handoff
    BY <2>1 DEF OrderStates
  <2> QED
    BY <2>2 DEF Follows, OrderFits, GrantedRequests
<1> QED
  BY <1>1, <1>2

\* The refund moves on with the evidence of the provider.
LEMMA RefundFollows ==
    ASSUME NEW r \in OrderStates, OrderFits(r), NEW evidence, NEW s, s = RefundState(r, evidence)
    PROVE  Follows(r, s)
<1>1. /\ s \in OrderStates /\ s.payment = r.payment /\ s.order = r.order
      /\ s.request \in {r.request, "RESOLVED"} /\ s.fulfillment = r.fulfillment /\ s.handoff = r.handoff
      /\ s.refund # r.refund => r.refund # "NONE"
      /\ s.request # r.request => r.refund # "NONE"
  <2> DEFINE done == [r EXCEPT !.refund = "REFUNDED", !.request = "RESOLVED"]
             failed == [r EXCEPT !.refund = "FAILED"]
  <2>4. done \in OrderStates
    BY DEF OrderStates
  <2>5. /\ done.request = "RESOLVED" /\ done.payment = r.payment /\ done.order = r.order
        /\ done.fulfillment = r.fulfillment /\ done.handoff = r.handoff
    BY DEF OrderStates
  <2>1. /\ done \in OrderStates /\ done.request = "RESOLVED"
        /\ done.payment = r.payment /\ done.order = r.order
        /\ done.fulfillment = r.fulfillment /\ done.handoff = r.handoff
    BY <2>4, <2>5
  <2>2. /\ failed \in OrderStates /\ failed.request = r.request
        /\ failed.payment = r.payment /\ failed.order = r.order
        /\ failed.fulfillment = r.fulfillment /\ failed.handoff = r.handoff
    BY DEF OrderStates
  <2>3. s = r \/ (r.refund # "NONE" /\ (s = done \/ s = failed))
    BY DEF RefundState
  <2> HIDE DEF done, failed
  <2> QED
    BY <2>1, <2>2, <2>3
<1> QED
  BY <1>1 DEF Follows, OrderFits, GrantedRequests

\* Two decisions in one transaction.
LEMMA FollowsAgain ==
    ASSUME NEW r \in OrderStates, NEW s, NEW t, Follows(r, s), Follows(s, t) PROVE Follows(r, t)
  BY DEF Follows

-----------------------------------------------------------------------------
(* The steps.                                                              *)

\* What every step does: rows follow, refunds are sent for approved requests only, and
\* a meal in the kitchen has its hand-off once the guest is gone.
RowsFollow ==
    /\ MealRecords'
    /\ \A o \in Orders : Follows(order[o], order'[o])
    /\ \A o \in Orders : mealRefund'[o] = mealRefund[o] \/ order'[o].request \in GrantedRequests
    /\ diner' = "gone" => diner = "gone"

\* Rows that follow keep the invariant.
LEMMA RowsFollowStep == ASSUME MealInv, RowsFollow PROVE MealInv'
<1>1. MealRecords' /\ \A o \in Orders : OrderFits(order'[o])
  BY DEF RowsFollow, Follows
<1>2. \A o \in Orders : mealRefund'[o] # "none" => order'[o].request \in GrantedRequests
  BY DEF MealInv, RowsFollow, Follows
<1>3. NoMealForEmptyRoom'
  BY DEF MealInv, RowsFollow, Follows, NoMealForEmptyRoom
<1> QED
  BY <1>1, <1>2, <1>3 DEF MealInv

\* One order changes, and the provider is told at most about its refund.
LEMMA OneOrderChanges ==
    ASSUME MealInv, NEW o \in Orders, NEW s, Follows(order[o], s),
           order' = [order EXCEPT ![o] = s],
           late' \in [Orders -> BOOLEAN],
           mealInvoice' \in [Orders -> {"none", "PENDING", "SUCCEEDED"}],
           mealRefund' \in [Orders -> {"none", "PENDING", "FINAL_FAILED", "SUCCEEDED"}],
           \A p \in Orders \ {o} : mealRefund'[p] = mealRefund[p],
           mealRefund'[o] = mealRefund[o] \/ s.request \in GrantedRequests,
           link' = link, diner' \in {"ordering", "leaving", "gone"}, diner' = "gone" => diner = "gone"
    PROVE  RowsFollow
<1>1. order'[o] = s /\ \A p \in Orders \ {o} : order'[p] = order[p]
  BY DEF MealInv, MealRecords
<1>2. order' \in [Orders -> OrderStates]
  BY DEF MealInv, MealRecords, Follows
<1>3. \A p \in Orders : Follows(order[p], order'[p])
  BY <1>1, RowStays DEF MealInv, MealRecords
<1> QED
  BY <1>1, <1>2, <1>3 DEF MealInv, MealRecords, RowsFollow

\* A step of the provider, the hotel or the clock, that decides nothing.
LEMMA NoOrderChanges ==
    ASSUME MealInv, order' = order,
           late' \in [Orders -> BOOLEAN],
           mealInvoice' \in [Orders -> {"none", "PENDING", "SUCCEEDED"}],
           mealRefund' \in [Orders -> {"none", "PENDING", "FINAL_FAILED", "SUCCEEDED"}],
           \A o \in Orders : mealRefund'[o] = mealRefund[o] \/ order[o].request \in GrantedRequests,
           link' \in BOOLEAN, diner' \in {"ordering", "leaving", "gone"}, diner' = "gone" => diner = "gone"
    PROVE  RowsFollow
<1>1. \A o \in Orders : Follows(order[o], order'[o])
  BY RowStays DEF MealInv, MealRecords
<1> QED
  BY <1>1 DEF MealInv, MealRecords, RowsFollow

\* A refund is sent once.
LEMMA SentRefundType ==
    ASSUME MealInv, NEW o \in Orders
    PROVE  [mealRefund EXCEPT ![o] = SentRefund(o)] \in [Orders -> {"none", "PENDING", "FINAL_FAILED", "SUCCEEDED"}]
  BY DEF MealInv, MealRecords, SentRefund

\* Time and the provider; the invoice.
LEMMA OutsideStep ==
    ASSUME MealInv, NEW o \in Orders, DeadlinePasses(o) \/ GuestPays(o) \/ ProviderDecides(o)
    PROVE  RowsFollow
<1>1. CASE DeadlinePasses(o)
  BY <1>1, NoOrderChanges DEF DeadlinePasses, MealInv, MealRecords, provider, worker
<1>2. CASE GuestPays(o)
  BY <1>2, NoOrderChanges DEF GuestPays, MealInv, MealRecords, provider, worker
<1>3. CASE ProviderDecides(o)
  <2>1. order' = order /\ late' = late /\ mealInvoice' = mealInvoice /\ link' = link /\ diner' = diner
    BY <1>3 DEF ProviderDecides, worker
  <2>2. /\ mealRefund' \in [Orders -> {"none", "PENDING", "FINAL_FAILED", "SUCCEEDED"}]
        /\ \A p \in Orders \ {o} : mealRefund'[p] = mealRefund[p]
        /\ mealRefund[o] # "none"
    BY <1>3 DEF ProviderDecides, MealInv, MealRecords
  <2> QED
    BY <2>1, <2>2, NoOrderChanges DEF MealInv, MealRecords
<1> QED
  BY <1>1, <1>2, <1>3

\* The guest orders, and the invoice is stored.
LEMMA OrderingStep ==
    ASSUME MealInv, NEW o \in Orders, CreateOrder(o) \/ InvoiceOrder(o)
    PROVE  RowsFollow
<1> DEFINE r == order[o]
<1>1. r \in OrderStates /\ OrderFits(r) /\ r.payment # "PAID"
  BY DEF MealInv, MealRecords, CreateOrder, InvoiceOrder
<1>2. PICK p \in {"INTENT", "PENDING"} :
        order' = order \/ order' = [order EXCEPT ![o] = [r EXCEPT !.payment = p]]
  <2>1. CASE CreateOrder(o)
    BY <2>1 DEF CreateOrder, MealInv, MealRecords
  <2>2. CASE InvoiceOrder(o)
    BY <2>2 DEF InvoiceOrder, MealInv, MealRecords
  <2> QED
    BY <2>1, <2>2
<1>3. /\ late' = late /\ mealRefund' = mealRefund /\ link' = link /\ diner' = diner
      /\ mealInvoice' \in [Orders -> {"none", "PENDING", "SUCCEEDED"}]
  BY DEF CreateOrder, InvoiceOrder, AskInvoice, MealInv, MealRecords, provider
<1>4. CASE order' = order
  BY <1>3, <1>4, NoOrderChanges DEF MealInv, MealRecords
<1>5. CASE order' = [order EXCEPT ![o] = [r EXCEPT !.payment = p]]
  <2> DEFINE s == [r EXCEPT !.payment = p]
  <2>1. Follows(r, s)
    BY <1>1 DEF Follows, OrderStates, OrderFits
  <2>2. order' = [order EXCEPT ![o] = s]
    BY <1>5
  <2> HIDE DEF s
  <2> QED
    BY <1>3, <2>1, <2>2, OneOrderChanges DEF MealInv, MealRecords
<1> QED
  BY <1>2, <1>4, <1>5

\* The commands that only decide on a record.
LEMMA DeskStep ==
    ASSUME MealInv, NEW o \in Orders, NEW s, Follows(order[o], s),
           order' = [order EXCEPT ![o] = s], late' \in [Orders -> BOOLEAN],
           UNCHANGED <<provider, link, diner>>
    PROVE  RowsFollow
  BY OneOrderChanges DEF MealInv, MealRecords, provider

LEMMA RequestRefundStep == ASSUME MealInv, NEW o \in Orders, RequestRefund(o) PROVE RowsFollow
<1> DEFINE s == RefundRequested(order[o])
<1>1. Follows(order[o], s)
  BY RequestedFollows DEF MealInv, MealRecords, RequestRefund, MayRequestRefund
<1>2. order' = [order EXCEPT ![o] = s] /\ late' \in [Orders -> BOOLEAN] /\ UNCHANGED <<provider, link, diner>>
  BY DEF MealInv, MealRecords, RequestRefund, Decide
<1> HIDE DEF s
<1> QED
  BY <1>1, <1>2, DeskStep

LEMMA AcceptStep == ASSUME MealInv, NEW o \in Orders, Accept(o) PROVE RowsFollow
<1> DEFINE s == [order[o] EXCEPT !.fulfillment = "ACCEPTED"]
<1>1. Follows(order[o], s)
  BY DEF MealInv, MealRecords, Accept, Follows, OrderStates, OrderFits, Kitchen, MealOver, Delivered, GrantedRequests
<1>2. order' = [order EXCEPT ![o] = s] /\ late' \in [Orders -> BOOLEAN] /\ UNCHANGED <<provider, link, diner>>
  BY DEF MealInv, MealRecords, Accept, Decide
<1> HIDE DEF s
<1> QED
  BY <1>1, <1>2, DeskStep

\* A stage is followed by a later one, and the last one completes the order.
LEMMA FulfillStep == ASSUME MealInv, NEW o \in Orders, NEW target, Fulfill(o, target) PROVE RowsFollow
<1> DEFINE r == order[o]
           done == IF target \in Delivered THEN "COMPLETED" ELSE r.order
           s == [r EXCEPT !.fulfillment = target, !.order = done]
<1>1. r \in OrderStates /\ OrderFits(r) /\ r.order = "CONFIRMED" /\ r.payment = "PAID"
  BY DEF MealInv, MealRecords, Fulfill, OrderFits
<1>2. target \in (Kitchen \ {"AWAITING_ACCEPTANCE"}) \cup Delivered /\ r.fulfillment \notin MealOver
  BY DEF Fulfill, NextStages, Kitchen, Delivered, MealOver
<1>3. Follows(r, s)
  <2>1. s \in OrderStates
    BY <1>1, <1>2 DEF OrderStates, MealOver
  <2>2. /\ s.fulfillment = target /\ s.order = done /\ s.payment = r.payment /\ s.request = r.request
        /\ s.refund = r.refund /\ s.handoff = r.handoff
    BY <1>1 DEF OrderStates
  <2>3. OrderFits(s)
    BY <1>1, <1>2, <2>2 DEF OrderFits, Delivered
  <2> QED
    BY <1>1, <1>2, <2>1, <2>2, <2>3 DEF Follows
<1>4. order' = [order EXCEPT ![o] = s] /\ late' \in [Orders -> BOOLEAN] /\ UNCHANGED <<provider, link, diner>>
  BY DEF MealInv, MealRecords, Fulfill
<1> HIDE DEF s
<1> QED
  BY <1>3, <1>4, DeskStep

LEMMA CannotFulfillStep == ASSUME MealInv, NEW o \in Orders, CannotFulfill(o) PROVE RowsFollow
<1> DEFINE s == Mandatory(order[o])
<1>1. Follows(order[o], s)
  BY MandatoryFollows DEF MealInv, MealRecords, CannotFulfill
<1>2. order' = [order EXCEPT ![o] = s] /\ late' \in [Orders -> BOOLEAN] /\ UNCHANGED <<provider, link, diner>>
  BY DEF MealInv, MealRecords, CannotFulfill, Decide
<1> HIDE DEF s
<1> QED
  BY <1>1, <1>2, DeskStep

\* A request that is open belongs to a paid order that is not cancelled.
LEMMA DecideRefundStep ==
    ASSUME MealInv, NEW o \in Orders, NEW approve \in BOOLEAN, DecideRefund(o, approve) PROVE RowsFollow
<1> DEFINE r == order[o]
           s == IF approve THEN [Mandatory(r) EXCEPT !.policy = "DISCRETIONARY"]
                ELSE [r EXCEPT !.request = "REJECTED"]
<1>1. r \in OrderStates /\ OrderFits(r) /\ r.request = "OPEN"
  BY DEF MealInv, MealRecords, DecideRefund
<1>2. Follows(r, s)
  <2>1. CASE approve
    <3> DEFINE m == Mandatory(r)
    <3>1. Follows(r, m) /\ m.order # "CONFIRMED" /\ m.request = "APPROVED"
      BY <1>1, MandatoryFollows DEF OrderFits
    <3>2. s = [m EXCEPT !.policy = "DISCRETIONARY"]
      BY <2>1
    <3> HIDE DEF m, s
    <3>3. /\ s \in OrderStates /\ s.payment = m.payment /\ s.order = m.order /\ s.request = m.request
          /\ s.fulfillment = m.fulfillment /\ s.refund = m.refund /\ s.handoff = m.handoff
      BY <3>1, <3>2 DEF OrderStates, Follows
    <3> QED
      BY <3>1, <3>3 DEF Follows, OrderFits
  <2>2. CASE ~approve
    <3>1. s = [r EXCEPT !.request = "REJECTED"]
      BY <2>2
    <3> QED
      BY <1>1, <3>1 DEF Follows, OrderFits, OrderStates, GrantedRequests
  <2> QED
    BY <2>1, <2>2
<1>3. order' = [order EXCEPT ![o] = s] /\ late' \in [Orders -> BOOLEAN] /\ UNCHANGED <<provider, link, diner>>
  BY DEF MealInv, MealRecords, DecideRefund
<1> HIDE DEF s
<1> QED
  BY <1>2, <1>3, DeskStep

LEMMA BeginRefundStep == ASSUME MealInv, NEW o \in Orders, BeginRefund(o) PROVE RowsFollow
<1> DEFINE s == [order[o] EXCEPT !.refund = "PENDING"]
<1>1. Follows(order[o], s)
  BY DEF MealInv, MealRecords, BeginRefund, MayBeginRefund, Follows, OrderStates, OrderFits, GrantedRequests
<1>2. order' = [order EXCEPT ![o] = s] /\ late' \in [Orders -> BOOLEAN] /\ UNCHANGED <<provider, link, diner>>
  BY DEF MealInv, MealRecords, BeginRefund
<1> HIDE DEF s
<1> QED
  BY <1>1, <1>2, DeskStep

LEMMA SetLinkStep == ASSUME MealInv, SetLink PROVE RowsFollow
<1>1. \A o \in Orders : Follows(order[o], order'[o]) /\ order'[o] \in OrderStates
  <2> TAKE o \in Orders
  <2>1. order[o] \in OrderStates /\ OrderFits(order[o])
    BY DEF MealInv, MealRecords
  <2>2. order'[o] = order[o] \/ order'[o] = Expired(order[o])
    BY DEF SetLink
  <2> QED
    BY <2>1, <2>2, RowStays, ExpiredFollows DEF Follows
<1>2. order' \in [Orders -> OrderStates]
  BY <1>1 DEF SetLink, MealInv, MealRecords
<1> QED
  BY <1>1, <1>2 DEF MealInv, MealRecords, SetLink, provider, RowsFollow

-----------------------------------------------------------------------------
\* What the provider says of an order.
LEMMA PaymentFollows ==
    ASSUME MealInv, NEW o \in Orders, NEW r \in OrderStates, OrderFits(r),
           NEW closed \in BOOLEAN, NEW withdrawn \in BOOLEAN, NEW s, s = PaymentState(o, r, closed, withdrawn)
    PROVE  Follows(r, s)
<1>1. CASE mealInvoice[o] = "SUCCEEDED"
  <2> DEFINE tooLate == late[o] \/ closed
             eligible == MealEligible /\ ~withdrawn
  <2>1. tooLate \in BOOLEAN /\ eligible \in BOOLEAN /\ (eligible => diner # "gone")
    BY DEF MealEligible, MealInv, MealRecords
  <2>2. s = CapturedMeal(r, tooLate, eligible)
    BY <1>1 DEF PaymentState
  <2> HIDE DEF tooLate, eligible
  <2> QED
    BY <2>1, <2>2, CapturedFollows
<1>2. CASE mealInvoice[o] # "SUCCEEDED" /\ late[o]
  BY <1>2, ExpiredFollows DEF PaymentState
<1>3. CASE mealInvoice[o] # "SUCCEEDED" /\ ~late[o]
  BY <1>3, RowStays DEF PaymentState
<1> QED
  BY <1>1, <1>2, <1>3

\* A capture is late only if its deadline passed.
LEMMA RecordedLate ==
    ASSUME MealInv, NEW o \in Orders, NEW s, RecordPayment(o, s)
    PROVE  order' = [order EXCEPT ![o] = s] /\ late' \in [Orders -> BOOLEAN]
  BY DEF RecordPayment, MealInv, MealRecords

LEMMA ReconcilePaymentStep == ASSUME MealInv, NEW o \in Orders, ReconcilePayment(o) PROVE RowsFollow
<1>1. PICK closed \in BOOLEAN, withdrawn \in BOOLEAN :
        RecordPayment(o, PaymentState(o, order[o], closed, withdrawn))
  BY DEF ReconcilePayment
<1> DEFINE s == PaymentState(o, order[o], closed, withdrawn)
<1>2. Follows(order[o], s)
  BY PaymentFollows DEF MealInv, MealRecords
<1>3. RecordPayment(o, s) /\ UNCHANGED <<provider, link, diner>>
  BY <1>1 DEF ReconcilePayment
<1> HIDE DEF s
<1> QED
  BY <1>2, <1>3, RecordedLate, DeskStep

LEMMA ReconcileRefundStep == ASSUME MealInv, NEW o \in Orders, ReconcileRefund(o) PROVE RowsFollow
<1>1. order[o] \in OrderStates /\ OrderFits(order[o]) /\ order[o].request \in GrantedRequests
  BY DEF MealInv, MealRecords, ReconcileRefund, OrderFits
<1> DEFINE s == RefundState(order[o], SentRefund(o))
<1>2. /\ mealRefund' = [mealRefund EXCEPT ![o] = SentRefund(o)]
      /\ late' = late /\ mealInvoice' = mealInvoice /\ link' = link /\ diner' = diner
      /\ order' = order \/ order' = [order EXCEPT ![o] = s]
  BY DEF ReconcileRefund
<1>3. Follows(order[o], s)
  BY <1>1, RefundFollows
<1>4. /\ mealRefund' \in [Orders -> {"none", "PENDING", "FINAL_FAILED", "SUCCEEDED"}]
      /\ \A p \in Orders \ {o} : mealRefund'[p] = mealRefund[p]
  BY <1>2, SentRefundType DEF MealInv, MealRecords
<1> HIDE DEF s
<1>5. CASE order' = order
  BY <1>1, <1>2, <1>4, <1>5, NoOrderChanges DEF MealInv, MealRecords
<1>6. CASE order' = [order EXCEPT ![o] = s]
  <2>1. s.request \in GrantedRequests
    BY <1>1, <1>3 DEF Follows
  <2> QED
    BY <1>2, <1>3, <1>4, <1>6, <2>1, OneOrderChanges DEF MealInv, MealRecords
<1> QED
  BY <1>2, <1>5, <1>6

\* A pass finds an order again whose invoice was lost, then decides as the others do.
LEMMA RecoveredFollows ==
    ASSUME MealInv, NEW o \in Orders, NEW s, s = Recovered(order[o]) PROVE Follows(order[o], s)
<1>1. order[o] \in OrderStates /\ OrderFits(order[o])
  BY DEF MealInv, MealRecords
<1>2. CASE order[o].payment # "INTENT"
  BY <1>1, <1>2, RowStays DEF Recovered
<1>3. CASE order[o].payment = "INTENT"
  <2>1. s = [order[o] EXCEPT !.payment = "PENDING"]
    BY <1>3 DEF Recovered
  <2> QED
    BY <1>1, <1>3, <2>1 DEF Follows, OrderFits, OrderStates, GrantedRequests
<1> QED
  BY <1>2, <1>3

LEMMA TickChecksStep == ASSUME MealInv, NEW o \in Orders, TickChecks(o) PROVE RowsFollow
<1>1. PICK closed \in BOOLEAN, withdrawn \in BOOLEAN :
          LET paid == PaymentState(o, Recovered(order[o]), closed, withdrawn)
              refunding == paid.refund \in {"PENDING", "FAILED"}
          IN /\ RecordPayment(o, IF refunding THEN RefundState(paid, SentRefund(o)) ELSE paid)
             /\ mealRefund' = IF refunding THEN [mealRefund EXCEPT ![o] = SentRefund(o)] ELSE mealRefund
  BY DEF TickChecks
<1> DEFINE found == Recovered(order[o])
           paid == PaymentState(o, found, closed, withdrawn)
           refunding == paid.refund \in {"PENDING", "FAILED"}
           s == IF refunding THEN RefundState(paid, SentRefund(o)) ELSE paid
<1>2. order[o] \in OrderStates /\ Follows(order[o], found)
  BY RecoveredFollows DEF MealInv, MealRecords
<1>3. Follows(found, paid)
  <2> HIDE DEF found
  <2> QED
    BY <1>2, PaymentFollows DEF Follows
<1>4. Follows(order[o], paid) /\ paid \in OrderStates /\ OrderFits(paid)
  <2> HIDE DEF found, paid
  <2> QED
    BY <1>2, <1>3, FollowsAgain DEF Follows
<1>5. /\ RecordPayment(o, s)
      /\ mealRefund' = IF refunding THEN [mealRefund EXCEPT ![o] = SentRefund(o)] ELSE mealRefund
      /\ mealInvoice' = mealInvoice /\ link' = link /\ diner' = diner
  BY <1>1 DEF TickChecks
<1> HIDE DEF found, paid
<1>6. Follows(order[o], s)
  <2>1. CASE ~refunding
    BY <1>4, <2>1
  <2>2. CASE refunding
    <3> DEFINE t == RefundState(paid, SentRefund(o))
    <3>1. Follows(paid, t)
      BY <1>4, RefundFollows
    <3>2. s = t
      BY <2>2
    <3> HIDE DEF t, s
    <3> QED
      BY <1>2, <1>4, <3>1, <3>2, FollowsAgain
  <2> QED
    BY <2>1, <2>2
<1>7. /\ mealRefund' \in [Orders -> {"none", "PENDING", "FINAL_FAILED", "SUCCEEDED"}]
      /\ \A p \in Orders \ {o} : mealRefund'[p] = mealRefund[p]
  BY <1>5, SentRefundType DEF MealInv, MealRecords
<1>8. mealRefund'[o] = mealRefund[o] \/ s.request \in GrantedRequests
  <2>1. CASE ~refunding
    BY <1>5, <2>1
  <2>2. CASE refunding
    <3>1. paid.request \in GrantedRequests
      BY <1>4, <2>2 DEF OrderFits
    <3> QED
      BY <3>1, <1>4, <2>2, RefundFollows DEF Follows
  <2> QED
    BY <2>1, <2>2
<1> HIDE DEF s, refunding
<1> QED
  BY <1>5, <1>6, <1>7, <1>8, RecordedLate, OneOrderChanges DEF MealInv, MealRecords

\* The worker moves its cursor and selects again.
LEMMA WorkerStep == ASSUME MealInv, NEW o \in Orders, TickRetries(o) \/ TickSelect PROVE RowsFollow
<1>1. order' = order /\ late' = late /\ mealInvoice' = mealInvoice /\ link' = link /\ diner' = diner
  BY DEF TickRetries, TickSelect, provider
<1>2. /\ mealRefund' \in [Orders -> {"none", "PENDING", "FINAL_FAILED", "SUCCEEDED"}]
      /\ \A p \in Orders : mealRefund'[p] = mealRefund[p] \/ order[p].request \in GrantedRequests
  <2>1. CASE mealRefund' = mealRefund
    BY <2>1 DEF MealInv, MealRecords
  <2>2. CASE mealRefund' # mealRefund
    <3>1. order[o].refund \in {"PENDING", "FAILED"} /\ mealRefund' = [mealRefund EXCEPT ![o] = SentRefund(o)]
      BY <2>2 DEF TickRetries, TickSelect, provider
    <3>2. order[o].request \in GrantedRequests
      BY <3>1 DEF MealInv, OrderFits
    <3> QED
      BY <3>1, <3>2, SentRefundType DEF MealInv, MealRecords
  <2> QED
    BY <2>1, <2>2
<1> QED
  BY <1>1, <1>2, NoOrderChanges DEF MealInv, MealRecords

-----------------------------------------------------------------------------
(* Checkout.                                                               *)

\* A meal that is handed off at checkout is for the reception, for the guest, or refunded.
LEMMA HandedOffFollows ==
    ASSUME MealInv, NEW o \in OpenMeals, NEW mode \in {"RECEPTION", "GUEST_PICKUP", "REFUND_REQUEST"},
           mode = "REFUND_REQUEST" => MayRequestRefund(order[o], late[o], TRUE),
           NEW s, s = HandedOff(o, mode)
    PROVE  /\ s \in OrderStates /\ OrderFits(s) /\ s.handoff # "ROOM"
           /\ order[o].request \in GrantedRequests => s.request \in GrantedRequests
<1> DEFINE r == [order[o] EXCEPT !.handoff = mode]
<1>1. order[o] \in OrderStates /\ OrderFits(order[o]) /\ order[o].payment = "PAID"
  BY DEF MealInv, MealRecords, OpenMeals
<1>2. /\ r \in OrderStates /\ OrderFits(r) /\ r.payment = "PAID" /\ r.handoff = mode
      /\ r.request = order[o].request
  BY <1>1 DEF OrderStates, OrderFits
<1> HIDE DEF r
<1>3. s = IF mode = "REFUND_REQUEST" THEN RefundRequested(r) ELSE r
  BY DEF HandedOff, r
<1>4. CASE mode # "REFUND_REQUEST"
  BY <1>2, <1>3, <1>4
<1>5. CASE mode = "REFUND_REQUEST"
  <2>1. r.request = "NONE"
    BY <1>2, <1>5 DEF MayRequestRefund
  <2>2. Follows(r, s)
    BY <1>2, <1>3, <1>5, <2>1, RequestedFollows
  <2> QED
    BY <1>2, <1>5, <2>2 DEF Follows
<1> QED
  BY <1>4, <1>5

LEMMA CheckoutMealsStep == ASSUME MealInv, CheckoutMeals PROVE MealInv'
<1>1. PICK choice \in [OpenMeals -> {"RECEPTION", "GUEST_PICKUP", "REFUND_REQUEST"}] :
          /\ \A o \in OpenMeals : choice[o] = "REFUND_REQUEST" => MayRequestRefund(order[o], late[o], TRUE)
          /\ order' = [o \in Orders |-> IF o \in OpenMeals THEN HandedOff(o, choice[o]) ELSE order[o]]
          /\ late' = [o \in Orders |-> late[o] /\ ~(o \in OpenMeals /\ choice[o] = "REFUND_REQUEST")]
  BY DEF CheckoutMeals
<1>2. ASSUME NEW o \in Orders
      PROVE  /\ order'[o] \in OrderStates /\ OrderFits(order'[o])
             /\ order'[o].order = "CONFIRMED" => order'[o].handoff # "ROOM"
             /\ order[o].request \in GrantedRequests => order'[o].request \in GrantedRequests
  <2>1. CASE o \in OpenMeals
    <3> DEFINE s == HandedOff(o, choice[o])
    <3>1. order'[o] = s /\ choice[o] \in {"RECEPTION", "GUEST_PICKUP", "REFUND_REQUEST"}
      BY <1>1, <2>1
    <3>2. /\ s \in OrderStates /\ OrderFits(s) /\ s.handoff # "ROOM"
          /\ order[o].request \in GrantedRequests => s.request \in GrantedRequests
      BY <1>1, <2>1, <3>1, HandedOffFollows
    <3> HIDE DEF s
    <3> QED
      BY <3>1, <3>2
  <2>2. CASE o \notin OpenMeals
    <3>1. order'[o] = order[o] /\ order[o] \in OrderStates /\ OrderFits(order[o])
      BY <1>1, <2>2 DEF MealInv, MealRecords
    <3>2. order[o].order # "CONFIRMED"
      BY <2>2, <3>1 DEF OpenMeals, OrderFits, MealOver, Delivered, Kitchen
    <3> QED
      BY <3>1, <3>2
  <2> QED
    BY <2>1, <2>2
<1>3. order' \in [Orders -> OrderStates]
  BY <1>1, <1>2
<1>4. /\ late' \in [Orders -> BOOLEAN] /\ mealInvoice' = mealInvoice /\ mealRefund' = mealRefund
      /\ link' = link /\ diner' = "gone"
  BY <1>1 DEF CheckoutMeals, provider
<1>5. MealRecords'
  BY <1>3, <1>4 DEF MealInv, MealRecords
<1>6. \A o \in Orders : OrderFits(order'[o]) /\ (mealRefund'[o] # "none" => order'[o].request \in GrantedRequests)
  BY <1>2, <1>4 DEF MealInv
<1>7. NoMealForEmptyRoom'
  BY <1>2 DEF NoMealForEmptyRoom
<1> QED
  BY <1>5, <1>6, <1>7 DEF MealInv

LEMMA InitiateCheckoutStep == ASSUME MealInv, InitiateCheckout PROVE RowsFollow
  BY NoOrderChanges DEF InitiateCheckout, MealInv, MealRecords, provider

\* Every step but the checkout keeps the rows following; the checkout hands them off.
LEMMA MealRowsStep == ASSUME MealInv, RestaurantNext, ~CheckoutMeals PROVE RowsFollow
<1>1. ASSUME NEW o \in Orders,
             DeadlinePasses(o) \/ GuestPays(o) \/ ProviderDecides(o) \/ CreateOrder(o) \/ InvoiceOrder(o)
             \/ RequestRefund(o) \/ Accept(o) \/ CannotFulfill(o) \/ BeginRefund(o) \/ ReconcilePayment(o)
             \/ ReconcileRefund(o) \/ TickChecks(o) \/ TickRetries(o)
      PROVE  RowsFollow
  BY <1>1, OutsideStep, OrderingStep, RequestRefundStep, AcceptStep, CannotFulfillStep, BeginRefundStep,
     ReconcilePaymentStep, ReconcileRefundStep, TickChecksStep, WorkerStep
<1>2. ASSUME NEW o \in Orders, NEW stage, Fulfill(o, stage) PROVE RowsFollow
  BY <1>2, FulfillStep
<1>3. ASSUME NEW o \in Orders, NEW approve \in BOOLEAN, DecideRefund(o, approve) PROVE RowsFollow
  BY <1>3, DecideRefundStep
<1>4. CASE TickSelect
  <2>1. PICK o \in Orders : o \in Watched
    BY <1>4 DEF TickSelect, Watched
  <2> QED
    BY <1>4, <2>1, WorkerStep
<1>5. CASE SetLink \/ InitiateCheckout
  BY <1>5, SetLinkStep, InitiateCheckoutStep
<1> QED
  BY <1>1, <1>2, <1>3, <1>4, <1>5 DEF RestaurantNext

\* Every step of the restaurant keeps the invariant.
LEMMA MealStep == ASSUME MealInv, [RestaurantNext]_restaurantVars PROVE MealInv'
<1>1. CASE UNCHANGED restaurantVars
  BY <1>1 DEF restaurantVars, provider, MealInv, MealRecords, NoMealForEmptyRoom
<1>2. CASE CheckoutMeals
  BY <1>2, CheckoutMealsStep
<1>3. CASE RestaurantNext /\ ~CheckoutMeals
  BY <1>3, MealRowsStep, RowsFollowStep
<1> QED
  BY <1>1, <1>2, <1>3

\* The invariant holds always.
LEMMA MealInvariance == RestaurantSpec => []MealInv
  BY InitMealInv, MealStep, PTL DEF RestaurantSpec

\* For any orders: a paid order that is cancelled is refunded or approved to be, a refund
\* is sent for nothing else, and no meal is on its way to an empty room, however
\* payment, expiry, link, kitchen and checkout race.
THEOREM MealsServedOrRefunded == RestaurantSpec => []MealsReachWhoPaid
<1>1. MealInv => MealsReachWhoPaid
  BY DEF MealInv, MealsReachWhoPaid, PaidIsServedOrRefunded, OrderFits, GrantedRequests
<1> QED
  BY <1>1, MealInvariance, PTL

MealOverStays == \A o \in Orders : order[o].fulfillment \in MealOver => order'[o].fulfillment = order[o].fulfillment

\* For any orders: a meal that was cancelled or delivered stays so; the kitchen never
\* gets it back.
THEOREM MealsEndOnce == RestaurantSpec => MealOverIsFinal
<1>1. ASSUME MealInv, [RestaurantNext]_restaurantVars PROVE [MealOverStays]_restaurantVars
  <2>1. CASE CheckoutMeals
    <3>1. ASSUME NEW o \in Orders, order[o].fulfillment \in MealOver PROVE order'[o] = order[o]
      BY <2>1, <3>1 DEF CheckoutMeals, OpenMeals
    <3> QED
      BY <3>1 DEF MealOverStays
  <2>2. CASE RestaurantNext /\ ~CheckoutMeals
    BY <1>1, <2>2, MealRowsStep DEF RowsFollow, Follows, MealOverStays
  <2> QED
    BY <1>1, <2>1, <2>2
<1> QED
  BY <1>1, MealInvariance, PTL DEF RestaurantSpec, MealOverIsFinal, MealOverStays

-----------------------------------------------------------------------------
(* The worker's cursor: one row for an order, however it is checked.       *)

CursorInv ==
    /\ cursor \in Seq(Orders) /\ IsInjective(cursor)
    /\ picked \in Seq(Orders) /\ Len(picked) <= TickLimit

\* A concatenation, place by place.
LEMMA ConcatPlaces ==
    ASSUME NEW S, NEW a \in Seq(S), NEW b \in Seq(S)
    PROVE  /\ a \o b \in Seq(S)
           /\ Len(a \o b) = Len(a) + Len(b)
           /\ \A i \in 1 .. Len(a) + Len(b) :
                 (a \o b)[i] = IF i <= Len(a) THEN a[i] ELSE b[i - Len(a)]
<1>1. a \o b \in Seq(S)
  OBVIOUS
<1>2. Len(a \o b) = Len(a) + Len(b)
  OBVIOUS
<1>3. \A i \in 1 .. Len(a) + Len(b) :
         (a \o b)[i] = IF i <= Len(a) THEN a[i] ELSE b[i - Len(a)]
  OBVIOUS
<1> QED
  BY <1>1, <1>2, <1>3

\* What RemoveAt leaves of a sequence, place by place.
LEMMA RemovedPlaces ==
    ASSUME NEW S, NEW s \in Seq(S), NEW k \in 1 .. Len(s)
    PROVE  /\ RemoveAt(s, k) \in Seq(S)
           /\ Len(RemoveAt(s, k)) = Len(s) - 1
           /\ \A i \in 1 .. Len(s) - 1 :
                 RemoveAt(s, k)[i] = IF i < k THEN s[i] ELSE s[i + 1]
<1> DEFINE before == SubSeq(s, 1, k - 1)
           after == SubSeq(s, k + 1, Len(s))
<1>1. Len(s) \in Nat /\ k \in Nat /\ 1 <= k /\ k <= Len(s)
  OBVIOUS
<1>2. /\ before \in Seq(S) /\ Len(before) = k - 1
      /\ \A i \in 1 .. k - 1 : before[i] = s[i]
  BY <1>1
<1>3. /\ after \in Seq(S) /\ Len(after) = Len(s) - k
      /\ \A i \in 1 .. Len(s) - k : after[i] = s[k + i]
  BY <1>1
<1>4. RemoveAt(s, k) = before \o after
  BY DEF RemoveAt
<1> HIDE DEF before, after
<1>5. /\ before \o after \in Seq(S)
      /\ Len(before \o after) = Len(s) - 1
      /\ \A i \in 1 .. Len(s) - 1 :
            (before \o after)[i] = IF i < k THEN before[i] ELSE after[i - (k - 1)]
  <2>1. /\ before \o after \in Seq(S)
        /\ Len(before \o after) = Len(before) + Len(after)
        /\ \A i \in 1 .. Len(before) + Len(after) :
              (before \o after)[i] = IF i <= Len(before) THEN before[i]
                                    ELSE after[i - Len(before)]
    BY <1>2, <1>3, ConcatPlaces
  <2>2. Len(before) = k - 1 /\ Len(before) + Len(after) = Len(s) - 1
    BY <1>1, <1>2, <1>3
  <2>3. \A i \in 1 .. Len(s) - 1 : i <= k - 1 <=> i < k
    BY <1>1
  <2> QED
    BY <2>1, <2>2, <2>3
<1>6. ASSUME NEW i \in 1 .. Len(s) - 1
      PROVE  (before \o after)[i] = IF i < k THEN s[i] ELSE s[i + 1]
  <2>1. CASE i < k
    BY <1>1, <1>2, <1>5, <2>1
  <2>2. CASE ~(i < k)
    <3>1. i - (k - 1) \in 1 .. Len(s) - k /\ k + (i - (k - 1)) = i + 1
      BY <1>1, <2>2
    <3> QED
      BY <1>3, <1>5, <2>2, <3>1
  <2> QED
    BY <2>1, <2>2
<1> QED
  BY <1>4, <1>5, <1>6

\* An order that is moved back is listed once, at the end.
LEMMA MovedBack ==
    ASSUME CursorInv, NEW o \in Orders
    PROVE  /\ Append(Unlisted(o), o) \in Seq(Orders)
           /\ IsInjective(Append(Unlisted(o), o))
<1> DEFINE rest == Unlisted(o)
<1>1. /\ cursor \in Seq(Orders) /\ Len(cursor) \in Nat /\ DOMAIN cursor = 1 .. Len(cursor)
      /\ \A i, j \in 1 .. Len(cursor) : cursor[i] = cursor[j] => i = j
  BY DEF CursorInv, IsInjective
<1>2. \/ LastCheck(o) = 0 /\ \A i \in 1 .. Len(cursor) : cursor[i] # o
      \/ LastCheck(o) \in 1 .. Len(cursor) /\ cursor[LastCheck(o)] = o
  <2>1. CASE o \in ToSet(cursor)
    <3>1. \E i \in DOMAIN cursor : cursor[i] = o
      BY <2>1 DEF ToSet
    <3>2. LastCheck(o) \in DOMAIN cursor /\ cursor[LastCheck(o)] = o
      BY <2>1, <3>1 DEF LastCheck
    <3> QED
      BY <1>1, <3>2
  <2>2. CASE o \notin ToSet(cursor)
    BY <1>1, <2>2 DEF LastCheck, ToSet
  <2> QED
    BY <2>1, <2>2
<1>3. /\ rest \in Seq(Orders)
      /\ \A i \in 1 .. Len(rest) : rest[i] # o
      /\ \A i, j \in 1 .. Len(rest) : rest[i] = rest[j] => i = j
  <2>1. CASE LastCheck(o) = 0
    BY <1>1, <1>2, <2>1 DEF Unlisted
  <2>2. CASE LastCheck(o) # 0
    <3> DEFINE k == LastCheck(o)
    <3>1. k \in 1 .. Len(cursor) /\ cursor[k] = o
      BY <1>2, <2>2
    <3>2. rest = RemoveAt(cursor, k)
      BY <2>2 DEF Unlisted
    <3> HIDE DEF k, rest
    <3>3. /\ rest \in Seq(Orders) /\ Len(rest) = Len(cursor) - 1
          /\ \A i \in 1 .. Len(cursor) - 1 : rest[i] = IF i < k THEN cursor[i] ELSE cursor[i + 1]
      BY <1>1, <3>1, <3>2, RemovedPlaces
    <3>4. ASSUME NEW i \in 1 .. Len(rest)
          PROVE  \E p \in 1 .. Len(cursor) :
                    rest[i] = cursor[p] /\ p # k /\ p = IF i < k THEN i ELSE i + 1
      BY <1>1, <3>1, <3>3
    <3>5. ASSUME NEW i \in 1 .. Len(rest) PROVE rest[i] # o
      BY <1>1, <3>1, <3>4
    <3>6. ASSUME NEW i \in 1 .. Len(rest), NEW j \in 1 .. Len(rest), rest[i] = rest[j]
          PROVE  i = j
      <4>1. PICK p \in 1 .. Len(cursor) : rest[i] = cursor[p] /\ p = IF i < k THEN i ELSE i + 1
        BY <3>4
      <4>2. PICK q \in 1 .. Len(cursor) : rest[j] = cursor[q] /\ q = IF j < k THEN j ELSE j + 1
        BY <3>4
      <4>3. p = q
        BY <1>1, <3>6, <4>1, <4>2
      <4>4. i \in Int /\ j \in Int /\ k \in Int
        BY <1>1, <3>1, <3>3
      <4> QED
        BY <4>1, <4>2, <4>3, <4>4
    <3> QED
      BY <3>3, <3>5, <3>6
  <2> QED
    BY <2>1, <2>2
<1> HIDE DEF rest
<1>4. /\ Append(rest, o) \in Seq(Orders) /\ Len(Append(rest, o)) = Len(rest) + 1
      /\ Len(rest) \in Nat
      /\ \A i \in 1 .. Len(rest) : Append(rest, o)[i] = rest[i]
      /\ Append(rest, o)[Len(rest) + 1] = o
  BY <1>3
<1>5. IsInjective(Append(rest, o))
  <2> SUFFICES ASSUME NEW i \in 1 .. Len(rest) + 1, NEW j \in 1 .. Len(rest) + 1,
                      Append(rest, o)[i] = Append(rest, o)[j]
               PROVE  i = j
    BY <1>4 DEF IsInjective
  <2>1. /\ i \in 1 .. Len(rest) \/ i = Len(rest) + 1
        /\ j \in 1 .. Len(rest) \/ j = Len(rest) + 1
    BY <1>4
  <2> QED
    BY <1>3, <1>4, <2>1
<1> QED
  BY <1>4, <1>5 DEF rest

\* Every step keeps the cursor.
LEMMA CursorStep == ASSUME CursorInv, [RestaurantNext]_restaurantVars PROVE CursorInv'
<1>1. ASSUME UNCHANGED worker PROVE CursorInv'
  BY <1>1 DEF CursorInv, worker, IsInjective
<1>2. ASSUME NEW o \in Orders, picked # <<>>,
             cursor' = Append(Unlisted(o), o), picked' = Tail(picked)
      PROVE  CursorInv'
  <2>1. picked' \in Seq(Orders) /\ Len(picked') <= TickLimit
    BY <1>2, RestaurantAssumption DEF CursorInv
  <2> QED
    BY <1>2, <2>1, MovedBack DEF CursorInv
<1>3. CASE TickSelect
  <2>1. PICK n \in 1 .. TickLimit : picked' \in [1 .. n -> Watched]
    BY <1>3 DEF TickSelect
  <2>2. Watched \subseteq Orders /\ n \in Nat /\ n <= TickLimit
    BY <2>1, RestaurantAssumption DEF Watched
  <2>3. picked' \in Seq(Orders) /\ Len(picked') = n
    BY <2>1, <2>2
  <2> QED
    BY <1>3, <2>2, <2>3 DEF TickSelect, CursorInv, IsInjective
<1>4. ASSUME NEW o \in Orders, TickChecks(o) \/ TickRetries(o) PROVE CursorInv'
  <2>1. picked # <<>> /\ cursor' = Append(Unlisted(o), o) /\ picked' = Tail(picked)
    BY <1>4 DEF TickChecks, TickRetries, NextPicked, MoveBack
  <2> QED
    BY <1>2, <2>1
<1>5. ASSUME RestaurantNext, ~TickSelect,
             ~\E o \in Orders : TickChecks(o) \/ TickRetries(o)
      PROVE  UNCHANGED worker
  BY <1>5 DEF RestaurantNext, DeadlinePasses, GuestPays, ProviderDecides, CreateOrder,
         InvoiceOrder, RequestRefund, Accept, CannotFulfill, BeginRefund, ReconcilePayment,
         ReconcileRefund, Fulfill, DecideRefund, SetLink, InitiateCheckout, CheckoutMeals
<1>6. CASE UNCHANGED restaurantVars
  BY <1>1, <1>6 DEF restaurantVars, worker
<1> QED
  BY <1>1, <1>3, <1>4, <1>5, <1>6

(* Types of the orders, the provider's store and the worker's cursor, which *)
(* holds an order at most once, for any number of orders and any pass size. *)
THEOREM MealsAreTyped == RestaurantSpec => []RestaurantTypeOK
<1>1. RestaurantInit => CursorInv
  BY RestaurantAssumption DEF RestaurantInit, CursorInv, IsInjective
<1>2. CursorInv /\ [RestaurantNext]_restaurantVars => CursorInv'
  BY CursorStep
<1>3. MealInv /\ CursorInv => RestaurantTypeOK
  BY DEF MealInv, MealRecords, CursorInv, RestaurantTypeOK, ToSet
<1>4. RestaurantSpec => []CursorInv
  BY <1>1, <1>2, PTL DEF RestaurantSpec
<1> QED
  BY <1>3, <1>4, MealInvariance, PTL

-----------------------------------------------------------------------------
(***************************************************************************)
(* Renewals. The months that were applied are a sum over the renewals; a   *)
(* step that applies one adds its months to the sum and to the term, and   *)
(* every other step leaves both alone. The package and the lock rest on    *)
(* the term that a renewal saw.                                            *)
(***************************************************************************)

\* The largest of a finite set of numbers.
LEMMA MaxOf ==
    ASSUME NEW S, IsFiniteSet(S), \A x \in S : x \in Int, S # {}
    PROVE  Max(S) \in S /\ \A y \in S : Max(S) >= y
  BY LargestMember DEF Max

\* The larger of two numbers.
LEMMA MaxOfTwo ==
    ASSUME NEW a \in Int, NEW b \in Int
    PROVE  Max({a, b}) \in {a, b} /\ Max({a, b}) >= a /\ Max({a, b}) >= b
<1>1. \E x \in {a, b} : \A y \in {a, b} : x >= y
  <2>1. CASE a >= b
    BY <2>1
  <2>2. CASE ~(a >= b)
    BY <2>2
  <2> QED
    BY <2>1, <2>2
<1>2. Max({a, b}) \in {a, b} /\ \A y \in {a, b} : Max({a, b}) >= y
  BY <1>1 DEF Max
<1> QED
  BY <1>2

-----------------------------------------------------------------------------
AskedRow == [state : {"UNCERTAIN", "PENDING", "FAILED", "APPLIED", "RECONCILE"},
             package : Packages, months : Terms, previous : Nat]
RenewalRow == {NoRenewal} \cup AskedRow
ChargeRow == [state : {"NONE", "PENDING", "FAILED", "SUCCEEDED"}, at : 0 .. LastCapture]
EntitlementRow == [state : {"NONE", "DUE", "APPLIED"}, at : Nat]

\* RenewalTypeOK, with renewal as a function.
RenewalRecords ==
    /\ hour \in 0 .. Horizon
    /\ renewal \in [RenewalIds -> RenewalRow]
    /\ calling \in [RenewalIds -> {"NO", "BEFORE", "AFTER"}]
    /\ charge \in [RenewalIds -> ChargeRow]
    /\ failedAnswer \in [RenewalIds -> BOOLEAN]
    /\ term \in [expiry : Nat, floor : Packages]
    /\ access \in [expiry : Nat, package : Packages, suspended : BOOLEAN]
    /\ entitlement \in [RenewalIds -> EntitlementRow]
    /\ work \in 0 .. Horizon

\* One invoice may wait for its payment; what is applied was captured; a package is due
\* for an applied renewal, not before the term that renewal saw ends; and work began
\* before the lock.
RenewalsAgree ==
    /\ \A r \in RenewalIds :
          /\ calling[r] # "NO" \/ charge[r].state # "NONE" \/ failedAnswer[r] => renewal[r] # NoRenewal
          /\ renewal[r].state = "APPLIED" => charge[r].state = "SUCCEEDED"
          /\ entitlement[r].state # "NONE"
                => renewal[r].state = "APPLIED" /\ renewal[r].previous <= entitlement[r].at
    /\ \A q, r \in RenewalIds :
          {renewal[q].state, renewal[r].state} \subseteq {"UNCERTAIN", "PENDING"} => q = r
    /\ work # 0 => work <= access.expiry

RenewalInv == RenewalRecords /\ RenewalsAgree /\ PaidMonthsCountOnce

\* The first term is paid and nothing is renewed.
LEMMA InitRenewalInv == RenewalInit => RenewalInv
<1> SUFFICES ASSUME RenewalInit PROVE RenewalInv
  OBVIOUS
<1>1. RenewalRecords
  BY RenewalAssumption DEF RenewalInit, RenewalRecords, RenewalRow,  ChargeRow, EntitlementRow, FirstExpiry
<1>2. RenewalsAgree
  BY DEF RenewalInit, RenewalsAgree, NoRenewal
<1>3. AppliedRenewals = {}
  BY DEF RenewalInit, AppliedRenewals, NoRenewal
<1>4. MonthsApplied = 0
  BY <1>3, SumEmpty DEF MonthsApplied
<1>5. Max({FirstExpiry} \cup {charge[r].at : r \in AppliedRenewals}) = FirstExpiry
  <2>1. {FirstExpiry} \cup {charge[r].at : r \in AppliedRenewals} = {FirstExpiry}
    BY <1>3
  <2>2. Max({FirstExpiry}) = FirstExpiry
    BY MaxOfTwo DEF FirstExpiry
  <2> QED
    BY <2>1, <2>2
<1>6. PaidMonthsCountOnce
  BY <1>4, <1>5 DEF RenewalInit, PaidMonthsCountOnce, FirstExpiry
<1> QED
  BY <1>1, <1>2, <1>6 DEF RenewalInv

-----------------------------------------------------------------------------
(* The sum of the months.                                                  *)

\* The numbers of a renewal.
LEMMA RowNumbers ==
    ASSUME NEW row \in RenewalRow
    PROVE  row.months \in Nat /\ row.previous \in Nat /\ row.package \in Nat
<1>1. CASE row = NoRenewal
  BY <1>1 DEF NoRenewal
<1>2. CASE row \in AskedRow
  <2>1. row.months \in Terms /\ row.previous \in Nat /\ row.package \in Packages
    BY <1>2 DEF AskedRow
  <2> QED
    BY <2>1, RenewalAssumption
<1> QED
  BY <1>1, <1>2 DEF RenewalRow

\* There are finitely many renewals.
LEMMA IdsFinite == IsFiniteSet(RenewalIds) /\ \A S : S \subseteq RenewalIds => IsFiniteSet(S)
<1>1. IsFiniteSet(RenewalIds)
  BY RenewalAssumption, FS_Interval DEF RenewalIds
<1> QED
  BY <1>1, FS_Subset

\* The months that are applied are a number.
LEMMA MonthsAreNat ==
    ASSUME RenewalRecords
    PROVE  /\ IsFiniteSet(AppliedRenewals) /\ AppliedRenewals \subseteq RenewalIds
           /\ \A r \in RenewalIds : MonthsOf[r] \in Nat /\ MonthsOf[r] = renewal[r].months
           /\ MonthsApplied \in Nat
<1>1. IsFiniteSet(AppliedRenewals) /\ AppliedRenewals \subseteq RenewalIds
  BY IdsFinite DEF AppliedRenewals
<1>2. \A r \in RenewalIds : MonthsOf[r] = renewal[r].months
  BY DEF MonthsOf
<1>3. \A r \in RenewalIds : renewal[r].months \in Nat
  BY RowNumbers DEF RenewalRecords
<1>4. \A r \in AppliedRenewals : MonthsOf[r] \in Nat
  BY <1>1, <1>2, <1>3
<1>5. MonthsApplied \in Nat
  BY <1>1, <1>4, SumNat DEF MonthsApplied
<1> QED
  BY <1>1, <1>2, <1>3, <1>5

\* The times the bound of PaidMonthsCountOnce is the largest of.
PaidTimes == {FirstExpiry} \cup {charge[r].at : r \in AppliedRenewals}

\* The captures are finitely many and have a time.
LEMMA PaidTimesAreNat == ASSUME RenewalRecords PROVE IsFiniteSet(PaidTimes) /\ PaidTimes \subseteq Nat
<1>1. IsFiniteSet(AppliedRenewals) /\ AppliedRenewals \subseteq RenewalIds
  BY IdsFinite DEF AppliedRenewals
<1>2. PaidTimes \subseteq 0 .. (LastCapture + FirstExpiry)
  <2>1. \A r \in RenewalIds : charge[r].at \in 0 .. LastCapture
    BY DEF RenewalRecords, ChargeRow
  <2> QED
    BY <1>1, <2>1, RenewalAssumption DEF PaidTimes, FirstExpiry
<1>3. IsFiniteSet(0 .. (LastCapture + FirstExpiry))
  BY RenewalAssumption, FS_Interval DEF FirstExpiry
<1>4. PaidTimes \subseteq Nat
  BY <1>2
<1> QED
  BY <1>2, <1>3, <1>4, FS_Subset

\* One of them is the last.
LEMMA PaidTimesMax ==
    ASSUME RenewalRecords
    PROVE  Max(PaidTimes) \in PaidTimes /\ Max(PaidTimes) \in Nat /\ \A t \in PaidTimes : Max(PaidTimes) >= t
<1>1. IsFiniteSet(PaidTimes) /\ PaidTimes \subseteq Nat /\ PaidTimes # {}
  BY PaidTimesAreNat DEF PaidTimes
<1>2. \A t \in PaidTimes : t \in Int
  BY <1>1
<1> QED
  BY <1>1, <1>2, MaxOf

\* What is granted and what was paid stay the same where nothing is applied.
LEMMA NothingApplied ==
    ASSUME RenewalInv, RenewalRecords',
           \A r \in RenewalIds :
              /\ renewal'[r].state = "APPLIED" <=> renewal[r].state = "APPLIED"
              /\ renewal[r].state = "APPLIED" =>
                    renewal'[r].months = renewal[r].months /\ charge'[r].at = charge[r].at,
           term' = term, access'.expiry = access.expiry
    PROVE  PaidMonthsCountOnce'
<1>1. AppliedRenewals' = AppliedRenewals
  BY DEF AppliedRenewals
<1>2. MonthsApplied' = MonthsApplied
  <2>1. \A r \in AppliedRenewals : MonthsOf[r] = MonthsOf'[r]
    BY DEF AppliedRenewals, MonthsOf
  <2>2. IsFiniteSet(AppliedRenewals)
    BY MonthsAreNat DEF RenewalInv
  <2> DEFINE f == MonthsOf
             h == MonthsOf'
             S == AppliedRenewals
  <2>3. \A r \in S : f[r] = h[r]
    BY <2>1
  <2>4. IsFiniteSet(S)
    BY <2>2
  <2> HIDE DEF f, h, S
  <2>5. SumFunctionOnSet(f, S) = SumFunctionOnSet(h, S)
    BY <2>3, <2>4, SumAgree
  <2> QED
    BY <1>1, <2>5 DEF MonthsApplied, f, h, S
<1>3. PaidTimes' = PaidTimes
  BY <1>1 DEF PaidTimes, AppliedRenewals
<1> QED
  BY <1>2, <1>3 DEF RenewalInv, PaidMonthsCountOnce, PaidTimes

-----------------------------------------------------------------------------
(* The steps.                                                              *)

\* The numbers the gate reads, and that it reads the term of the subscription.
LEMMA ExpiryIsNat ==
    ASSUME RenewalInv
    PROVE  /\ term.expiry \in Nat /\ access.expiry \in Nat /\ term.expiry = access.expiry
           /\ hour \in Nat /\ work \in Nat
           /\ term.floor \in Packages /\ access.package \in Packages /\ term.floor \in Nat /\ access.package \in Nat
<1>1. /\ term.expiry \in Nat /\ access.expiry \in Nat /\ term.expiry = access.expiry
      /\ term.floor \in Packages /\ access.package \in Packages
  BY DEF RenewalInv, RenewalRecords, PaidMonthsCountOnce
<1>2. hour \in Nat /\ work \in Nat
  BY RenewalAssumption DEF RenewalInv, RenewalRecords
<1>3. \A p \in Packages : p \in Nat
  BY RenewalAssumption
<1> QED
  BY <1>1, <1>2, <1>3

\* The gate is read and the clock runs.
LEMMA GateStep ==
    ASSUME RenewalInv, BeginWork \/ CompleteWork \/ Suspend \/ TimePasses
    PROVE  RenewalInv'
<1>1. /\ renewal' = renewal /\ calling' = calling /\ charge' = charge /\ failedAnswer' = failedAnswer
      /\ term' = term /\ entitlement' = entitlement
  BY DEF BeginWork, CompleteWork, Suspend, TimePasses
<1>2. access' \in [expiry : Nat, package : Packages, suspended : BOOLEAN] /\ access'.expiry = access.expiry
  BY DEF BeginWork, CompleteWork, Suspend, TimePasses, RenewalInv, RenewalRecords
<1>3. hour' \in 0 .. Horizon /\ work' \in 0 .. Horizon
  BY RenewalAssumption DEF BeginWork, CompleteWork, Suspend, TimePasses, RenewalInv, RenewalRecords
<1>4. work' # 0 => work' <= access'.expiry
  <2>1. CASE BeginWork
    <3>1. work' = hour /\ hour < access.expiry + Grace
      BY <2>1 DEF BeginWork, MayBegin, LockedAt
    <3> QED
      BY <1>2, <3>1, ExpiryIsNat DEF Grace
  <2>2. CASE ~BeginWork
    BY <1>2, <2>2 DEF CompleteWork, Suspend, TimePasses, RenewalInv, RenewalsAgree
  <2> QED
    BY <2>1, <2>2
<1>5. RenewalRecords'
  BY <1>1, <1>2, <1>3 DEF RenewalInv, RenewalRecords
<1>6. RenewalsAgree'
  BY <1>1, <1>4 DEF RenewalInv, RenewalsAgree
<1>7. PaidMonthsCountOnce'
  BY <1>1, <1>2, <1>5, NothingApplied
<1> QED
  BY <1>5, <1>6, <1>7 DEF RenewalInv

\* An invoice on its way: no renewal changes.
LEMMA ChargeStep ==
    ASSUME RenewalInv, NEW r \in RenewalIds,
           CreateCharge(r) \/ CallCrashes(r) \/ ChargeChanges(r) \/ HearFailure(r)
    PROVE  RenewalInv'
<1>1. /\ renewal' = renewal /\ term' = term /\ entitlement' = entitlement /\ access' = access
      /\ hour' = hour /\ work' = work
  BY DEF CreateCharge, CallCrashes, ChargeChanges, HearFailure
<1>2. /\ calling' \in [RenewalIds -> {"NO", "BEFORE", "AFTER"}]
      /\ \A q \in RenewalIds : calling'[q] # "NO" => calling[q] # "NO"
      /\ failedAnswer' \in [RenewalIds -> BOOLEAN]
      /\ \A q \in RenewalIds : failedAnswer'[q] => failedAnswer[q] \/ renewal[q] # NoRenewal
  BY DEF CreateCharge, CallCrashes, ChargeChanges, HearFailure, RenewalInv, RenewalRecords
<1>3. /\ charge' \in [RenewalIds -> ChargeRow]
      /\ \A q \in RenewalIds : charge'[q].state # "NONE" => charge[q].state # "NONE" \/ calling[q] # "NO"
      /\ \A q \in RenewalIds : charge[q].state = "SUCCEEDED" => charge'[q] = charge[q]
  <2>1. CASE CreateCharge(r)
    <3> DEFINE row == [charge[r] EXCEPT !.state = IF charge[r].state = "NONE" THEN "PENDING" ELSE charge[r].state]
    <3>1. /\ charge' = [charge EXCEPT ![r] = row] /\ calling[r] # "NO"
          /\ charge[r] \in ChargeRow
      BY <2>1 DEF CreateCharge, RenewalInv, RenewalRecords
    <3>2. row \in ChargeRow /\ (charge[r].state = "SUCCEEDED" => row = charge[r])
      BY <3>1 DEF ChargeRow
    <3> HIDE DEF row
    <3> QED
      BY <3>1, <3>2 DEF RenewalInv, RenewalRecords
  <2>2. CASE ChargeChanges(r)
    <3>1. /\ charge[r] \in ChargeRow /\ charge[r].state \in {"PENDING", "FAILED"} /\ hour \in 0 .. Horizon
      BY <2>2 DEF ChargeChanges, RenewalInv, RenewalRecords
    <3>2. \/ charge' = [charge EXCEPT ![r] = [charge[r] EXCEPT !.state = "FAILED"]]
          \/ hour <= LastCapture /\ charge' = [charge EXCEPT ![r] = [state |-> "SUCCEEDED", at |-> hour]]
      BY <2>2 DEF ChargeChanges, RenewalInv, RenewalRecords
    <3>3. PICK row \in ChargeRow : charge' = [charge EXCEPT ![r] = row]
      BY <3>1, <3>2, RenewalAssumption DEF ChargeRow
    <3> QED
      BY <3>1, <3>3 DEF RenewalInv, RenewalRecords
  <2>3. CASE CallCrashes(r) \/ HearFailure(r)
    BY <2>3 DEF CallCrashes, HearFailure, RenewalInv, RenewalRecords
  <2> QED
    BY <2>1, <2>2, <2>3
<1>4. RenewalRecords'
  BY <1>1, <1>2, <1>3 DEF RenewalInv, RenewalRecords
<1>5. RenewalsAgree'
  <2>1. \A q \in RenewalIds :
          calling'[q] # "NO" \/ charge'[q].state # "NONE" \/ failedAnswer'[q] => renewal'[q] # NoRenewal
    BY <1>1, <1>2, <1>3 DEF RenewalInv, RenewalsAgree
  <2> QED
    BY <1>1, <1>3, <2>1 DEF RenewalInv, RenewalsAgree
<1>6. PaidMonthsCountOnce'
  BY <1>1, <1>3, <1>4, NothingApplied DEF RenewalInv, RenewalsAgree
<1> QED
  BY <1>4, <1>5, <1>6 DEF RenewalInv

\* A renewal is written or moves on, and is not applied by it.
LEMMA RenewalMoves ==
    ASSUME RenewalInv, NEW r \in RenewalIds, NEW row \in AskedRow,
           renewal' = [renewal EXCEPT ![r] = row],
           row.state = "APPLIED" <=> renewal[r].state = "APPLIED",
           row.state = "APPLIED" => row = renewal[r],
           row.state \in {"UNCERTAIN", "PENDING"} =>
              \A q \in RenewalIds : renewal[q].state \in {"UNCERTAIN", "PENDING"} => q = r,
           hour' = hour, charge' = charge, term' = term, access' = access, entitlement' = entitlement,
           work' = work,
           calling' \in [RenewalIds -> {"NO", "BEFORE", "AFTER"}],
           \A q \in RenewalIds \ {r} : calling'[q] # "NO" => calling[q] # "NO",
           failedAnswer' \in [RenewalIds -> BOOLEAN],
           \A q \in RenewalIds : failedAnswer'[q] => failedAnswer[q]
    PROVE  RenewalInv'
<1>1. renewal'[r] = row /\ \A q \in RenewalIds \ {r} : renewal'[q] = renewal[q]
  BY DEF RenewalInv, RenewalRecords
<1>2. row # NoRenewal
  BY DEF AskedRow, NoRenewal
<1>3. RenewalRecords'
  <2>1. row \in RenewalRow
    BY DEF RenewalRow
  <2>2. renewal' \in [RenewalIds -> RenewalRow]
    BY <2>1 DEF RenewalInv, RenewalRecords
  <2> QED
    BY <2>2 DEF RenewalInv, RenewalRecords
<1>4. \A q \in RenewalIds :
         /\ renewal'[q].state = "APPLIED" <=> renewal[q].state = "APPLIED"
         /\ renewal[q].state = "APPLIED" => renewal'[q] = renewal[q]
  BY <1>1
<1>5. RenewalsAgree'
  <2>1. \A q \in RenewalIds :
          calling'[q] # "NO" \/ charge'[q].state # "NONE" \/ failedAnswer'[q] => renewal'[q] # NoRenewal
    BY <1>1, <1>2 DEF RenewalInv, RenewalsAgree
  <2>2. \A q \in RenewalIds :
          /\ renewal'[q].state = "APPLIED" => charge'[q].state = "SUCCEEDED"
          /\ entitlement'[q].state # "NONE"
                => renewal'[q].state = "APPLIED" /\ renewal'[q].previous <= entitlement'[q].at
    BY <1>4 DEF RenewalInv, RenewalsAgree
  <2>3. \A q, t \in RenewalIds :
          {renewal'[q].state, renewal'[t].state} \subseteq {"UNCERTAIN", "PENDING"} => q = t
    BY <1>1 DEF RenewalInv, RenewalsAgree
  <2> QED
    BY <2>1, <2>2, <2>3 DEF RenewalInv, RenewalsAgree
<1>6. PaidMonthsCountOnce'
  BY <1>3, <1>4, NothingApplied
<1> QED
  BY <1>3, <1>5, <1>6 DEF RenewalInv

\* A renewal is asked for: no other one waits.
LEMMA AskRenewalStep ==
    ASSUME RenewalInv, NEW p \in Packages, NEW m \in Terms, AskRenewal(p, m) PROVE RenewalInv'
<1>1. PICK r \in RenewalIds :
        /\ \A q \in RenewalIds : renewal[q] = NoRenewal <=> q >= r
        /\ renewal' = [renewal EXCEPT ![r] =
              [state |-> "UNCERTAIN", package |-> p, months |-> m, previous |-> term.expiry]]
        /\ calling' = [calling EXCEPT ![r] = "BEFORE"]
  BY DEF AskRenewal
<1> DEFINE row == [state |-> "UNCERTAIN", package |-> p, months |-> m, previous |-> term.expiry]
<1>2. renewal[r] = NoRenewal
  BY <1>1, RenewalAssumption DEF RenewalIds
<1>3. row \in AskedRow /\ row.state = "UNCERTAIN"
  BY ExpiryIsNat DEF AskedRow
<1>4. renewal' = [renewal EXCEPT ![r] = row]
  BY <1>1
<1>5. renewal[r].state # "APPLIED"
  BY <1>2 DEF NoRenewal
<1>6. \A q \in RenewalIds : ~(renewal[q].state \in {"UNCERTAIN", "PENDING"})
  BY DEF AskRenewal, RenewalOpen
<1>7. /\ calling' \in [RenewalIds -> {"NO", "BEFORE", "AFTER"}]
      /\ \A q \in RenewalIds \ {r} : calling'[q] = calling[q]
  BY <1>1 DEF RenewalInv, RenewalRecords
<1>8. /\ hour' = hour /\ charge' = charge /\ failedAnswer' = failedAnswer /\ term' = term
      /\ access' = access /\ entitlement' = entitlement /\ work' = work
      /\ failedAnswer \in [RenewalIds -> BOOLEAN]
  BY DEF AskRenewal, RenewalInv, RenewalRecords
<1> HIDE DEF row
<1> QED
  BY <1>3, <1>4, <1>5, <1>6, <1>7, <1>8, RenewalMoves

\* A renewal that was asked for has all its fields.
LEMMA ProperRow ==
    ASSUME RenewalInv, NEW r \in RenewalIds, renewal[r] # NoRenewal PROVE renewal[r] \in AskedRow
  BY DEF RenewalInv, RenewalRecords, RenewalRow

\* What a change of the state leaves of a renewal.
LEMMA StateMoves ==
    ASSUME NEW old \in AskedRow, NEW s \in {"UNCERTAIN", "PENDING", "FAILED", "APPLIED", "RECONCILE"}
    PROVE  /\ [old EXCEPT !.state = s] \in AskedRow /\ [old EXCEPT !.state = s].state = s
           /\ [old EXCEPT !.state = s].months = old.months /\ [old EXCEPT !.state = s].package = old.package
           /\ [old EXCEPT !.state = s].previous = old.previous
           /\ s = old.state => [old EXCEPT !.state = s] = old
  BY DEF AskedRow

\* The invoice is stored.
LEMMA StoreChargeStep == ASSUME RenewalInv, NEW r \in RenewalIds, StoreCharge(r) PROVE RenewalInv'
<1> DEFINE s == IF renewal[r].state = "UNCERTAIN" THEN "PENDING" ELSE renewal[r].state
           row == [renewal[r] EXCEPT !.state = s]
<1>1. renewal[r] \in AskedRow
  BY ProperRow DEF StoreCharge, RenewalInv, RenewalsAgree
<1>2. s \in {"UNCERTAIN", "PENDING", "FAILED", "APPLIED", "RECONCILE"}
  BY <1>1 DEF AskedRow
<1>3. renewal' = [renewal EXCEPT ![r] = row]
  BY DEF StoreCharge, RenewalInv, RenewalRecords
<1>4. s = "APPLIED" <=> renewal[r].state = "APPLIED"
  OBVIOUS
<1>5. s \in {"UNCERTAIN", "PENDING"} => renewal[r].state \in {"UNCERTAIN", "PENDING"}
  OBVIOUS
<1> HIDE DEF s
<1>6. row \in AskedRow /\ row.state = s /\ (s = renewal[r].state => row = renewal[r])
  <2> DEFINE old == renewal[r]
  <2>1. old \in AskedRow
    BY <1>1
  <2> HIDE DEF old
  <2>2. /\ [old EXCEPT !.state = s] \in AskedRow /\ [old EXCEPT !.state = s].state = s
        /\ s = old.state => [old EXCEPT !.state = s] = old
    BY <1>2, <2>1 DEF AskedRow
  <2> QED
    BY <2>2 DEF old
<1> HIDE DEF row
<1>7. \A q \in RenewalIds : {renewal[q].state, renewal[r].state} \subseteq {"UNCERTAIN", "PENDING"} => q = r
  BY DEF RenewalInv, RenewalsAgree
<1>8. /\ calling' \in [RenewalIds -> {"NO", "BEFORE", "AFTER"}]
      /\ \A q \in RenewalIds \ {r} : calling'[q] = calling[q]
  BY DEF StoreCharge, RenewalInv, RenewalRecords
<1>9. /\ hour' = hour /\ charge' = charge /\ failedAnswer' = failedAnswer /\ term' = term
      /\ access' = access /\ entitlement' = entitlement /\ work' = work
      /\ failedAnswer \in [RenewalIds -> BOOLEAN]
  BY DEF StoreCharge, RenewalInv, RenewalRecords
<1> QED
  BY <1>3, <1>4, <1>5, <1>6, <1>7, <1>8, <1>9, RenewalMoves

\* The failure of an invoice is applied.
LEMMA ApplyFailureStep == ASSUME RenewalInv, NEW r \in RenewalIds, ApplyFailure(r) PROVE RenewalInv'
<1> DEFINE s == IF Settled(r) THEN renewal[r].state ELSE "FAILED"
           row == [renewal[r] EXCEPT !.state = s]
<1>1. renewal[r] \in AskedRow
  BY ProperRow DEF ApplyFailure, RenewalInv, RenewalsAgree
<1>2. s \in {"UNCERTAIN", "PENDING", "FAILED", "APPLIED", "RECONCILE"}
  BY <1>1 DEF AskedRow
<1>3. renewal' = [renewal EXCEPT ![r] = row]
  BY DEF ApplyFailure, RenewalInv, RenewalRecords
<1>4. s = "APPLIED" <=> renewal[r].state = "APPLIED"
  BY DEF Settled
<1>5. s \notin {"UNCERTAIN", "PENDING"}
  BY DEF Settled
<1> HIDE DEF s
<1>6. row \in AskedRow /\ row.state = s /\ (s = renewal[r].state => row = renewal[r])
  <2> DEFINE old == renewal[r]
  <2>1. old \in AskedRow
    BY <1>1
  <2> HIDE DEF old
  <2>2. /\ [old EXCEPT !.state = s] \in AskedRow /\ [old EXCEPT !.state = s].state = s
        /\ s = old.state => [old EXCEPT !.state = s] = old
    BY <1>2, <2>1 DEF AskedRow
  <2> QED
    BY <2>2 DEF old
<1> HIDE DEF row
<1>8. failedAnswer' \in [RenewalIds -> BOOLEAN] /\ \A q \in RenewalIds : failedAnswer'[q] => failedAnswer[q]
  BY DEF ApplyFailure, RenewalInv, RenewalRecords
<1>9. /\ hour' = hour /\ charge' = charge /\ calling' = calling /\ term' = term
      /\ access' = access /\ entitlement' = entitlement /\ work' = work
      /\ calling \in [RenewalIds -> {"NO", "BEFORE", "AFTER"}]
  BY DEF ApplyFailure, RenewalInv, RenewalRecords
<1> QED
  BY <1>3, <1>4, <1>5, <1>6, <1>8, <1>9, RenewalMoves

\* A capture for a term that is over, or for a package below the floor, changes nothing.
LEMMA KeptForReconciliationStep ==
    ASSUME RenewalInv, NEW r \in RenewalIds, ApplyCapturedCharge(r), ~StillFits(r) PROVE RenewalInv'
<1> DEFINE row == [renewal[r] EXCEPT !.state = "RECONCILE"]
<1>1. renewal[r] \in AskedRow /\ renewal[r].state # "APPLIED"
  BY ProperRow DEF ApplyCapturedCharge, Settled
<1>2. renewal' = [renewal EXCEPT ![r] = row] /\ row \in AskedRow /\ row.state = "RECONCILE"
  BY <1>1, StateMoves DEF ApplyCapturedCharge, RenewalInv, RenewalRecords
<1> HIDE DEF row
<1>3. /\ hour' = hour /\ charge' = charge /\ calling' = calling /\ failedAnswer' = failedAnswer
      /\ term' = term /\ access' = access /\ entitlement' = entitlement /\ work' = work
      /\ calling \in [RenewalIds -> {"NO", "BEFORE", "AFTER"}] /\ failedAnswer \in [RenewalIds -> BOOLEAN]
  BY DEF ApplyCapturedCharge, RenewalInv, RenewalRecords
<1> QED
  BY <1>1, <1>2, <1>3, RenewalMoves

\* The bound is a number, and no time exceeds it, before and after a step.
PaidTimesBounded == Max(PaidTimes) \in Nat /\ \A t \in PaidTimes : Max(PaidTimes) >= t

\* The bound of one state ...
LEMMA PaidTimesStayBounded == RenewalRecords => PaidTimesBounded
  BY PaidTimesMax DEF PaidTimesBounded

\* ... and of the next.
LEMMA PaidTimesMaxNext == ASSUME RenewalRecords' PROVE PaidTimesBounded'
<1>1. RenewalRecords' => PaidTimesBounded'
  BY PaidTimesStayBounded, PTL
<1> QED
  BY <1>1

\* The packages of some renewals are finitely many.
LEMMA PackagesOffered ==
    ASSUME NEW due, due \subseteq RenewalIds, NEW p
    PROVE  IsFiniteSet({p} \cup {renewal[r].package : r \in due})
<1> DEFINE T == {renewal[r].package : r \in due}
           f == [r \in due |-> renewal[r].package]
<1>1. IsFiniteSet(due)
  BY IdsFinite
<1>2. f \in Surjection(due, T)
  BY DEF Surjection
<1> HIDE DEF f, T
<1>3. IsFiniteSet(T)
  BY <1>1, <1>2, FS_Surjection
<1>4. {p} \cup T = T \cup {p}
  OBVIOUS
<1>5. IsFiniteSet({p} \cup T)
  BY <1>3, <1>4, FS_AddElement
<1> QED
  BY <1>5 DEF T

\* A capture that fits: the months are added once, to the term they were asked for.
LEMMA GrantedStep ==
    ASSUME RenewalInv, NEW r \in RenewalIds, ApplyCapturedCharge(r), StillFits(r)
    PROVE  /\ RenewalInv'
           /\ term'.floor >= term.floor /\ access'.package >= access.package
           /\ access'.package # access.package =>
                 /\ renewal'[r].state = "APPLIED" /\ renewal[r].package = access'.package
                 /\ renewal[r].previous <= hour
<1> DEFINE captured == charge[r].at
           start == StartOf(term.expiry, captured)
           months == renewal[r].months
           at == EffectiveAt(captured)
           now == at <= hour
           row == [renewal[r] EXCEPT !.state = "APPLIED"]
           entry == [state |-> IF now THEN "APPLIED" ELSE "DUE", at |-> at]
           package == IF now THEN Max({access.package, renewal[r].package}) ELSE access.package
           opened == [access EXCEPT !.expiry = start + months, !.package = package]
<1>1. /\ renewal' = [renewal EXCEPT ![r] = row]
      /\ term' = [expiry |-> start + months, floor |-> renewal[r].package]
      /\ access' = opened
      /\ entitlement' = [entitlement EXCEPT ![r] = entry]
      /\ hour' = hour /\ calling' = calling /\ charge' = charge /\ failedAnswer' = failedAnswer /\ work' = work
      /\ renewal[r] # NoRenewal /\ renewal[r].state # "APPLIED" /\ charge[r].state = "SUCCEEDED"
  BY DEF ApplyCapturedCharge, Settled, RenewalInv, RenewalRecords
<1>2. /\ renewal[r] \in AskedRow /\ renewal[r].package \in Packages /\ renewal[r].package \in Nat /\ months \in Nat
      /\ captured \in Nat /\ renewal[r].previous = term.expiry /\ renewal[r].package >= term.floor
  <2>1. renewal[r] \in AskedRow /\ renewal[r] \in RenewalRow
    BY <1>1, ProperRow DEF RenewalRow
  <2>2. renewal[r].package \in Packages
    BY <2>1 DEF AskedRow
  <2>3. charge[r].at \in 0 .. LastCapture
    BY DEF RenewalInv, RenewalRecords, ChargeRow
  <2> QED
    BY <2>1, <2>2, <2>3, RowNumbers, RenewalAssumption DEF StillFits
<1>3. row \in AskedRow /\ row.state = "APPLIED" /\ row.months = months /\ row.previous = renewal[r].previous
  BY <1>2, StateMoves
<1>4. start \in Nat /\ start >= term.expiry /\ start \in {term.expiry, captured}
  BY <1>2, ExpiryIsNat DEF StartOf, Grace
<1>5. at \in Nat /\ at >= term.expiry
  <2> DEFINE e == term.expiry
             c == captured
  <2>1. e \in Nat /\ c \in Nat /\ at = Max({e, c})
    BY <1>2, ExpiryIsNat DEF EffectiveAt
  <2> HIDE DEF e, c, captured, at
  <2>2. e \in Int /\ c \in Int
    BY <2>1
  <2>3. Max({e, c}) \in {e, c} /\ Max({e, c}) >= e
    BY <2>2, MaxOfTwo
  <2>4. at \in Nat /\ at >= e
    BY <2>1, <2>3
  <2> QED
    BY <2>4 DEF e
<1>6. package \in Packages /\ package \in Nat /\ package >= access.package
      /\ (package # access.package => now /\ package = renewal[r].package)
  <2>1. access.package \in Int /\ renewal[r].package \in Int
    BY <1>2, ExpiryIsNat
  <2>2. CASE now
    BY <1>2, <2>1, <2>2, ExpiryIsNat, MaxOfTwo
  <2>3. CASE ~now
    BY <2>3, ExpiryIsNat
  <2> QED
    BY <2>2, <2>3
<1>7. /\ opened \in [expiry : Nat, package : Packages, suspended : BOOLEAN]
      /\ opened.expiry = start + months /\ opened.package = package
  <2> DEFINE e == start + months
  <2>1. e \in Nat /\ package \in Packages
    BY <1>2, <1>4, <1>6
  <2>2. access \in [expiry : Nat, package : Packages, suspended : BOOLEAN]
    BY DEF RenewalInv, RenewalRecords
  <2>3. opened = [access EXCEPT !.expiry = e, !.package = package]
    OBVIOUS
  <2> HIDE DEF package, e, opened
  <2>4. /\ opened \in [expiry : Nat, package : Packages, suspended : BOOLEAN]
        /\ opened.expiry = e /\ opened.package = package
    BY <2>1, <2>2, <2>3
  <2> QED
    BY <2>4 DEF e
<1>8. entry \in EntitlementRow /\ entry.at = at /\ entry.state # "NONE"
  BY <1>5 DEF EntitlementRow
<1>9. at <= hour => renewal[r].previous <= hour
  BY <1>2, <1>5, ExpiryIsNat
<1>10. now <=> at <= hour
  OBVIOUS
<1> HIDE DEF captured, start, months, at, now, row, entry, package, opened
<1>11. renewal'[r] = row /\ \A q \in RenewalIds \ {r} : renewal'[q] = renewal[q]
  BY <1>1 DEF RenewalInv, RenewalRecords
<1>12. RenewalRecords'
  <2>1. row \in RenewalRow
    BY <1>3 DEF RenewalRow
  <2>2. renewal' \in [RenewalIds -> RenewalRow] /\ entitlement' \in [RenewalIds -> EntitlementRow]
    BY <1>1, <1>8, <2>1 DEF RenewalInv, RenewalRecords
  <2>3. term' \in [expiry : Nat, floor : Packages]
    BY <1>1, <1>2, <1>4
  <2> QED
    BY <1>1, <1>7, <2>2, <2>3 DEF RenewalInv, RenewalRecords
<1>13. RenewalsAgree'
  <2>1. row # NoRenewal
    BY <1>3 DEF NoRenewal
  <2>2. \A q \in RenewalIds :
          calling'[q] # "NO" \/ charge'[q].state # "NONE" \/ failedAnswer'[q] => renewal'[q] # NoRenewal
    BY <1>1, <1>11, <2>1 DEF RenewalInv, RenewalsAgree
  <2>3. \A q \in RenewalIds : renewal'[q].state = "APPLIED" => charge'[q].state = "SUCCEEDED"
    BY <1>1, <1>11 DEF RenewalInv, RenewalsAgree
  <2>4. \A q \in RenewalIds : entitlement'[q].state # "NONE"
          => renewal'[q].state = "APPLIED" /\ renewal'[q].previous <= entitlement'[q].at
    <3> TAKE q \in RenewalIds
    <3>1. CASE q = r
      <4>1. entitlement'[q].at = at /\ renewal'[q].previous = term.expiry /\ renewal'[q].state = "APPLIED"
        BY <1>1, <1>2, <1>3, <1>8, <1>11, <3>1 DEF RenewalInv, RenewalRecords
      <4> QED
        BY <1>5, <4>1, ExpiryIsNat
    <3>2. CASE q # r
      BY <1>1, <1>11, <3>2 DEF RenewalInv, RenewalRecords, RenewalsAgree
    <3> QED
      BY <3>1, <3>2
  <2>5. \A q, t \in RenewalIds :
          {renewal'[q].state, renewal'[t].state} \subseteq {"UNCERTAIN", "PENDING"} => q = t
    BY <1>3, <1>11 DEF RenewalInv, RenewalsAgree
  <2>6. work' # 0 => work' <= access'.expiry
    <3>1. access'.expiry \in Nat /\ access'.expiry >= access.expiry
      BY <1>1, <1>2, <1>4, <1>7, ExpiryIsNat
    <3> QED
      BY <1>1, <3>1, ExpiryIsNat DEF RenewalInv, RenewalsAgree
  <2> QED
    BY <2>2, <2>3, <2>4, <2>5, <2>6 DEF RenewalsAgree
<1>14. AppliedRenewals' = AppliedRenewals \cup {r} /\ r \notin AppliedRenewals
  BY <1>1, <1>3, <1>11 DEF AppliedRenewals
<1>15. MonthsApplied' = MonthsApplied + months
  <2> DEFINE S == AppliedRenewals
             f == MonthsOf
             h == MonthsOf'
  <2>1. IsFiniteSet(S) /\ r \notin S
    BY <1>14, MonthsAreNat DEF RenewalInv
  <2>2. \A x \in S : f[x] \in Int /\ h[x] = f[x]
    <3>1. \A x \in S : x \in RenewalIds /\ f[x] \in Nat
      BY MonthsAreNat DEF RenewalInv
    <3>2. \A x \in S : h[x] = f[x]
      BY <1>11, <1>14, <3>1 DEF MonthsOf
    <3> QED
      BY <3>1, <3>2
  <2>3. h[r] = months
    BY <1>3, <1>11 DEF MonthsOf
  <2>4. MonthsApplied' = SumFunctionOnSet(h, S \cup {r})
    BY <1>14 DEF MonthsApplied
  <2>5. MonthsApplied = SumFunctionOnSet(f, S)
    BY DEF MonthsApplied
  <2>6. h[r] \in Int
    BY <1>2, <2>3
  <2> HIDE DEF f, h, S
  <2>7. SumFunctionOnSet(h, S \cup {r}) = SumFunctionOnSet(f, S) + h[r]
    BY <2>1, <2>2, <2>6, SumEnters
  <2> QED
    BY <2>3, <2>4, <2>5, <2>7
<1>16. PaidTimes' = PaidTimes \cup {captured}
  BY <1>1, <1>14 DEF PaidTimes, captured
<1>17. PaidMonthsCountOnce'
  <2> DEFINE M == Max(PaidTimes)
             N == Max(PaidTimes)'
  <2>1. M \in PaidTimes /\ M \in Nat
    BY PaidTimesMax DEF RenewalInv
  <2>2. N \in Nat /\ \A t \in PaidTimes' : N >= t
    BY <1>12, PaidTimesMaxNext DEF PaidTimesBounded, N
  <2>3. N >= M /\ N >= captured
    BY <1>16, <2>1, <2>2
  <2>4. /\ term.expiry >= FirstExpiry + MonthsApplied /\ term.expiry <= M + MonthsApplied
        /\ MonthsApplied \in Nat
    BY MonthsAreNat DEF RenewalInv, PaidMonthsCountOnce, PaidTimes
  <2>5. term'.expiry = start + months /\ access'.expiry = start + months
    BY <1>1, <1>7
  <2> HIDE DEF M, N
  <2>6. start >= FirstExpiry + MonthsApplied
    BY <1>4, <2>4, ExpiryIsNat DEF FirstExpiry
  <2>7. start <= N + MonthsApplied
    BY <1>2, <1>4, <2>1, <2>2, <2>3, <2>4, ExpiryIsNat
  <2>8. start + months >= FirstExpiry + (MonthsApplied + months) /\ start + months <= N + (MonthsApplied + months)
    BY <1>2, <1>4, <2>2, <2>4, <2>6, <2>7 DEF FirstExpiry
  <2> QED
    BY <1>15, <2>5, <2>8 DEF PaidMonthsCountOnce, PaidTimes, N
<1>18. term'.floor >= term.floor /\ access'.package >= access.package
  BY <1>1, <1>2, <1>6, <1>7
<1>19. access'.package # access.package =>
          renewal'[r].state = "APPLIED" /\ renewal[r].package = access'.package /\ renewal[r].previous <= hour
  BY <1>1, <1>3, <1>6, <1>7, <1>9, <1>10, <1>11
<1> QED
  BY <1>12, <1>13, <1>17, <1>18, <1>19 DEF RenewalInv

\* The packages that are due take effect, none of them lower than the one in use.
LEMMA ApplyDueStep ==
    ASSUME RenewalInv, ApplyDue
    PROVE  /\ RenewalInv'
           /\ access'.package >= access.package
           /\ access'.package # access.package =>
                 \E r \in RenewalIds : /\ renewal[r].state = "APPLIED" /\ renewal[r].package = access'.package
                                       /\ renewal[r].previous <= hour
<1> DEFINE due == {r \in RenewalIds : IsDue(r)}
           offered == {access.package} \cup {renewal[r].package : r \in due}
           package == Max(offered)
<1>1. /\ access' = [access EXCEPT !.package = package]
      /\ entitlement' = [r \in RenewalIds |->
            IF r \in due THEN [entitlement[r] EXCEPT !.state = "APPLIED"] ELSE entitlement[r]]
      /\ hour' = hour /\ renewal' = renewal /\ calling' = calling /\ charge' = charge
      /\ failedAnswer' = failedAnswer /\ term' = term /\ work' = work
  BY DEF ApplyDue
<1>2. \A r \in due : /\ r \in RenewalIds /\ renewal[r].state = "APPLIED" /\ renewal[r].package \in Packages
                     /\ renewal[r].package \in Nat /\ renewal[r].previous <= hour
  <2> TAKE r \in due
  <2>1. r \in RenewalIds /\ entitlement[r].state = "DUE" /\ entitlement[r].at <= hour
    BY DEF IsDue
  <2>2. renewal[r].state = "APPLIED" /\ renewal[r].previous <= entitlement[r].at /\ entitlement[r].at \in Nat
    BY <2>1 DEF RenewalInv, RenewalRecords, RenewalsAgree, EntitlementRow
  <2>3. renewal[r] \in AskedRow /\ renewal[r] \in RenewalRow
    BY <2>1, <2>2, ProperRow DEF NoRenewal, RenewalRow
  <2>4. renewal[r].package \in Packages
    BY <2>3 DEF AskedRow
  <2>5. renewal[r].previous \in Nat /\ renewal[r].package \in Nat
    BY <2>3, RowNumbers
  <2> QED
    BY <2>1, <2>2, <2>4, <2>5, ExpiryIsNat
<1>3. /\ package \in offered /\ package \in Packages /\ package \in Nat /\ package >= access.package
      /\ package # access.package => \E r \in due : renewal[r].package = package
  <2>1. IsFiniteSet(offered)
    BY PackagesOffered
  <2>2. \A x \in offered : x \in Packages /\ x \in Nat /\ x \in Int
    BY <1>2, ExpiryIsNat
  <2>3. access.package \in offered
    OBVIOUS
  <2>4. package \in offered /\ \A y \in offered : package >= y
    <3> HIDE DEF offered
    <3> QED
      BY <2>1, <2>2, <2>3, MaxOf
  <2>5. package # access.package => \E r \in due : renewal[r].package = package
    BY <2>4
  <2> HIDE DEF offered, package
  <2> QED
    BY <2>2, <2>3, <2>4, <2>5
<1>4. \A r \in RenewalIds : entitlement[r] \in EntitlementRow
  BY DEF RenewalInv, RenewalRecords
<1> HIDE DEF package, offered
<1>5. \A r \in RenewalIds : /\ entitlement'[r] \in EntitlementRow /\ entitlement'[r].at = entitlement[r].at
                            /\ entitlement'[r].state # "NONE" => entitlement[r].state # "NONE"
  <2> TAKE r \in RenewalIds
  <2> DEFINE applied == [entitlement[r] EXCEPT !.state = "APPLIED"]
  <2>1. applied \in EntitlementRow /\ applied.at = entitlement[r].at
    BY <1>4 DEF EntitlementRow
  <2>2. r \in due => entitlement[r].state # "NONE"
    BY DEF IsDue
  <2>3. entitlement'[r] = IF r \in due THEN applied ELSE entitlement[r]
    BY <1>1
  <2> HIDE DEF applied, due
  <2> QED
    BY <1>4, <2>1, <2>2, <2>3
<1>6. entitlement' \in [RenewalIds -> EntitlementRow]
  BY <1>1, <1>5
<1> HIDE DEF due
<1>7. access' \in [expiry : Nat, package : Packages, suspended : BOOLEAN]
      /\ access'.expiry = access.expiry /\ access'.package = package
  <2>1. access \in [expiry : Nat, package : Packages, suspended : BOOLEAN]
    BY DEF RenewalInv, RenewalRecords
  <2> QED
    BY <1>1, <1>3, <2>1
<1>8. RenewalRecords'
  BY <1>1, <1>6, <1>7 DEF RenewalInv, RenewalRecords
<1>9. RenewalsAgree'
  <2>1. \A r \in RenewalIds : entitlement'[r].state # "NONE"
          => renewal[r].state = "APPLIED" /\ renewal[r].previous <= entitlement'[r].at
    BY <1>5 DEF RenewalInv, RenewalsAgree
  <2> QED
    BY <1>1, <1>7, <2>1 DEF RenewalInv, RenewalsAgree
<1>10. PaidMonthsCountOnce'
  <2>1. \A r \in RenewalIds : renewal'[r] = renewal[r] /\ charge'[r] = charge[r]
    BY <1>1
  <2> QED
    BY <1>1, <1>7, <1>8, <2>1, NothingApplied
<1>11. access'.package # access.package =>
         \E r \in RenewalIds : /\ renewal[r].state = "APPLIED" /\ renewal[r].package = access'.package
                               /\ renewal[r].previous <= hour
  BY <1>2, <1>3, <1>7
<1> QED
  BY <1>3, <1>7, <1>8, <1>9, <1>10, <1>11 DEF RenewalInv

-----------------------------------------------------------------------------
\* What no step of a renewal does to the package and the floor.
PackageFollows ==
    /\ access'.package >= access.package /\ term'.floor >= term.floor
    /\ access'.package # access.package =>
          \E r \in RenewalIds :
              /\ renewal'[r].state = "APPLIED" /\ renewal[r].package = access'.package
              /\ renewal[r].previous <= hour

\* A step that leaves the package and the floor alone.
LEMMA PackageStays ==
    ASSUME RenewalInv, access'.package = access.package, term'.floor = term.floor
    PROVE  PackageFollows
  BY ExpiryIsNat DEF PackageFollows

\* Every step keeps the invariant and lets no package or floor fall.
LEMMA RenewalStepKeeps ==
    ASSUME RenewalInv, [RenewalNext]_renewalVars
    PROVE  RenewalInv' /\ PackageFollows
<1>1. CASE UNCHANGED renewalVars
  <2>1. /\ hour' = hour /\ charge' = charge /\ calling' = calling /\ failedAnswer' = failedAnswer
        /\ term' = term /\ access' = access /\ entitlement' = entitlement /\ work' = work
        /\ renewal' = renewal
    BY <1>1 DEF renewalVars
  <2>2. RenewalRecords'
    BY <2>1 DEF RenewalInv, RenewalRecords
  <2>3. RenewalsAgree'
    BY <2>1 DEF RenewalInv, RenewalsAgree
  <2>4. PaidMonthsCountOnce'
    BY <2>1, <2>2, NothingApplied
  <2> QED
    BY <2>1, <2>2, <2>3, <2>4, PackageStays DEF RenewalInv
<1>2. CASE \E p \in Packages, m \in Terms : AskRenewal(p, m)
  <2>1. PICK p \in Packages, m \in Terms : AskRenewal(p, m)
    BY <1>2
  <2>2. access' = access /\ term' = term
    BY <2>1 DEF AskRenewal
  <2> QED
    BY <2>1, <2>2, AskRenewalStep, PackageStays
<1>3. CASE BeginWork \/ CompleteWork \/ Suspend \/ TimePasses
  <2>1. access'.package = access.package /\ term' = term
    BY <1>3 DEF BeginWork, CompleteWork, Suspend, TimePasses, RenewalInv, RenewalRecords
  <2> QED
    BY <1>3, <2>1, GateStep, PackageStays
<1>4. CASE ApplyDue
  <2>1. renewal' = renewal /\ term' = term
    BY <1>4 DEF ApplyDue
  <2> QED
    BY <1>4, <2>1, ApplyDueStep, ExpiryIsNat DEF PackageFollows
<1>5. ASSUME NEW r \in RenewalIds, RenewalStep(r) PROVE RenewalInv' /\ PackageFollows
  <2>1. CASE CreateCharge(r) \/ CallCrashes(r) \/ ChargeChanges(r) \/ HearFailure(r)
    <3>1. access' = access /\ term' = term
      BY <2>1 DEF CreateCharge, CallCrashes, ChargeChanges, HearFailure
    <3> QED
      BY <2>1, <3>1, ChargeStep, PackageStays
  <2>2. CASE StoreCharge(r)
    <3>1. access' = access /\ term' = term
      BY <2>2 DEF StoreCharge
    <3> QED
      BY <2>2, <3>1, StoreChargeStep, PackageStays
  <2>3. CASE ApplyFailure(r)
    <3>1. access' = access /\ term' = term
      BY <2>3 DEF ApplyFailure
    <3> QED
      BY <2>3, <3>1, ApplyFailureStep, PackageStays
  <2>4. CASE ApplyCapturedCharge(r) /\ StillFits(r)
    BY <2>4, GrantedStep DEF PackageFollows
  <2>5. CASE ApplyCapturedCharge(r) /\ ~StillFits(r)
    <3>1. access' = access /\ term' = term
      BY <2>5 DEF ApplyCapturedCharge
    <3> QED
      BY <2>5, <3>1, KeptForReconciliationStep, PackageStays
  <2> QED
    BY <1>5, <2>1, <2>2, <2>3, <2>4, <2>5 DEF RenewalStep
<1> QED
  BY <1>1, <1>2, <1>3, <1>4, <1>5 DEF RenewalNext

\* The invariant holds always.
LEMMA RenewalInvariance == RenewalSpec => []RenewalInv
<1>1. RenewalInv /\ [RenewalNext]_renewalVars => RenewalInv'
  BY RenewalStepKeeps
<1> QED
  BY <1>1, InitRenewalInv, PTL DEF RenewalSpec

\* Every renewal of a hotel, its term, its package and the work behind the gate are of
\* their kinds, and no two invoices wait for their payment at once.
LEMMA RenewalTypes == RenewalInv => RenewalTypeOK
<1> SUFFICES ASSUME RenewalInv PROVE RenewalTypeOK
  OBVIOUS
<1>1. Cardinality({r \in RenewalIds : renewal[r].state \in {"UNCERTAIN", "PENDING"}}) <= 1
  <2> DEFINE open == {r \in RenewalIds : renewal[r].state \in {"UNCERTAIN", "PENDING"}}
  <2>1. \A q, r \in open : q = r
    BY DEF RenewalInv, RenewalsAgree
  <2> HIDE DEF open
  <2>2. open = {} \/ \E r : open = {r}
    BY <2>1
  <2>3. Cardinality(open) = 0 \/ Cardinality(open) = 1
    BY <2>2, FS_EmptySet, FS_Singleton
  <2> QED
    BY <2>3 DEF open
<1>2. \A r \in RenewalIds : renewal[r] = NoRenewal \/ renewal[r] \in AskedRow
  BY DEF RenewalInv, RenewalRecords, RenewalRow
<1> QED
  BY <1>1, <1>2 DEF RenewalInv, RenewalRecords, RenewalTypeOK, AskedRow, ChargeRow, EntitlementRow

\* Renewals, invoices, the term, the clock and the lock are of their kinds.
THEOREM RenewalsAreTyped == RenewalSpec => []RenewalTypeOK
<1>1. RenewalInv => RenewalTypeOK
  BY RenewalTypes
<1> QED
  BY <1>1, RenewalInvariance, PTL

\* Work began before the lock, so it may be completed.
LEMMA KeptSubscription == RenewalInv => SubscriptionIsKept
<1> SUFFICES ASSUME RenewalInv PROVE SubscriptionIsKept
  OBVIOUS
<1>1. work # 0 => work < access.expiry + Grace
  BY ExpiryIsNat DEF RenewalInv, RenewalsAgree, Grace
<1> QED
  BY <1>1 DEF RenewalInv, SubscriptionIsKept, WorkCanBeCompleted, MayComplete, LockedAt

\* However late captures are heard: every paid month that was applied is granted once,
\* and a stay that began before the lock may be completed.
THEOREM HotelsGetWhatTheyPaid == RenewalSpec => []SubscriptionIsKept
<1>1. RenewalInv => SubscriptionIsKept
  BY KeptSubscription
<1> QED
  BY <1>1, RenewalInvariance, PTL

\* No step lowers a package or the floor, and a package comes with its renewal, once
\* the term before is over.
THEOREM PackagesFollowTerms == RenewalSpec => PackageFollowsTerm
<1>1. RenewalInv /\ [RenewalNext]_renewalVars => [PackageFollows]_renewalVars
  BY RenewalStepKeeps
<1> QED
  BY <1>1, RenewalInvariance, PTL DEF RenewalSpec, PackageFollowsTerm, PackageFollows

-----------------------------------------------------------------------------
(***************************************************************************)
(* Staff mail. A letter is not sent more often than its attempts, although *)
(* workers come back late: every claimed attempt has at most one worker    *)
(* that may still send it, so what was sent and what may still be sent are *)
(* counted together.                                                       *)
(***************************************************************************)

IntentRow == [state : {"NONE", "WAITING"} \cup Ended, attempts : 0 .. MaxAttempts,
              lease : Postmen \cup {NoPostman}, runs : BOOLEAN]
RoundRow == {Idle} \cup [letter : Letters, step : Steps]

MailRecords ==
    /\ current \subseteq Letters /\ resting \subseteq Letters
    /\ intent \in [Letters -> IntentRow]
    /\ round \in [Postmen -> RoundRow]
    /\ sent \in [Letters -> Nat]

\* The workers that may still hand the letter to the transport, each for the attempt it
\* claimed, whoever holds the lease by now.
MayStillSend(i) == {w \in Postmen : round[w].letter = i /\ round[w].step \in {"CLAIMED", "PREPARED"}}

AttemptsCover ==
    \A i \in Letters :
        /\ IsFiniteSet(MayStillSend(i))
        /\ sent[i] + Cardinality(MayStillSend(i)) <= intent[i].attempts

\* What is over is not leased, and was sent if it is said to be.
EndedFits ==
    /\ \A i \in Letters :
          /\ intent[i].state \in Ended => intent[i].lease = NoPostman
          /\ intent[i].state = "DELIVERED" => sent[i] >= 1
    /\ \A w \in Postmen : round[w].step = "DELIVERED" => sent[round[w].letter] >= 1

MailInv == MailRecords /\ AttemptsCover /\ EndedFits

\* No letter is written in the beginning.
LEMMA InitMailInv == MailInit => MailInv
<1> SUFFICES ASSUME MailInit PROVE MailInv
  OBVIOUS
<1>1. MailRecords
  <2>1. intent \in [Letters -> IntentRow]
    BY MailAssumption DEF MailInit, IntentRow
  <2> QED
    BY <2>1 DEF MailInit, MailRecords, RoundRow
<1>2. \A i \in Letters : MayStillSend(i) = {}
  BY DEF MailInit, MayStillSend, Idle
<1>3. AttemptsCover
  <2> SUFFICES \A i \in Letters : /\ IsFiniteSet(MayStillSend(i))
                                  /\ sent[i] + Cardinality(MayStillSend(i)) <= intent[i].attempts
    BY DEF AttemptsCover
  <2>1. IsFiniteSet({}) /\ Cardinality({}) = 0
    BY FS_EmptySet
  <2> QED
    <3> TAKE i \in Letters
    <3>1. sent[i] = 0 /\ intent[i].attempts = 0
      BY DEF MailInit
    <3> QED
      BY <1>2, <2>1, <3>1
<1>4. EndedFits
  BY DEF MailInit, EndedFits, Ended, Idle
<1> QED
  BY <1>1, <1>3, <1>4 DEF MailInv

-----------------------------------------------------------------------------
\* The numbers of a letter.
LEMMA MailNumbers ==
    ASSUME MailInv, NEW i \in Letters
    PROVE  /\ sent[i] \in Nat /\ intent[i] \in IntentRow /\ intent[i].attempts \in Nat
           /\ intent[i].attempts <= MaxAttempts
           /\ IsFiniteSet(MayStillSend(i)) /\ Cardinality(MayStillSend(i)) \in Nat
           /\ sent[i] + Cardinality(MayStillSend(i)) <= intent[i].attempts
<1>1. sent[i] \in Nat /\ intent[i] \in IntentRow
  BY DEF MailInv, MailRecords
<1>2. intent[i].attempts \in 0 .. MaxAttempts
  BY <1>1 DEF IntentRow
<1>3. IsFiniteSet(MayStillSend(i)) /\ sent[i] + Cardinality(MayStillSend(i)) <= intent[i].attempts
  BY DEF MailInv, AttemptsCover
<1>4. Cardinality(MayStillSend(i)) \in Nat
  BY <1>3, FS_CardinalityType
<1> QED
  BY <1>1, <1>2, <1>3, <1>4, MailAssumption

\* Nobody else takes up the letter.
LEMMA NoMoreSend ==
    ASSUME MailInv, NEW i \in Letters, MayStillSend(i)' \subseteq MayStillSend(i),
           sent'[i] = sent[i], intent'[i].attempts = intent[i].attempts
    PROVE  IsFiniteSet(MayStillSend(i)') /\ sent'[i] + Cardinality(MayStillSend(i)') <= intent'[i].attempts
<1> DEFINE S == MayStillSend(i)
           T == MayStillSend(i)'
<1>1. IsFiniteSet(S) /\ Cardinality(S) \in Nat /\ sent[i] \in Nat /\ intent[i].attempts \in Nat
      /\ sent[i] + Cardinality(S) <= intent[i].attempts /\ T \subseteq S
  BY MailNumbers
<1> HIDE DEF S, T
<1>2. IsFiniteSet(T) /\ Cardinality(T) <= Cardinality(S) /\ Cardinality(T) \in Nat
  BY <1>1, FS_Subset, FS_CardinalityType
<1>3. sent[i] + Cardinality(T) <= intent[i].attempts
  BY <1>1, <1>2
<1> QED
  BY <1>2, <1>3 DEF T

\* Rows change and no attempt is counted.
LEMMA RowsChange ==
    ASSUME MailInv, current' \subseteq Letters, resting' \subseteq Letters,
           intent' \in [Letters -> IntentRow], round' = round, sent' = sent,
           \A i \in Letters :
              /\ intent'[i].attempts = intent[i].attempts
              /\ intent'[i].state \in Ended => intent'[i].lease = NoPostman
              /\ intent'[i].state = "DELIVERED" => intent[i].state = "DELIVERED"
    PROVE  MailInv'
<1>1. MailRecords'
  BY DEF MailInv, MailRecords
<1>2. \A i \in Letters : MayStillSend(i)' = MayStillSend(i)
  BY DEF MayStillSend
<1>3. AttemptsCover'
  BY <1>2, NoMoreSend DEF AttemptsCover
<1>4. EndedFits'
  BY DEF MailInv, EndedFits
<1> QED
  BY <1>1, <1>3, <1>4 DEF MailInv

\* A letter is written, its link goes, a lease lapses or a pause ends.
LEMMA LetterStepKeeps ==
    ASSUME MailInv, NEW i \in Letters, LetterStep(i)
    PROVE  MailInv' /\ \A j \in Letters : intent[j].state \in Ended => intent'[j].state = intent[j].state
<1>1. round' = round /\ sent' = sent /\ current' \subseteq Letters /\ resting' \subseteq Letters
  BY DEF LetterStep, WriteIntent, LinkGoes, ClaimLapses, PauseEnds, MailInv, MailRecords
<1>2. intent[i] \in IntentRow
  BY DEF MailInv, MailRecords
<1>3. PICK row \in IntentRow :
        /\ intent' = [intent EXCEPT ![i] = row]
        /\ row.attempts = intent[i].attempts /\ row.lease = intent[i].lease
        /\ row.state \in Ended => row.state = intent[i].state
        /\ intent[i].state \in Ended => row.state = intent[i].state
  <2>1. CASE WriteIntent(i)
    <3> DEFINE row == [intent[i] EXCEPT !.state = "WAITING"]
    <3>1. intent' = [intent EXCEPT ![i] = row] /\ intent[i].state = "NONE"
      BY <2>1 DEF WriteIntent, MailInv, MailRecords
    <3>2. /\ row \in IntentRow /\ row.attempts = intent[i].attempts /\ row.lease = intent[i].lease
          /\ row.state = "WAITING"
      BY <1>2 DEF IntentRow
    <3> HIDE DEF row
    <3> QED
      BY <3>1, <3>2 DEF Ended
  <2>2. CASE ClaimLapses(i)
    <3> DEFINE row == [intent[i] EXCEPT !.runs = FALSE]
    <3>1. intent' = [intent EXCEPT ![i] = row]
      BY <2>2 DEF ClaimLapses, MailInv, MailRecords
    <3>2. /\ row \in IntentRow /\ row.attempts = intent[i].attempts /\ row.lease = intent[i].lease
          /\ row.state = intent[i].state
      BY <1>2 DEF IntentRow
    <3> HIDE DEF row
    <3> QED
      BY <3>1, <3>2 DEF Ended
  <2>3. CASE LinkGoes(i) \/ PauseEnds(i)
    <3>1. intent' = [intent EXCEPT ![i] = intent[i]]
      BY <2>3 DEF LinkGoes, PauseEnds, MailInv, MailRecords
    <3> QED
      BY <1>2, <3>1
  <2> QED
    BY <2>1, <2>2, <2>3 DEF LetterStep
<1>4. intent' \in [Letters -> IntentRow]
  BY <1>3 DEF MailInv, MailRecords
<1>5. \A j \in Letters :
        /\ intent'[j].attempts = intent[j].attempts
        /\ intent'[j].state \in Ended => intent'[j].lease = NoPostman
        /\ intent'[j].state = "DELIVERED" => intent[j].state = "DELIVERED"
        /\ intent[j].state \in Ended => intent'[j].state = intent[j].state
  <2> TAKE j \in Letters
  <2>1. CASE j = i
    <3>1. intent'[j] = row
      BY <1>3, <2>1 DEF MailInv, MailRecords
    <3> QED
      BY <1>3, <2>1, <3>1 DEF MailInv, EndedFits, Ended
  <2>2. CASE j # i
    <3>1. intent'[j] = intent[j]
      BY <1>3, <2>2 DEF MailInv, MailRecords
    <3> QED
      BY <3>1 DEF MailInv, EndedFits
  <2> QED
    BY <2>1, <2>2
<1> QED
  BY <1>1, <1>4, <1>5, RowsChange

-----------------------------------------------------------------------------
(* The rounds.                                                             *)

\* The letters a pass gives up are over, and no attempt is counted by it.
LEMMA SweptRow ==
    ASSUME MailInv, NEW i \in Letters
    PROVE  /\ Swept[i] \in IntentRow /\ Swept[i].attempts = intent[i].attempts
           /\ Swept[i].state \in Ended => Swept[i].lease = NoPostman
           /\ Swept[i].state = "DELIVERED" => intent[i].state = "DELIVERED"
           /\ intent[i].state \in Ended => Swept[i].state = intent[i].state
           /\ Due(i) => Swept[i] = intent[i]
<1> DEFINE dead == [intent[i] EXCEPT !.state = "DEAD", !.lease = NoPostman, !.runs = FALSE]
<1>1. intent[i] \in IntentRow
  BY DEF MailInv, MailRecords
<1>2. dead \in IntentRow /\ dead.attempts = intent[i].attempts /\ dead.lease = NoPostman /\ dead.state = "DEAD"
  BY <1>1 DEF IntentRow, Ended
<1>3. Swept[i] = IF SpentLetter(i) THEN dead ELSE intent[i]
  BY DEF Swept
<1>4. SpentLetter(i) => intent[i].state = "WAITING" /\ intent[i].attempts >= MaxAttempts
  BY DEF SpentLetter
<1>5. intent[i].state \in Ended => intent[i].lease = NoPostman
  BY DEF MailInv, EndedFits
<1>6. Due(i) => ~SpentLetter(i)
  BY <1>4, MailNumbers, MailAssumption DEF Due
<1> HIDE DEF dead
<1> QED
  BY <1>1, <1>2, <1>3, <1>4, <1>5, <1>6 DEF Ended

\* A worker claims a letter: one attempt more is counted, one worker more may send it.
LEMMA ClaimKeeps ==
    ASSUME MailInv, NEW w \in Postmen, Claim(w)
    PROVE  MailInv' /\ \A j \in Letters : intent[j].state \in Ended => intent'[j].state = intent[j].state
<1>1. round[w] = Idle /\ current' = current /\ resting' = resting /\ sent' = sent
  BY DEF Claim
<1>2. \A i \in Letters : w \notin MayStillSend(i)
  BY <1>1 DEF MayStillSend, Idle
<1>3. CASE round' = round /\ intent' = Swept
  <2>1. intent' \in [Letters -> IntentRow]
    <3>1. intent' = [i \in Letters |-> Swept[i]]
      BY <1>3 DEF Swept
    <3> QED
      BY <3>1, SweptRow
  <2>2. \A i \in Letters : intent'[i] = Swept[i]
    BY <1>3
  <2>3. current' \subseteq Letters /\ resting' \subseteq Letters
    BY <1>1 DEF MailInv, MailRecords
  <2>4. MailInv'
    BY <1>1, <1>3, <2>1, <2>2, <2>3, SweptRow, RowsChange
  <2> QED
    BY <2>2, <2>4, SweptRow
<1>4. ASSUME NEW i \in Letters, Due(i),
             intent' = [Swept EXCEPT ![i] =
                [@ EXCEPT !.lease = w, !.runs = TRUE, !.attempts = intent[i].attempts + 1]],
             round' = [round EXCEPT ![w] = [letter |-> i, step |-> "CLAIMED"]]
      PROVE  MailInv' /\ \A j \in Letters : intent[j].state \in Ended => intent'[j].state = intent[j].state
  <2> DEFINE row == [intent[i] EXCEPT !.lease = w, !.runs = TRUE, !.attempts = intent[i].attempts + 1]
             claimed == [letter |-> i, step |-> "CLAIMED"]
  <2>1. intent' = [Swept EXCEPT ![i] = row]
    <3>1. Swept[i] = intent[i] /\ Swept = [j \in Letters |-> Swept[j]]
      BY <1>4, SweptRow DEF Swept
    <3> HIDE DEF Swept
    <3> QED
      BY <1>4, <3>1
  <2>2. row \in IntentRow /\ row.attempts = intent[i].attempts + 1 /\ row.state = "WAITING"
    <3>1. intent[i] \in IntentRow /\ intent[i].attempts + 1 \in 0 .. MaxAttempts
      BY <1>4, MailNumbers, MailAssumption DEF Due
    <3>2. intent[i].state = "WAITING"
      BY <1>4 DEF Due
    <3> QED
      BY <3>1, <3>2 DEF IntentRow
  <2>3. claimed \in RoundRow /\ claimed.letter = i /\ claimed.step = "CLAIMED"
    BY DEF RoundRow, Steps
  <2>4. round' = [round EXCEPT ![w] = claimed]
    BY <1>4
  <2> HIDE DEF row, claimed
  <2>5. intent'[i] = row /\ \A j \in Letters \ {i} : intent'[j] = Swept[j]
    BY <2>1 DEF Swept
  <2>6. intent' \in [Letters -> IntentRow]
    <3>1. intent' = [j \in Letters |-> IF j = i THEN row ELSE Swept[j]]
      BY <2>1 DEF Swept
    <3> QED
      BY <2>2, <3>1, SweptRow
  <2>7. round'[w] = claimed /\ \A v \in Postmen \ {w} : round'[v] = round[v]
    BY <2>4 DEF MailInv, MailRecords
  <2>8. MailRecords'
    BY <1>1, <2>3, <2>4, <2>6 DEF MailInv, MailRecords
  <2>9. MayStillSend(i)' = MayStillSend(i) \cup {w}
    BY <2>3, <2>7 DEF MayStillSend
  <2>10. \A j \in Letters \ {i} : MayStillSend(j)' = MayStillSend(j)
    <3> TAKE j \in Letters \ {i}
    <3>1. w \notin MayStillSend(j)
      BY <1>2
    <3> QED
      BY <2>3, <2>7, <3>1 DEF MayStillSend
  <2>11. AttemptsCover'
    <3>1. \A j \in Letters \ {i} :
            IsFiniteSet(MayStillSend(j)') /\ sent'[j] + Cardinality(MayStillSend(j)') <= intent'[j].attempts
      <4> TAKE j \in Letters \ {i}
      <4>1. intent'[j].attempts = intent[j].attempts
        BY <2>5, SweptRow
      <4>2. MayStillSend(j)' \subseteq MayStillSend(j)
        BY <2>10
      <4>3. sent'[j] = sent[j]
        BY <1>1
      <4> QED
        BY <4>1, <4>2, <4>3, NoMoreSend
    <3> DEFINE S == MayStillSend(i)
               T == MayStillSend(i)'
    <3>2. /\ IsFiniteSet(S) /\ Cardinality(S) \in Nat /\ sent[i] \in Nat /\ intent[i].attempts \in Nat
          /\ sent[i] + Cardinality(S) <= intent[i].attempts /\ T = S \cup {w} /\ w \notin S
      BY <1>2, <2>9, MailNumbers
    <3> HIDE DEF S, T
    <3>3. IsFiniteSet(T) /\ Cardinality(T) = Cardinality(S) + 1
      BY <3>2, FS_AddElement
    <3>4. sent[i] + Cardinality(T) <= intent[i].attempts + 1
      BY <3>2, <3>3
    <3>5. IsFiniteSet(MayStillSend(i)') /\ sent'[i] + Cardinality(MayStillSend(i)') <= intent'[i].attempts
      BY <1>1, <2>2, <2>5, <3>3, <3>4 DEF T
    <3> QED
      BY <3>1, <3>5 DEF AttemptsCover
  <2>12. EndedFits'
    <3>1. \A j \in Letters : /\ intent'[j].state \in Ended => intent'[j].lease = NoPostman
                             /\ intent'[j].state = "DELIVERED" => sent'[j] >= 1
      BY <1>1, <2>2, <2>5, SweptRow DEF MailInv, EndedFits, Ended
    <3>2. \A v \in Postmen : round'[v].step = "DELIVERED" => sent'[round'[v].letter] >= 1
      BY <1>1, <2>3, <2>7 DEF MailInv, EndedFits
    <3> QED
      BY <3>1, <3>2 DEF EndedFits
  <2>13. \A j \in Letters : intent[j].state \in Ended => intent'[j].state = intent[j].state
    <3>1. intent[i].state \notin Ended
      BY <1>4 DEF Due, Ended
    <3> QED
      BY <2>5, <3>1, SweptRow
  <2> QED
    BY <2>8, <2>11, <2>12, <2>13 DEF MailInv
<1> QED
  BY <1>3, <1>4 DEF Claim

\* A worker goes on to its next step, or leaves its round.
LEMMA TurnKeeps ==
    ASSUME MailInv, NEW w \in Postmen, NEW row \in RoundRow,
           round' = [round EXCEPT ![w] = row],
           row.step \in {"CLAIMED", "PREPARED"} =>
              row.letter = round[w].letter /\ round[w].step \in {"CLAIMED", "PREPARED"},
           row.step # "DELIVERED",
           current' = current, resting' \subseteq Letters, sent' = sent,
           intent' \in [Letters -> IntentRow],
           \A i \in Letters :
              /\ intent'[i].attempts = intent[i].attempts
              /\ intent'[i].state \in Ended => intent'[i].lease = NoPostman
              /\ intent'[i].state = "DELIVERED" => sent[i] >= 1
    PROVE  MailInv'
<1>1. round'[w] = row /\ \A v \in Postmen \ {w} : round'[v] = round[v]
  BY DEF MailInv, MailRecords
<1>2. MailRecords'
  BY DEF MailInv, MailRecords
<1>3. \A i \in Letters : MayStillSend(i)' \subseteq MayStillSend(i)
  BY <1>1 DEF MayStillSend
<1>4. AttemptsCover'
  BY <1>3, NoMoreSend DEF AttemptsCover
<1>5. EndedFits'
  BY <1>1 DEF MailInv, EndedFits
<1> QED
  BY <1>2, <1>4, <1>5 DEF MailInv

\* A worker prepares its letter, or gives it up.
LEMMA PrepareKeeps ==
    ASSUME MailInv, NEW w \in Postmen, Prepare(w)
    PROVE  MailInv' /\ intent' = intent
<1>1. /\ intent' = intent /\ current' = current /\ resting' = resting /\ sent' = sent
      /\ round[w].step = "CLAIMED" /\ round[w] \in RoundRow
      /\ current \subseteq Letters /\ resting \subseteq Letters /\ intent \in [Letters -> IntentRow]
  BY DEF Prepare, MailInv, MailRecords
<1>2. round[w] \in [letter : Letters, step : Steps]
  BY <1>1 DEF RoundRow, Idle
<1>3. PICK step \in {"PREPARED", "DEAD", "DISCARDED"} : round' = [round EXCEPT ![w].step = step]
  BY DEF Prepare, Turn
<1> DEFINE row == [round[w] EXCEPT !.step = step]
<1>4. round' = [round EXCEPT ![w] = row]
  BY <1>3 DEF MailInv, MailRecords
<1>5. row \in [letter : Letters, step : Steps] /\ row.letter = round[w].letter /\ row.step = step
  BY <1>2 DEF Steps
<1> HIDE DEF row
<1>6. row \in RoundRow
  BY <1>5 DEF RoundRow
<1>7. \A i \in Letters : /\ intent[i].state \in Ended => intent[i].lease = NoPostman
                         /\ intent[i].state = "DELIVERED" => sent[i] >= 1
  BY DEF MailInv, EndedFits
<1>8. step # "CLAIMED" /\ step # "DELIVERED"
  OBVIOUS
<1> HIDE DEF row
<1>9. MailInv'
  BY <1>1, <1>4, <1>5, <1>6, <1>7, <1>8, TurnKeeps
<1> QED
  BY <1>1, <1>9

\* The transport takes the letter for the attempt its worker claimed, and for no other.
LEMMA TransportKeeps ==
    ASSUME MailInv, NEW w \in Postmen, Transport(w)
    PROVE  MailInv' /\ intent' = intent
<1>1. /\ intent' = intent /\ current' = current /\ resting' = resting
      /\ round[w].step = "PREPARED" /\ round[w] \in RoundRow
  BY DEF Transport, MailInv, MailRecords
<1>2. PICK i \in Letters : i = round[w].letter /\ round[w] \in [letter : Letters, step : Steps]
  <2>1. round[w] \in [letter : Letters, step : Steps]
    BY <1>1 DEF RoundRow, Idle
  <2> QED
    BY <2>1
<1>3. PICK taken \in BOOLEAN, outcome \in {"DELIVERED", "RETRY", "DEAD"} :
        /\ outcome = "DELIVERED" => taken
        /\ sent' = [sent EXCEPT ![i] = IF taken THEN sent[i] + 1 ELSE sent[i]]
        /\ round' = [round EXCEPT ![w].step = outcome]
  BY <1>2 DEF Transport, Turn, MailInv, MailRecords
<1> DEFINE row == [round[w] EXCEPT !.step = outcome]
<1>4. round' = [round EXCEPT ![w] = row]
  BY <1>3 DEF MailInv, MailRecords
<1>5. row \in [letter : Letters, step : Steps] /\ row.letter = i /\ row.step = outcome
  BY <1>2 DEF Steps
<1>6. w \in MayStillSend(i)
  BY <1>1, <1>2 DEF MayStillSend
<1> HIDE DEF row
<1>7. row \in RoundRow /\ row.step \notin {"CLAIMED", "PREPARED"}
  BY <1>5 DEF RoundRow
<1>8. round'[w] = row /\ \A v \in Postmen \ {w} : round'[v] = round[v]
  BY <1>4 DEF MailInv, MailRecords
<1>9. /\ sent[i] \in Nat /\ sent'[i] \in Nat /\ sent'[i] <= sent[i] + 1 /\ sent'[i] >= sent[i]
      /\ outcome = "DELIVERED" => sent'[i] >= 1
      /\ \A j \in Letters \ {i} : sent'[j] = sent[j]
  <2>1. sent \in [Letters -> Nat]
    BY DEF MailInv, MailRecords
  <2>2. CASE taken
    BY <1>2, <1>3, <2>1, <2>2
  <2>3. CASE ~taken
    BY <1>2, <1>3, <2>1, <2>3
  <2> QED
    BY <2>2, <2>3
<1>10. MailRecords'
  <2>1. sent' \in [Letters -> Nat]
    BY <1>2, <1>3, <1>9 DEF MailInv, MailRecords
  <2> QED
    BY <1>1, <1>4, <1>7, <2>1 DEF MailInv, MailRecords
<1>11. AttemptsCover'
  <2>1. \A j \in Letters \ {i} :
          IsFiniteSet(MayStillSend(j)') /\ sent'[j] + Cardinality(MayStillSend(j)') <= intent'[j].attempts
    <3> TAKE j \in Letters \ {i}
    <3>1. MayStillSend(j)' \subseteq MayStillSend(j)
      BY <1>7, <1>8 DEF MayStillSend
    <3> QED
      BY <1>1, <1>9, <3>1, NoMoreSend
  <2> DEFINE S == MayStillSend(i)
             T == MayStillSend(i)'
  <2>2. /\ IsFiniteSet(S) /\ Cardinality(S) \in Nat /\ intent[i].attempts \in Nat
        /\ sent[i] + Cardinality(S) <= intent[i].attempts
    BY <1>2, MailNumbers
  <2>3. T = S \ {w} /\ w \in S
    BY <1>6, <1>7, <1>8 DEF MayStillSend
  <2> HIDE DEF S, T
  <2>4. IsFiniteSet(T) /\ Cardinality(T) = Cardinality(S) - 1
    BY <2>2, <2>3, FS_RemoveElement
  <2>5. sent'[i] + Cardinality(T) <= intent[i].attempts
    BY <1>9, <2>2, <2>4
  <2>6. IsFiniteSet(MayStillSend(i)') /\ sent'[i] + Cardinality(MayStillSend(i)') <= intent'[i].attempts
    BY <1>1, <2>4, <2>5 DEF T
  <2> QED
    BY <2>1, <2>6 DEF AttemptsCover
<1>12. EndedFits'
  <2>1. \A j \in Letters : sent[j] \in Nat /\ (sent[j] >= 1 => sent'[j] >= 1)
    BY <1>9 DEF MailInv, MailRecords
  <2>2. \A j \in Letters : /\ intent'[j].state \in Ended => intent'[j].lease = NoPostman
                           /\ intent'[j].state = "DELIVERED" => sent'[j] >= 1
    BY <1>1, <2>1 DEF MailInv, EndedFits
  <2>3. \A v \in Postmen : round'[v].step = "DELIVERED" => sent'[round'[v].letter] >= 1
    <3> SUFFICES ASSUME NEW v \in Postmen, round'[v].step = "DELIVERED"
                 PROVE  sent'[round'[v].letter] >= 1
      OBVIOUS
    <3>1. CASE v = w
      BY <1>5, <1>8, <1>9, <3>1
    <3>2. CASE v # w
      <4>1. round'[v] = round[v] /\ round[v] \in RoundRow /\ sent[round[v].letter] >= 1
        BY <1>8, <3>2 DEF MailInv, MailRecords, EndedFits
      <4>2. round[v].letter \in Letters
        BY <4>1 DEF RoundRow, Idle
      <4> QED
        BY <2>1, <4>1, <4>2
    <3> QED
      BY <3>1, <3>2
  <2> QED
    BY <2>2, <2>3 DEF EndedFits
<1> QED
  BY <1>1, <1>10, <1>11, <1>12 DEF MailInv

\* The worker settles the letter it still holds; the letter was not over.
LEMMA SettleKeeps ==
    ASSUME MailInv, NEW w \in Postmen, Settle(w)
    PROVE  MailInv' /\ \A j \in Letters : intent[j].state \in Ended => intent'[j].state = intent[j].state
<1> DEFINE i == round[w].letter
           row == [intent[i] EXCEPT !.state = Outcome(w), !.lease = NoPostman, !.runs = FALSE]
<1>1. /\ current' = current /\ sent' = sent /\ round' = [round EXCEPT ![w] = Idle]
      /\ round[w].step \in Ended \cup {"RETRY"} /\ round[w] \in RoundRow
      /\ intent \in [Letters -> IntentRow] /\ resting \subseteq Letters
  BY DEF Settle, MailInv, MailRecords
<1>2. i \in Letters
  BY <1>1 DEF RoundRow, Idle, Ended
<1>3. /\ IF HoldsLease(w) THEN intent' = [intent EXCEPT ![i] = row] /\ resting' = resting \cup {i}
         ELSE intent' = intent /\ resting' = resting
  BY <1>1, <1>2 DEF Settle
<1>4. Idle \in RoundRow /\ Idle.step = "IDLE"
  BY DEF RoundRow, Idle
<1>5. HoldsLease(w) => intent[i].state \notin Ended
  BY <1>2, MailAssumption DEF HoldsLease, MailInv, EndedFits
<1>6. /\ row \in IntentRow /\ row.attempts = intent[i].attempts /\ row.lease = NoPostman
      /\ row.state = "DELIVERED" => round[w].step = "DELIVERED"
  <2>1. intent[i] \in IntentRow /\ Outcome(w) \in {"NONE", "WAITING"} \cup Ended
    BY <1>1, <1>2 DEF Outcome, Ended
  <2>2. Outcome(w) = "DELIVERED" => round[w].step = "DELIVERED"
    BY DEF Outcome, Ended
  <2> QED
    BY <2>1, <2>2 DEF IntentRow
<1>7. round[w].step = "DELIVERED" => sent[i] >= 1
  BY DEF MailInv, EndedFits
<1> HIDE DEF i, row
<1>8. \A j \in Letters : /\ intent[j].state \in Ended => intent[j].lease = NoPostman
                         /\ intent[j].state = "DELIVERED" => sent[j] >= 1
  BY DEF MailInv, EndedFits
<1>9. /\ intent' \in [Letters -> IntentRow] /\ resting' \subseteq Letters
      /\ \A j \in Letters :
            /\ intent'[j].attempts = intent[j].attempts
            /\ intent'[j].state \in Ended => intent'[j].lease = NoPostman
            /\ intent'[j].state = "DELIVERED" => sent[j] >= 1
            /\ intent[j].state \in Ended => intent'[j].state = intent[j].state
  <2>1. CASE HoldsLease(w)
    <3>1. intent' = [intent EXCEPT ![i] = row] /\ resting' = resting \cup {i}
      BY <1>3, <2>1
    <3>2. intent'[i] = row /\ \A j \in Letters \ {i} : intent'[j] = intent[j]
      BY <1>1, <1>2, <3>1
    <3> QED
      BY <1>1, <1>2, <1>5, <1>6, <1>7, <1>8, <2>1, <3>1, <3>2
  <2>2. CASE ~HoldsLease(w)
    BY <1>1, <1>3, <1>8, <2>2
  <2> QED
    BY <2>1, <2>2
<1>10. MailInv'
  BY <1>1, <1>4, <1>9, TurnKeeps
<1> QED
  BY <1>9, <1>10

\* A worker dies.
LEMMA DiesKeeps == ASSUME MailInv, NEW w \in Postmen, PostmanDies(w) PROVE MailInv' /\ intent' = intent
<1>1. /\ round' = [round EXCEPT ![w] = Idle]
      /\ intent' = intent /\ current' = current /\ resting' = resting /\ sent' = sent
      /\ resting \subseteq Letters /\ intent \in [Letters -> IntentRow]
  BY DEF PostmanDies, MailInv, MailRecords
<1>2. Idle \in RoundRow /\ Idle.step = "IDLE"
  BY DEF RoundRow, Idle
<1>3. \A j \in Letters : /\ intent'[j].attempts = intent[j].attempts
                         /\ intent'[j].state \in Ended => intent'[j].lease = NoPostman
                         /\ intent'[j].state = "DELIVERED" => sent[j] >= 1
  BY <1>1 DEF MailInv, EndedFits
<1>4. MailInv'
  BY <1>1, <1>2, <1>3, TurnKeeps
<1> QED
  BY <1>1, <1>4

-----------------------------------------------------------------------------
LettersStayOver == \A i \in Letters : intent[i].state \in Ended => intent'[i].state = intent[i].state

\* Every step keeps the invariant, and what is over stays over.
LEMMA MailStepKeeps == ASSUME MailInv, [MailNext]_mailVars PROVE MailInv' /\ LettersStayOver
<1>1. CASE UNCHANGED mailVars
  <2>1. round' = round /\ intent' = intent /\ current' = current /\ resting' = resting /\ sent' = sent
    BY <1>1 DEF mailVars
  <2>2. MailInv'
    BY <2>1, RowsChange DEF MailInv, MailRecords, EndedFits
  <2> QED
    BY <2>1, <2>2 DEF LettersStayOver
<1>2. CASE \E i \in Letters : LetterStep(i)
  BY <1>2, LetterStepKeeps DEF LettersStayOver
<1>3. CASE \E w \in Postmen : PostmanStep(w)
  BY <1>3, ClaimKeeps, PrepareKeeps, TransportKeeps, SettleKeeps, DiesKeeps DEF PostmanStep, LettersStayOver
<1> QED
  BY <1>1, <1>2, <1>3 DEF MailNext

\* The invariant holds always.
LEMMA MailInvariance == MailSpec => []MailInv
<1>1. MailInv /\ [MailNext]_mailVars => MailInv'
  BY MailStepKeeps
<1> QED
  BY <1>1, InitMailInv, PTL DEF MailSpec

\* It says what MailTypeOK does.
LEMMA MailTypes == MailInv => MailTypeOK
<1> SUFFICES ASSUME MailInv PROVE MailTypeOK
  OBVIOUS
<1>1. \A i \in Letters : sent[i] <= intent[i].attempts /\ sent[i] \in 0 .. MaxAttempts
  BY MailNumbers, MailAssumption
<1>2. \A w \in Postmen : round[w] = Idle \/ (round[w].letter \in Letters /\ round[w].step \in Steps)
  BY DEF MailInv, MailRecords, RoundRow
<1>3. sent \in [Letters -> 0 .. MaxAttempts]
  BY <1>1 DEF MailInv, MailRecords
<1>4. intent \in [Letters -> IntentRow]
  BY DEF MailInv, MailRecords
<1> QED
  BY <1>1, <1>2, <1>3, <1>4 DEF MailInv, MailRecords, EndedFits, MailTypeOK, IntentRow

\* Letters, leases and rounds are of their kinds; a letter is sent at most once for every
\* attempt that was claimed for it, whatever workers die or come back late.
THEOREM LettersAreTyped == MailSpec => []MailTypeOK
<1>1. MailInv => MailTypeOK
  BY MailTypes
<1> QED
  BY <1>1, MailInvariance, PTL

\* A letter that was delivered, discarded or given up is never queued again.
THEOREM LettersEndOnce == MailSpec => MailEndsOnce
<1>1. MailInv /\ [MailNext]_mailVars => [LettersStayOver]_mailVars
  BY MailStepKeeps
<1> QED
  BY <1>1, MailInvariance, PTL DEF MailSpec, MailEndsOnce, LettersStayOver

-----------------------------------------------------------------------------
(***************************************************************************)
(* Reminders. What a worker holds in its hands may be old: the invariant   *)
(* bounds how old it can be by what the provider has stored.               *)
(***************************************************************************)

\* The provider has a message of an attempt only once it was claimed, and has
\* given up every attempt but the last; the row says what became of that one.
AttemptsEndInOrder ==
    /\ \A k \in Sends : message[k] # "NONE" => k <= delivery.attempts
    /\ \A k \in Sends : k < delivery.attempts => message[k] = "FAILED"
    /\ delivery.state \in {"QUEUED", "CANCELLED"} /\ delivery.attempts # 0
          => message[delivery.attempts] = "FAILED"
    /\ delivery.state \in {"DELIVERED", "FAILED"}
          => delivery.attempts # 0 /\ message[delivery.attempts] = delivery.state
    /\ delivery.state \in {"SENDING", "UNKNOWN", "SENT"} => delivery.attempts # 0
    /\ delivery.state = "QUEUED" => delivery.attempts < MaxSends
    /\ draft # "SENT" => delivery.state = "NONE"
    /\ delivery.state = "NONE" => delivery.attempts = 0

\* A worker holds a claimed attempt, and an answer that was true when given.
ErrandsFit ==
    \A w \in Carriers :
        /\ errand[w].step # "NONE" => errand[w].attempt \in 1 .. delivery.attempts
        /\ errand[w].step = "ANSWERED" => errand[w].answer # "NONE"
        /\ errand[w].step = "ANSWERED" /\ errand[w].answer \in {"DELIVERED", "FAILED"}
              => message[errand[w].attempt] = errand[w].answer

SmsInv == SmsTypeOK /\ AttemptsEndInOrder /\ ErrandsFit

\* Nothing is claimed, sent or answered in the beginning.
LEMMA InitSmsInv == SmsInit => SmsInv
<1> SUFFICES ASSUME SmsInit PROVE SmsInv
  OBVIOUS
<1>1. SmsTypeOK
  BY SmsAssumption DEF SmsInit, SmsTypeOK, Deliveries, Errands, NoErrand, Over
<1>2. AttemptsEndInOrder
  BY SmsAssumption DEF SmsInit, AttemptsEndInOrder, Sends
<1>3. ErrandsFit
  BY DEF SmsInit, ErrandsFit, NoErrand
<1> QED
  BY <1>1, <1>2, <1>3 DEF SmsInv

-----------------------------------------------------------------------------
(* The platform's commands and the five minutes.                           *)

\* A command queues a delivery only when the last attempt is known to have failed,
\* and leaves the number of attempts alone.
LEMMA CommandStep ==
    ASSUME SmsInv, Preview \/ PreviewGoesStale \/ SendDraft \/ Cancel \/ Retry \/ FiveMinutesPass
    PROVE  SmsInv'
<1> USE SmsAssumption DEF Preview, PreviewGoesStale, SendDraft, Cancel, Retry, FiveMinutesPass
<1>1. SmsTypeOK'
  <2>1. delivery' \in Deliveries
    <3>1. CASE Preview \/ PreviewGoesStale
      BY <3>1 DEF SmsInv, SmsTypeOK
    <3>2. CASE SendDraft \/ FiveMinutesPass
      BY <3>2 DEF SmsInv, SmsTypeOK, Deliveries
    <3>3. CASE Cancel \/ Retry
      <4>1. PICK state \in {"CANCELLED", "QUEUED"} :
               delivery' = [state |-> state, attempts |-> delivery.attempts, old |-> FALSE]
        BY <3>3 DEF Written
      <4>2. delivery.attempts \in 0 .. MaxSends
        BY DEF SmsInv, SmsTypeOK, Deliveries
      <4> QED
        BY <4>1, <4>2 DEF Deliveries, Over
    <3> QED
      BY <3>1, <3>2, <3>3
  <2> QED
    BY <2>1 DEF SmsInv, SmsTypeOK
<1>2. UNCHANGED <<errand, message>> /\ delivery'.attempts = delivery.attempts
  BY DEF SmsInv, SmsTypeOK, Deliveries, Errands, Written
<1>3. AttemptsEndInOrder'
  <2>1. CASE UNCHANGED delivery
    BY <2>1, <1>2 DEF SmsInv, SmsTypeOK, Deliveries, Errands, AttemptsEndInOrder
  <2>2. CASE SendDraft
    BY <2>2, <1>2 DEF SmsInv, SmsTypeOK, Deliveries, Errands, AttemptsEndInOrder
  <2>3. CASE Cancel \/ Retry
    BY <2>3, <1>2 DEF SmsInv, SmsTypeOK, Deliveries, Errands, AttemptsEndInOrder, Written, Over
  <2>4. CASE FiveMinutesPass
    BY <2>4, <1>2 DEF SmsInv, SmsTypeOK, Deliveries, Errands, AttemptsEndInOrder
  <2> QED
    BY <2>1, <2>2, <2>3, <2>4
<1>4. ErrandsFit'
  BY <1>2 DEF SmsInv, ErrandsFit
<1> QED
  BY <1>1, <1>3, <1>4 DEF SmsInv

-----------------------------------------------------------------------------
(* The workers and the provider.                                           *)

\* A new attempt is claimed from QUEUED only: the one before it has failed.
LEMMA TakeUpStep == ASSUME SmsInv, NEW w \in Carriers, TakeUp(w) PROVE SmsInv'
<1> DEFINE sends == delivery.state = "QUEUED"
           number == delivery.attempts + (IF sends THEN 1 ELSE 0)
<1>1. /\ delivery' = IF sends THEN Written("SENDING", number)
                     ELSE IF Interrupted THEN Written("UNKNOWN", number) ELSE delivery
      /\ errand' = [errand EXCEPT ![w] =
            [step |-> "ASKING", attempt |-> number, sends |-> sends, answer |-> "NONE"]]
      /\ UNCHANGED <<draft, message>>
      /\ delivery.state \in {"QUEUED", "UNKNOWN", "SENT"} \/ Interrupted
  BY DEF TakeUp
<1>2. number \in 1 .. MaxSends /\ delivery'.attempts = number
  <2>1. /\ delivery.attempts \in 0 .. MaxSends
        /\ delivery.state # "QUEUED" => delivery.attempts # 0
        /\ delivery.state = "QUEUED" => delivery.attempts < MaxSends
    BY <1>1 DEF SmsInv, SmsTypeOK, Deliveries, AttemptsEndInOrder, Interrupted
  <2> QED
    BY <1>1, <2>1, SmsAssumption DEF Written, Interrupted
<1> HIDE DEF number
<1>3. SmsTypeOK'
  BY <1>1, <1>2 DEF SmsInv, SmsTypeOK, Deliveries, Errands, Written
<1>4. AttemptsEndInOrder'
  BY <1>1, <1>2 DEF number, SmsInv, SmsTypeOK, Deliveries, Errands, AttemptsEndInOrder, Written, Interrupted, Sends, Over
<1>5. ErrandsFit'
  BY <1>1, <1>2 DEF number, SmsInv, SmsTypeOK, Deliveries, Errands, ErrandsFit
<1> QED
  BY <1>3, <1>4, <1>5 DEF SmsInv

\* A late sender finds the message of its attempt and sends nothing.
LEMMA AskStep == ASSUME SmsInv, NEW w \in Carriers, Ask(w) PROVE SmsInv'
<1> DEFINE k == errand[w].attempt
<1>1. k \in 1 .. delivery.attempts /\ k \in Sends
  BY SmsAssumption DEF SmsInv, SmsTypeOK, Deliveries, Errands, ErrandsFit, Ask, Sends
<1>2. PICK heard \in {"UNKNOWN"} \cup ({message'[k]} \ {"NONE"}) :
        errand' = [errand EXCEPT ![w].step = "ANSWERED", ![w].answer = heard]
  BY DEF Ask
<1>3. /\ UNCHANGED <<draft, delivery>>
      /\ \/ message' = message
         \/ message[k] = "NONE" /\ message' = [message EXCEPT ![k] = "SENT"]
  BY DEF Ask
<1>4. SmsTypeOK'
  <2>3. errand \in [Carriers -> Errands] /\ errand[w] \in Errands
    BY DEF SmsInv, SmsTypeOK
  <2>4. heard \in {"NONE", "SENT", "DELIVERED", "FAILED", "UNKNOWN"}
    BY <1>1, <1>2, <1>3 DEF SmsInv, SmsTypeOK
  <2> DEFINE told == [errand[w] EXCEPT !.step = "ANSWERED", !.answer = heard]
  <2>5. told \in Errands
    BY <2>3, <2>4 DEF Errands
  <2>6. errand' = [errand EXCEPT ![w] = told]
    BY <1>2, <2>3
  <2> HIDE DEF told
  <2>1. errand'[w] \in Errands /\ errand' = [errand EXCEPT ![w] = errand'[w]]
    BY <2>3, <2>5, <2>6
  <2>2. message' \in [Sends -> {"NONE", "SENT", "DELIVERED", "FAILED"}]
    BY <1>1, <1>3 DEF SmsInv, SmsTypeOK
  <2> QED
    BY <1>3, <2>1, <2>2 DEF SmsInv, SmsTypeOK
<1> HIDE DEF k
<1>5. \A j \in Sends : \/ message'[j] = message[j]
                       \/ j = k /\ message[k] = "NONE" /\ message'[k] = "SENT"
  BY <1>1, <1>3 DEF SmsInv, SmsTypeOK
<1>6. AttemptsEndInOrder'
  BY <1>1, <1>3, <1>5 DEF SmsInv, SmsTypeOK, Deliveries, AttemptsEndInOrder, Sends
<1>7. /\ \A v \in Carriers \ {w} : errand'[v] = errand[v]
      /\ errand'[w].attempt = k /\ errand'[w].answer = heard
  BY <1>2 DEF k, SmsInv, SmsTypeOK, Errands
<1>8. ErrandsFit'
  <2>1. ASSUME NEW v \in Carriers \ {w}, errand[v].step # "NONE"
        PROVE  errand[v].attempt \in Sends
    BY <2>1, SmsAssumption DEF SmsInv, SmsTypeOK, Deliveries, ErrandsFit, Sends
  <2>2. heard # "NONE" /\ (heard # "UNKNOWN" => message'[k] = heard)
    BY <1>2
  <2> QED
    BY <1>1, <1>3, <1>5, <1>7, <2>1, <2>2 DEF SmsInv, ErrandsFit
<1> QED
  BY <1>4, <1>6, <1>8 DEF SmsInv

\* An answer settles only the attempt it is about, and it was true.
LEMMA SettleAnswerStep == ASSUME SmsInv, NEW w \in Carriers, SettleAnswer(w) PROVE SmsInv'
<1>1. /\ UNCHANGED <<draft, message>> /\ errand' = [errand EXCEPT ![w] = NoErrand]
      /\ errand[w].step = "ANSWERED"
  BY DEF SettleAnswer
<1>2. delivery'.attempts = delivery.attempts
  BY DEF SettleAnswer, Written, SmsInv, SmsTypeOK, Deliveries, Errands
<1>3. errand'[w] = NoErrand /\ \A v \in Carriers \ {w} : errand'[v] = errand[v]
  BY <1>1 DEF SmsInv, SmsTypeOK, Deliveries, Errands
<1>4. SmsTypeOK'
  <2>1. delivery' \in Deliveries
    BY DEF SmsInv, SmsTypeOK, Deliveries, SettleAnswer, Written, MayBecome, Over
  <2>2. NoErrand \in Errands
    BY SmsAssumption DEF NoErrand, Errands
  <2> QED
    BY <1>1, <2>1, <2>2 DEF SmsInv, SmsTypeOK
<1>5. AttemptsEndInOrder'
  <2>1. CASE delivery' = delivery
    BY <2>1, <1>1 DEF SmsInv, AttemptsEndInOrder
  <2>2. CASE delivery' # delivery
    BY <2>2, <1>1 DEF SmsInv, SmsTypeOK, Deliveries, Errands, AttemptsEndInOrder, ErrandsFit, SettleAnswer, Written,
                      AnswerFits, MayBecome, Over
  <2> QED
    BY <2>1, <2>2
<1>6. ErrandsFit'
  BY <1>1, <1>2, <1>3 DEF SmsInv, ErrandsFit, NoErrand
<1> QED
  BY <1>4, <1>5, <1>6 DEF SmsInv

\* What a worker held is lost with it.
LEMMA CarrierDiesStep == ASSUME SmsInv, NEW w \in Carriers, CarrierDies(w) PROVE SmsInv'
<1>1. SmsTypeOK'
  <2>1. NoErrand \in Errands
    BY SmsAssumption DEF NoErrand, Errands
  <2> QED
    BY <2>1 DEF SmsInv, SmsTypeOK, CarrierDies
<1>2. AttemptsEndInOrder'
  BY DEF SmsInv, AttemptsEndInOrder, CarrierDies
<1>3. ErrandsFit'
  BY DEF SmsInv, SmsTypeOK, Deliveries, Errands, ErrandsFit, CarrierDies, NoErrand
<1> QED
  BY <1>1, <1>2, <1>3 DEF SmsInv

\* What the provider gave up or delivered it does not change again.
LEMMA MessageArrivesStep == ASSUME SmsInv, NEW k \in Sends, MessageArrives(k) PROVE SmsInv'
<1>1. PICK state \in {"DELIVERED", "FAILED"} : message' = [message EXCEPT ![k] = state]
  BY DEF MessageArrives
<1>2. message[k] = "SENT" /\ UNCHANGED <<draft, delivery, errand>>
  BY DEF MessageArrives
<1>3. SmsTypeOK'
  BY <1>1, <1>2 DEF SmsInv, SmsTypeOK, Deliveries, Errands
<1>4. AttemptsEndInOrder'
  BY <1>1, <1>2 DEF SmsInv, SmsTypeOK, Deliveries, Errands, AttemptsEndInOrder, Sends
<1>5. ErrandsFit'
  BY <1>1, <1>2 DEF SmsInv, SmsTypeOK, Deliveries, Errands, ErrandsFit, Sends
<1> QED
  BY <1>3, <1>4, <1>5 DEF SmsInv

\* Every step keeps the invariant.
LEMMA SmsStep == ASSUME SmsInv, [SmsNext]_smsVars PROVE SmsInv'
<1>1. CASE UNCHANGED smsVars
  BY <1>1 DEF smsVars, SmsInv, SmsTypeOK, Deliveries, Errands, AttemptsEndInOrder, ErrandsFit
<1>2. CASE SmsNext
  BY <1>2, CommandStep, TakeUpStep, AskStep, SettleAnswerStep, CarrierDiesStep,
     MessageArrivesStep DEF SmsNext, CarrierStep
<1> QED
  BY <1>1, <1>2

-----------------------------------------------------------------------------
\* The invariant holds always.
LEMMA SmsInvariance == SmsSpec => []SmsInv
  BY InitSmsInv, SmsStep, PTL DEF SmsSpec

\* Types of the delivery, the errands and the messages, for any number of workers.
THEOREM SmsTypes == SmsSpec => []SmsTypeOK
<1>1. SmsInv => SmsTypeOK
  BY DEF SmsInv
<1> QED
  BY <1>1, SmsInvariance, PTL

\* However late workers send, look up and settle, a hotel never gets two reminders
\* and none after a cancellation (sms_once, OperationDashboard.cancel and retry).
THEOREM ReminderArrivesOnce == SmsSpec => []OneReminderArrives
<1>1. SmsInv => OneReminderArrives
  <2> SUFFICES ASSUME SmsInv PROVE OneReminderArrives
    OBVIOUS
  <2>1. ASSUME NEW k \in Sends \ {1}, message[k] # "NONE"
        PROVE  message[k - 1] = "FAILED"
    <3>1. k - 1 \in Sends /\ k - 1 < k /\ k <= delivery.attempts
      BY <2>1, SmsAssumption DEF SmsInv, AttemptsEndInOrder, Sends
    <3> QED
      BY <3>1, SmsAssumption DEF SmsInv, SmsTypeOK, Deliveries, Errands, AttemptsEndInOrder, Sends
  <2>2. delivery.state = "CANCELLED" => \A k \in Sends : message[k] \in {"NONE", "FAILED"}
    BY SmsAssumption DEF SmsInv, SmsTypeOK, Deliveries, Errands, AttemptsEndInOrder, Sends
  <2>3. delivery.state \in {"DELIVERED", "FAILED"} => message[delivery.attempts] = delivery.state
    BY DEF SmsInv, AttemptsEndInOrder
  <2> QED
    BY <2>1, <2>2, <2>3 DEF OneReminderArrives
<1> QED
  BY <1>1, SmsInvariance, PTL

-----------------------------------------------------------------------------
(***************************************************************************)
(* All five side by side. A step of MCSpec is a step of one of them and    *)
(* leaves the others alone, so it behaves as each of the five              *)
(* specifications, and what they promise holds of it.                      *)
(***************************************************************************)

\* The first state of all is a first state of each.
LEMMA InitOfEach == MCInit => RestaurantInit /\ OnboardingInit /\ RenewalInit /\ MailInit /\ SmsInit
  BY DEF MCInit

\* A step of one is no step of another.
LEMMA StepOfEach ==
    [MCNext]_MCVars => /\ [RestaurantNext]_restaurantVars /\ [OnboardingNext]_onboardingVars
                       /\ [RenewalNext]_renewalVars /\ [MailNext]_mailVars /\ [SmsNext]_smsVars
<1>1. UNCHANGED MCVars => UNCHANGED <<restaurantVars, onboardingVars, renewalVars, mailVars, smsVars>>
  BY DEF MCVars
<1> QED
  BY <1>1 DEF MCNext

\* The services of a hotel behave as each of them does alone.
THEOREM ServicesAreIndependent ==
    MCSpec => RestaurantSpec /\ OnboardingSpec /\ RenewalSpec /\ MailSpec /\ SmsSpec
BY InitOfEach, StepOfEach, PTL DEF MCSpec, RestaurantSpec, OnboardingSpec, RenewalSpec, MailSpec, SmsSpec

\* Meals, paid applications, terms and letters: what is final stays final.
THEOREM FinalStaysFinal == MCSpec => WhatIsFinalStays
BY ServicesAreIndependent, MealsEndOnce, PaidIsFinal, PackagesFollowTerms, LettersEndOnce, PTL
   DEF WhatIsFinalStays

\* Rows, workers and the provider's answers of all five keep their form.
THEOREM ServicesTypes == MCSpec => []ServicesTypeOK
BY ServicesAreIndependent, MealsAreTyped, OnboardingIsTyped, RenewalsAreTyped, LettersAreTyped,
   SmsTypes, PTL DEF ServicesTypeOK

=============================================================================
