--------------------------- MODULE BookingPayment ---------------------------
(***************************************************************************)
(* One online booking: the hold that reserves a unit of a room category,   *)
(* its payment attempts, what the payment provider was paid, how the       *)
(* booking ends, and how money that the hotel may not keep goes back.      *)
(*                                                                         *)
(* Every action below the provider's is one PostgreSQL transaction; the    *)
(* transactions of a hotel are serialised by the room-catalog lock and the *)
(* row lock of the hold, so a transaction is one step.  The provider's     *)
(* store is a different database: it is not rolled back with PostgreSQL.   *)
(*                                                                         *)
(* Attempts are numbered in the order of (created_at, id), the order in    *)
(* which reconcile visits them.                                            *)
(***************************************************************************)
EXTENDS Integers, FiniteSets

CONSTANTS
    MaxAttempts,      \* attempts per hold (the code's resource cap is 20)
    Amount,           \* amount_mnt: the price of the whole stay
    FirstNight,       \* unit_price: the price of one night
    Deadline,         \* expires_at of the hold, created at time 0
    FreeCancelUntil,  \* 24 hours before the arrival (may be in the past)
    Arrival,          \* planned_checkin_at
    NoShowCutoff,     \* 23:59:59 of the arrival's day
    Checkout,         \* planned_checkout_at
    MaxTime           \* bound of the clock

ASSUME AttemptAssumption == MaxAttempts \in Nat \ {0}
ASSUME PriceAssumption == Amount \in Nat \ {0} /\ FirstNight \in Nat \ {0}
ASSUME TimeAssumption ==
    /\ Deadline \in Nat \ {0}
    /\ FreeCancelUntil \in Int
    /\ Arrival \in Nat
    /\ NoShowCutoff \in Nat
    /\ Checkout \in Nat
    /\ MaxTime \in Nat
    /\ Arrival < Checkout

Attempt == 1 .. MaxAttempts
NoAttempt == 0

AttemptStates == {"none", "ACTIVE", "SUPERSEDED", "PAID", "EXPIRED"}
BookingStates == {"HOLDING", "CONFIRMED", "EXPIRED"}
Dispositions == {"APPLIED", "DUPLICATE_CAPTURE", "LATE_PAYMENT_AFTER_HOLD",
                 "FULFILLMENT_UNAVAILABLE"}
Outcomes == {"CANCELLED_GUEST", "CANCELLED_HOTEL", "NO_SHOW"}

Cancellations == [outcome  : Outcomes \cup {"none"},
                  attempt  : Attempt \cup {NoAttempt},
                  retained : 0 .. Amount,
                  refund   : 0 .. Amount]

VARIABLES
    now,           \* clock_timestamp()
    suspended,     \* hotel_access.security_suspended
    fulfillable,   \* contract current, hotel in its grace, capacity left
    booking,       \* booking_state; hold_state is a function of it
    applied,       \* applied_attempt_id
    attempt,       \* booking_hold_attempt.state
    invoiced,      \* booking_hold_attempt.invoice_id is not null
    capture,       \* booking_hold_capture.disposition
    cancellation,  \* booking_hold_cancellation
    hosted,        \* a booking_hold_application row exists
    request,       \* booking_refund_request.amount_mnt, 0 when there is none
    confirmed,     \* a booking_refund_confirmation row exists
    invoice,       \* the provider's invoice
    refund,        \* the provider's refund of the captured payment
    refundAmount   \* the amount the provider was told to return

environment == <<now, suspended, fulfillable>>
hold == <<booking, applied, attempt, invoiced, capture>>
ending == <<cancellation, hosted>>
refunds == <<request, confirmed>>
provider == <<invoice, refund, refundAmount>>
vars == <<environment, hold, ending, refunds, provider>>

TypeOK ==
    /\ now \in 0 .. MaxTime
    /\ suspended \in BOOLEAN
    /\ fulfillable \in BOOLEAN
    /\ booking \in BookingStates
    /\ applied \in Attempt \cup {NoAttempt}
    /\ attempt \in [Attempt -> AttemptStates]
    /\ invoiced \in [Attempt -> BOOLEAN]
    /\ capture \in [Attempt -> Dispositions \cup {"none"}]
    /\ cancellation \in Cancellations
    /\ hosted \in BOOLEAN
    /\ request \in [Attempt -> 0 .. Amount]
    /\ confirmed \in [Attempt -> BOOLEAN]
    /\ invoice \in [Attempt -> {"none", "PENDING", "SUCCEEDED"}]
    /\ refund \in [Attempt -> {"none", "PENDING", "SUCCEEDED"}]
    /\ refundAmount \in [Attempt -> 0 .. Amount]

-----------------------------------------------------------------------------
(* What the rows say.                                                      *)

Cancelled == cancellation.outcome # "none"

\* booking_inventory.claims: the hold still takes a unit of its category.
Claims == booking \in {"HOLDING", "CONFIRMED"} /\ ~Cancelled /\ ~hosted

\* The refund_due of a capture row.
CaptureDue(i) == IF capture[i] \in {"none", "APPLIED"} THEN 0 ELSE Amount

\* Mutant: the cancellation is joined by hold only.
DueByHold(i) ==
    IF capture[i] = "none" THEN 0
    ELSE CaptureDue(i) + (IF Cancelled THEN cancellation.refund ELSE 0)

\* What is owed for a captured payment: the capture's own obligation and that
\* of a cancellation that names the attempt.
Due(i) ==
    IF capture[i] = "none" THEN 0
    ELSE CaptureDue(i)
         + (IF Cancelled /\ cancellation.attempt = i
            THEN cancellation.refund ELSE 0)

-----------------------------------------------------------------------------
(* create_locked leaves a HOLDING booking with one attempt, not invoiced.  *)

Init ==
    /\ now = 0
    /\ suspended = FALSE
    /\ fulfillable \in BOOLEAN
    /\ booking = "HOLDING"
    /\ applied = NoAttempt
    /\ attempt = [i \in Attempt |-> IF i = 1 THEN "ACTIVE" ELSE "none"]
    /\ invoiced = [i \in Attempt |-> FALSE]
    /\ capture = [i \in Attempt |-> "none"]
    /\ cancellation = [outcome |-> "none", attempt |-> NoAttempt,
                       retained |-> 0, refund |-> 0]
    /\ hosted = FALSE
    /\ request = [i \in Attempt |-> 0]
    /\ confirmed = [i \in Attempt |-> FALSE]
    /\ invoice = [i \in Attempt |-> "none"]
    /\ refund = [i \in Attempt |-> "none"]
    /\ refundAmount = [i \in Attempt |-> 0]

-----------------------------------------------------------------------------
(* The environment: time, the platform's suspension of the hotel, and the  *)
(* facts of other components that decide whether a payment can be honoured.*)

Tick ==
    /\ now < MaxTime
    /\ now' = now + 1
    /\ UNCHANGED <<suspended, fulfillable, hold, ending, refunds, provider>>

ChangeSuspension ==
    /\ suspended' = ~suspended
    /\ UNCHANGED <<now, fulfillable, hold, ending, refunds, provider>>

ChangeFulfillable ==
    /\ fulfillable' = ~fulfillable
    /\ UNCHANGED <<now, suspended, hold, ending, refunds, provider>>

(* The provider is told no deadline with an invoice, so it may be paid at  *)
(* any time.  A refund it reported as successful can later be corrected.   *)

ProviderPaid(i) ==
    /\ invoice[i] = "PENDING"
    /\ invoice' = [invoice EXCEPT ![i] = "SUCCEEDED"]
    /\ UNCHANGED <<environment, hold, ending, refunds, refund, refundAmount>>

ProviderRefunds(i) ==
    /\ refund[i] = "PENDING"
    /\ refund' = [refund EXCEPT ![i] = "SUCCEEDED"]
    /\ UNCHANGED <<environment, hold, ending, refunds, invoice, refundAmount>>

ProviderCorrectsRefund(i) ==
    /\ refund[i] = "SUCCEEDED"
    /\ refund' = [refund EXCEPT ![i] = "PENDING"]
    /\ UNCHANGED <<environment, hold, ending, refunds, invoice, refundAmount>>

-----------------------------------------------------------------------------
(* The payment window.                                                     *)

Elapsed == now >= Deadline

ExpireActive(states) ==
    [i \in Attempt |-> IF states[i] = "ACTIVE" THEN "EXPIRED" ELSE states[i]]

\* A new attempt supersedes the active one.
NewAttempt(i) ==
    [j \in Attempt |-> IF j = i THEN "ACTIVE"
                       ELSE IF attempt[j] = "ACTIVE" THEN "SUPERSEDED"
                       ELSE attempt[j]]

\* switch: the guest takes another provider; the deadline stays.
SwitchProvider ==
    /\ ~suspended
    /\ booking = "HOLDING"
    /\ ~Elapsed
    /\ \E i \in Attempt :
          /\ attempt[i] = "none"
          /\ \A j \in Attempt : j < i => attempt[j] # "none"
          /\ attempt' = NewAttempt(i)
    /\ UNCHANGED <<environment, booking, applied, invoiced, capture, ending,
                   refunds, provider>>

\* The attempts that reconcile issues an invoice for: booking_state and the
\* elapsed flag are read once, before the loop over the attempts.
ToInvoice ==
    {i \in Attempt : attempt[i] = "ACTIVE" /\ ~invoiced[i]
                     /\ booking = "HOLDING" /\ ~Elapsed}

\* create_invoice keeps the invoice of an attempt that already has one.
Issued(attempts) ==
    [i \in Attempt |-> IF i \in attempts /\ invoice[i] = "none"
                       THEN "PENDING" ELSE invoice[i]]

\* Mutants: only the active attempt is queried; nothing is queried any more
\* once the booking is settled.
CapturedOfActive ==
    {i \in Attempt : attempt[i] = "ACTIVE" /\ invoiced[i] /\ invoice[i] = "SUCCEEDED"}

CapturedOfHolding ==
    {i \in Attempt : attempt[i] \notin {"none", "PAID"} /\ booking = "HOLDING"
                     /\ invoiced[i] /\ invoice[i] = "SUCCEEDED"}

\* The attempts whose payment the provider confirms during the loop.
Captured ==
    {i \in Attempt : attempt[i] \notin {"none", "PAID"}
                     /\ (invoiced[i] \/ i \in ToInvoice)
                     /\ invoice[i] = "SUCCEEDED"}

First == CHOOSE i \in Captured : \A j \in Captured : i <= j

CanFulfil == fulfillable /\ now < Checkout

\* Mutant: the disposition comes from the row read before the loop.
DispositionOfStaleRow(i) ==
    IF booking = "EXPIRED" THEN "LATE_PAYMENT_AFTER_HOLD"
    ELSE IF CanFulfil THEN "APPLIED" ELSE "FULFILLMENT_UNAVAILABLE"

\* What becomes of a captured payment: only the first one of an unsettled
\* booking can be applied, and what it does decides the later ones.
Disposition(i) ==
    CASE applied # NoAttempt -> "DUPLICATE_CAPTURE"
      [] applied = NoAttempt /\ booking = "EXPIRED" -> "LATE_PAYMENT_AFTER_HOLD"
      [] applied = NoAttempt /\ booking # "EXPIRED" /\ i = First ->
            IF CanFulfil THEN "APPLIED" ELSE "FULFILLMENT_UNAVAILABLE"
      [] OTHER ->
            IF CanFulfil THEN "DUPLICATE_CAPTURE" ELSE "LATE_PAYMENT_AFTER_HOLD"

Paid == [i \in Attempt |-> IF i \in Captured THEN "PAID" ELSE attempt[i]]

\* Mutants: a late payment reopens an expired booking; a hold with an invoice
\* waits for the provider's final answer.
SettlesAgain == applied = NoAttempt /\ Captured # {}

LapsesUninvoiced ==
    /\ booking = "HOLDING" /\ Captured = {} /\ Elapsed
    /\ \A i \in Attempt : ~invoiced[i]

\* The first payment found settles a booking; without one, time lapses it.
Settles == booking = "HOLDING" /\ Captured # {}

Lapses == booking = "HOLDING" /\ Captured = {} /\ Elapsed

\* The transaction of reconcile.  FULFILLMENT_UNAVAILABLE ends the booking
\* and leaves the other attempts as they are.
ReconcileTransaction ==
    /\ ~suspended
    /\ invoiced' = [i \in Attempt |-> invoiced[i] \/ i \in ToInvoice]
    /\ invoice' = Issued(ToInvoice)
    /\ capture' = [i \in Attempt |->
                      IF i \in Captured THEN Disposition(i) ELSE capture[i]]
    /\ booking' = IF Settles THEN IF CanFulfil THEN "CONFIRMED" ELSE "EXPIRED"
                  ELSE IF Lapses THEN "EXPIRED" ELSE booking
    /\ applied' = IF Settles /\ CanFulfil THEN First ELSE applied
    /\ attempt' = IF Lapses THEN ExpireActive(attempt) ELSE Paid
    /\ UNCHANGED <<environment, ending, refunds, refund, refundAmount>>

\* The guest asks for the state of the payment.
Reconcile == ReconcileTransaction

\* The batch that a manager runs over the elapsed holds.
ExpireDue ==
    /\ booking = "HOLDING"
    /\ Elapsed
    /\ ReconcileTransaction

\* A reconcile whose transaction rolls back keeps the invoices it issued.
ReconcileAborted ==
    /\ ~suspended
    /\ invoice' = Issued(ToInvoice)
    /\ UNCHANGED <<environment, hold, ending, refunds, refund, refundAmount>>

-----------------------------------------------------------------------------
(* How a booking ends.  A terminal row is written only for an unsettled or *)
(* a confirmed booking that has neither another terminal row nor a stay.   *)

\* Mutants: one of the two rows is not looked for.
MayEndAfterStay ==
    ~suspended /\ booking \in {"HOLDING", "CONFIRMED"} /\ ~Cancelled

MayEndTwice ==
    ~suspended /\ booking \in {"HOLDING", "CONFIRMED"} /\ ~hosted

MayEnd ==
    /\ ~suspended
    /\ booking \in {"HOLDING", "CONFIRMED"}
    /\ ~Cancelled
    /\ ~hosted

\* A guest in time and a hotel that cannot honour the booking return it all.
Retained(outcome) ==
    IF \/ outcome = "CANCELLED_HOTEL"
       \/ outcome = "CANCELLED_GUEST" /\ now <= FreeCancelUntil
    THEN 0
    ELSE IF Amount <= FirstNight THEN Amount ELSE FirstNight

\* The guest leaves an unpaid hold: nothing is owed, the payment window ends.
CancelHolding ==
    /\ MayEnd
    /\ booking = "HOLDING"
    /\ booking' = "EXPIRED"
    /\ attempt' = ExpireActive(attempt)
    /\ cancellation' = [outcome |-> "CANCELLED_GUEST", attempt |-> applied,
                        retained |-> 0, refund |-> 0]
    /\ UNCHANGED <<environment, applied, invoiced, capture, hosted, refunds,
                   provider>>

CancelConfirmed(outcome) ==
    /\ MayEnd
    /\ booking = "CONFIRMED"
    /\ cancellation' = [outcome  |-> outcome,
                        attempt  |-> applied,
                        retained |-> Retained(outcome),
                        refund   |-> Amount - Retained(outcome)]
    /\ UNCHANGED <<environment, hold, hosted, refunds, provider>>

CancelGuest == CancelHolding \/ CancelConfirmed("CANCELLED_GUEST")

\* The hotel cancels from the arrival on, when no room could be given.
CancelHotel ==
    /\ now >= Arrival
    /\ CancelConfirmed("CANCELLED_HOTEL")

NoShow ==
    /\ now > NoShowCutoff
    /\ CancelConfirmed("NO_SHOW")

\* Mutant: the cancellation is not looked for.
MayHostCancelled == booking = "CONFIRMED" /\ ~hosted

\* The source and the capture are authorised again under the locks.
MayHost ==
    /\ booking = "CONFIRMED"
    /\ ~Cancelled
    /\ ~hosted
    /\ capture[applied] = "APPLIED"

\* check_in of a paid booking; the stay takes over the claim.
CheckIn ==
    /\ ~suspended
    /\ MayHost
    /\ Arrival <= now
    /\ now < Checkout
    /\ hosted' = TRUE
    /\ UNCHANGED <<environment, hold, cancellation, refunds, provider>>

-----------------------------------------------------------------------------
(* reconcile_refunds: one transaction commits a request for everything that*)
(* is owed, then each request has a transaction of its own.                *)

\* Mutant: the obligation of a cancellation is forgotten.
RequestCaptureRefunds ==
    /\ ~suspended
    /\ request' = [i \in Attempt |->
                      IF request[i] = 0 THEN CaptureDue(i) ELSE request[i]]
    /\ UNCHANGED <<environment, hold, ending, confirmed, provider>>

RequestRefunds ==
    /\ ~suspended
    /\ request' = [i \in Attempt |->
                      IF Due(i) > 0 /\ request[i] = 0 THEN Due(i)
                      ELSE request[i]]
    /\ UNCHANGED <<environment, hold, ending, confirmed, provider>>

\* create_refund is idempotent: a request the provider knows is not repeated,
\* and one it knows with another amount is refused.
SendRefund(i) ==
    /\ request[i] > 0
    /\ ~confirmed[i]
    /\ refund[i] # "none" => refundAmount[i] = request[i]
    /\ refund' = [refund EXCEPT ![i] = IF @ = "none" THEN "PENDING" ELSE @]
    /\ refundAmount' = [refundAmount EXCEPT ![i] = request[i]]

DispatchRefund(i) ==
    /\ ~suspended
    /\ SendRefund(i)
    /\ confirmed' = [confirmed EXCEPT ![i] = refund[i] = "SUCCEEDED"]
    /\ UNCHANGED <<environment, hold, ending, request, invoice>>

\* A dispatch whose transaction rolls back leaves the provider's refund.
DispatchAborted(i) ==
    /\ ~suspended
    /\ SendRefund(i)
    /\ UNCHANGED <<environment, hold, ending, refunds, invoice>>

-----------------------------------------------------------------------------
Environment ==
    \/ Tick
    \/ ChangeSuspension
    \/ ChangeFulfillable
    \/ \E i \in Attempt :
          ProviderPaid(i) \/ ProviderRefunds(i) \/ ProviderCorrectsRefund(i)

Payment ==
    \/ SwitchProvider
    \/ Reconcile
    \/ ExpireDue
    \/ ReconcileAborted

End == CancelGuest \/ CancelHotel \/ NoShow \/ CheckIn

Refunds ==
    \/ RequestRefunds
    \/ \E i \in Attempt : DispatchRefund(i) \/ DispatchAborted(i)

Next == Environment \/ Payment \/ End \/ Refunds

Spec == Init /\ [][Next]_vars

(* Nothing in the code runs the endpoints by itself.  The clock runs and   *)
(* the provider reports each refund in the end; each liveness property says*)
(* who has to keep at it: a manager who runs the batch, or a guest who asks*)
(* and a worker that sends the refunds.                                    *)

LiveSpec == Spec /\ WF_vars(Tick) /\ \A i \in Attempt : WF_vars(ProviderRefunds(i))

BatchRuns == SF_vars(ExpireDue)

GuestAsks == SF_vars(Reconcile)

RefundsAreSent ==
    /\ SF_vars(RequestRefunds)
    /\ \A i \in Attempt :
          /\ SF_vars(DispatchRefund(i) /\ refund[i] = "none")
          /\ SF_vars(DispatchRefund(i) /\ refund[i] = "SUCCEEDED")

-----------------------------------------------------------------------------
(* Safety.                                                                 *)

\* What the hotel keeps of a captured payment.
Kept(i) == IF capture[i] = "none" THEN 0 ELSE Amount - Due(i)

\* The hotel keeps exactly one payment of a confirmed booking, in full or the
\* retained part of a cancelled one, and nothing of any other payment: however
\* attempts, expiry and late or duplicate captures fall, reconcile's and
\* cancel's refund_due add up.
MoneyBalances ==
    \A i \in Attempt :
        Kept(i) = IF booking # "CONFIRMED" \/ i # applied THEN 0
                  ELSE IF Cancelled THEN cancellation.retained ELSE Amount

\* A stay is only ever prepaid by a payment the hotel keeps entirely, that no
\* refund was requested for: check-in and every cancellation exclude each other.
HostedIsPaid ==
    hosted => /\ booking = "CONFIRMED"
              /\ ~Cancelled
              /\ Kept(applied) = Amount
              /\ request[applied] = 0

\* What the provider is told to return is the request, and the request is what
\* the rows say is owed, although it is never updated: no cancellation adds to
\* an obligation after its request was made.
RefundsMatchObligations ==
    \A i \in Attempt :
        /\ request[i] # 0 => request[i] = Due(i)
        /\ refund[i] # "none" => refundAmount[i] = request[i] /\ request[i] # 0
        /\ confirmed[i] => refund[i] # "none"

\* The rows of one booking agree although each is written by several handlers:
\* a booking is confirmed by the one APPLIED capture, an unsettled booking has no
\* capture and no terminal row, and a terminal row splits the applied payment.
BookingAgrees ==
    /\ booking = "CONFIRMED" <=> applied # NoAttempt
    /\ \A i \in Attempt : capture[i] = "APPLIED" <=> i = applied
    /\ booking = "HOLDING" =>
          ~Cancelled /\ \A i \in Attempt : capture[i] = "none"
    /\ hosted => booking = "CONFIRMED" /\ ~Cancelled
    /\ Cancelled =>
          /\ cancellation.attempt = applied
          /\ cancellation.refund + cancellation.retained
                = IF booking = "CONFIRMED" THEN Amount ELSE 0

\* Switching and expiry leave at most one attempt that may get an invoice, and
\* an attempt is PAID exactly when the capture of its payment was recorded.
AttemptsAgree ==
    /\ \A i, j \in Attempt :
          attempt[i] = "ACTIVE" /\ attempt[j] = "ACTIVE" => i = j
    /\ \A i \in Attempt : attempt[i] = "PAID" <=> capture[i] # "none"
    /\ \A i \in Attempt : invoiced[i] => attempt[i] # "none" /\ invoice[i] # "none"

-----------------------------------------------------------------------------
(* Action properties.                                                      *)

\* A late or a duplicate capture never reopens or re-applies a settled booking,
\* nor takes the inventory back that expiry, cancellation or the stay freed.
SettledIsFinal ==
    [][/\ booking # "HOLDING" => UNCHANGED <<booking, applied>>
       /\ ~Claims => ~Claims']_vars

LapseStep ==
    booking = "HOLDING" /\ booking' = "EXPIRED" /\ UNCHANGED <<capture, cancellation>>

\* A hold lapses only when no invoice recorded for any of its attempts, the
\* superseded ones included, has been paid.
LapseMissesNoPayment ==
    [][LapseStep => \A i \in Attempt : invoiced[i] => invoice[i] # "SUCCEEDED"]_vars

-----------------------------------------------------------------------------
(* Statements of the documents that the code does not keep.                *)

\* docs/46: unsent invoices are not created after expiry.  reconcile goes on to
\* issue the invoice of an attempt after it expired the booking in its loop.
NoInvoiceOfExpiredBooking ==
    [][\A i \in Attempt :
          invoice[i] = "none" /\ invoice'[i] # "none" => booking' # "EXPIRED"]_vars

-----------------------------------------------------------------------------
(* Liveness, for a hotel that is not suspended for ever.                   *)

\* The batch settles every elapsed hold, so its unit of inventory is either
\* sold or released.
ElapsedHoldSettles ==
    BatchRuns /\ []<>~suspended => (booking = "HOLDING" /\ Elapsed ~> booking # "HOLDING")

\* A payment of an invoice the guest was given is recorded, however late and
\* whatever attempt it was for.
PaymentIsRecorded ==
    GuestAsks /\ []<>~suspended =>
        \A i \in Attempt :
            invoiced[i] /\ invoice[i] = "SUCCEEDED" ~> capture[i] # "none"

\* What is owed is returned: requested, sent and confirmed.  (A provider that
\* corrected a refund exactly whenever the hotel is not suspended could hide
\* each success, so the suspension must end for good.)
OwedIsReturned ==
    RefundsAreSent /\ <>[]~suspended => \A i \in Attempt : Due(i) > 0 ~> confirmed[i]

-----------------------------------------------------------------------------
(* The promise this booking keeps.                                         *)

ClaimState ==
    CASE booking = "HOLDING" -> "offered"
      [] booking # "HOLDING" /\ hosted -> "hosted"
      [] booking = "CONFIRMED" /\ ~hosted /\ ~Cancelled -> "booked"
      [] OTHER -> "released"

Promise == INSTANCE BookingPromise WITH
    claim <- ClaimState,
    kept <- [i \in Attempt |-> Kept(i)],
    owed <- [i \in Attempt |-> Due(i)],
    returned <- confirmed

\* The booking implements BookingPromise.
KeepsPromise == Promise!Spec
=============================================================================
