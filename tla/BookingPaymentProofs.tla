------------------------ MODULE BookingPaymentProofs ------------------------
(***************************************************************************)
(* Proofs about BookingPayment for any number of attempts, prices and      *)
(* times.  The inductive invariant is the agreement of the rows: the       *)
(* booking, its attempts and captures, the terminal row, the refund        *)
(* requests.  That the money balances is a consequence of it, and cannot   *)
(* be proved by itself: it says nothing of who may change the rows next.   *)
(* At the end, every step of the booking is one of BookingPromise or is not*)
(* seen by it.                                                             *)
(***************************************************************************)
EXTENDS BookingPayment, WellFoundedInduction, TLAPS

IInv ==
    /\ TypeOK
    /\ AttemptsAgree
    /\ BookingAgrees
    /\ RefundsMatchObligations

(* Due is a sum of two amounts that exclude each other.                    *)
LEMMA DueType ==
    ASSUME TypeOK, BookingAgrees, NEW i \in Attempt
    PROVE  /\ Due(i) \in 0 .. Amount
           /\ i # applied => Due(i) = IF capture[i] = "none" THEN 0 ELSE Amount
           /\ i = applied => Due(i) = IF Cancelled THEN cancellation.refund ELSE 0
<1>1. /\ cancellation.refund \in 0 .. Amount
      /\ Amount \in Nat
      /\ Amount > 0
  BY PriceAssumption DEF TypeOK, Cancellations
<1>2. CASE i # applied
  <2>1. ~(Cancelled /\ cancellation.attempt = i)
    BY <1>2 DEF BookingAgrees
  <2>2. capture[i] # "APPLIED"
    BY <1>2 DEF BookingAgrees
  <2> QED
    BY <1>1, <1>2, <2>1, <2>2 DEF Due, CaptureDue
<1>3. CASE i = applied
  <2>1. capture[i] = "APPLIED"
    BY <1>3 DEF BookingAgrees
  <2>2. Cancelled => cancellation.attempt = i
    BY <1>3 DEF BookingAgrees
  <2> QED
    BY <1>1, <1>3, <2>1, <2>2 DEF Due, CaptureDue
<1> QED
  BY <1>2, <1>3

\* A hold starts with rows that agree.
LEMMA InitIInv == Init => IInv
<1> SUFFICES ASSUME Init PROVE IInv
  OBVIOUS
<1>1. TypeOK
  <2>1. 0 \in 0 .. Amount /\ 0 \in 0 .. MaxTime
    BY PriceAssumption, TimeAssumption
  <2>2. cancellation \in Cancellations
    BY <2>1 DEF Init, Cancellations, NoAttempt
  <2>3. /\ now \in 0 .. MaxTime
        /\ suspended \in BOOLEAN
        /\ fulfillable \in BOOLEAN
        /\ hosted \in BOOLEAN
        /\ booking \in BookingStates
        /\ applied \in Attempt \cup {NoAttempt}
    BY <2>1 DEF Init, BookingStates
  <2>4. /\ attempt \in [Attempt -> AttemptStates]
        /\ invoiced \in [Attempt -> BOOLEAN]
        /\ capture \in [Attempt -> Dispositions \cup {"none"}]
        /\ confirmed \in [Attempt -> BOOLEAN]
        /\ invoice \in [Attempt -> {"none", "PENDING", "SUCCEEDED"}]
        /\ refund \in [Attempt -> {"none", "PENDING", "SUCCEEDED"}]
    BY DEF Init, AttemptStates
  <2>5. /\ request \in [Attempt -> 0 .. Amount]
        /\ refundAmount \in [Attempt -> 0 .. Amount]
    BY <2>1 DEF Init
  <2> QED
    BY <2>2, <2>3, <2>4, <2>5 DEF TypeOK
<1>2. AttemptsAgree
  BY DEF Init, AttemptsAgree, Attempt
<1>3. BookingAgrees
  BY DEF Init, BookingAgrees, Cancelled, Attempt, NoAttempt
<1>4. RefundsMatchObligations
  BY DEF Init, RefundsMatchObligations
<1> QED
  BY <1>1, <1>2, <1>3, <1>4 DEF IInv

-----------------------------------------------------------------------------
(* The environment and the provider's payments touch no row.               *)

\* Time, suspension and capacity touch no row.
LEMMA EnvironmentStep ==
    ASSUME IInv, Tick \/ ChangeSuspension \/ ChangeFulfillable
    PROVE  IInv'
<1>1. /\ now' \in 0 .. MaxTime
      /\ suspended' \in BOOLEAN
      /\ fulfillable' \in BOOLEAN
  <2>1. CASE Tick
    BY <2>1, TimeAssumption DEF IInv, TypeOK, Tick
  <2>2. CASE ChangeSuspension \/ ChangeFulfillable
    BY <2>2 DEF IInv, TypeOK, ChangeSuspension, ChangeFulfillable
  <2> QED
    BY <2>1, <2>2
<1>2. UNCHANGED <<hold, ending, refunds, provider>>
  BY DEF Tick, ChangeSuspension, ChangeFulfillable
<1>5. TypeOK'
  BY <1>1, <1>2 DEF IInv, TypeOK, hold, ending, refunds, provider
<1>3. AttemptsAgree' /\ BookingAgrees'
  BY <1>2 DEF IInv, AttemptsAgree, BookingAgrees, Cancelled, hold, ending, provider
<1>4. RefundsMatchObligations'
  BY <1>2 DEF IInv, RefundsMatchObligations, Due, CaptureDue, Cancelled, hold,
              ending, refunds, provider
<1> QED
  BY <1>3, <1>4, <1>5 DEF IInv

\* What the provider does to an invoice or a refund leaves the rows alone.
LEMMA ProviderStep ==
    ASSUME IInv, NEW k \in Attempt,
           ProviderPaid(k) \/ ProviderRefunds(k) \/ ProviderCorrectsRefund(k)
    PROVE  IInv'
<1>1. TypeOK'
  BY DEF IInv, TypeOK, ProviderPaid, ProviderRefunds, ProviderCorrectsRefund,
         environment, hold, ending, refunds
<1>2. UNCHANGED <<hold, ending, refunds, refundAmount>>
  BY DEF ProviderPaid, ProviderRefunds, ProviderCorrectsRefund
<1>3. \A i \in Attempt : /\ invoice[i] # "none" => invoice'[i] # "none"
                         /\ refund[i] # "none" <=> refund'[i] # "none"
  BY DEF IInv, TypeOK, ProviderPaid, ProviderRefunds, ProviderCorrectsRefund
<1>4. AttemptsAgree' /\ BookingAgrees'
  BY <1>2, <1>3 DEF IInv, AttemptsAgree, BookingAgrees, Cancelled, hold, ending
<1>5. RefundsMatchObligations'
  BY <1>2, <1>3 DEF IInv, RefundsMatchObligations, Due, CaptureDue, Cancelled,
                    hold, ending, refunds
<1> QED
  BY <1>1, <1>4, <1>5 DEF IInv

-----------------------------------------------------------------------------
(* The payment window.                                                     *)

\* switch replaces the active attempt.
LEMMA SwitchStep == ASSUME IInv, SwitchProvider PROVE IInv'
<1>1. PICK k \in Attempt : attempt[k] = "none" /\ attempt' = NewAttempt(k)
  BY DEF SwitchProvider
<1>2. UNCHANGED <<environment, booking, applied, invoiced, capture, ending,
                  refunds, provider>>
  BY DEF SwitchProvider
<1>3. TypeOK'
  BY <1>1, <1>2
     DEF IInv, TypeOK, NewAttempt, AttemptStates, environment, ending, refunds,
         provider
<1>4. AttemptsAgree'
  BY <1>1, <1>2 DEF IInv, AttemptsAgree, NewAttempt, provider
<1>5. BookingAgrees'
  BY <1>2 DEF IInv, BookingAgrees, Cancelled, ending
<1>6. RefundsMatchObligations'
  BY <1>2 DEF IInv, RefundsMatchObligations, Due, CaptureDue, Cancelled, ending,
              refunds, provider
<1> QED
  BY <1>3, <1>4, <1>5, <1>6 DEF IInv

(* The first captured attempt exists: reconcile visits the attempts in     *)
(* their order.                                                            *)
LEMMA FirstCaptured ==
    ASSUME Captured # {}
    PROVE  First \in Captured
<1> DEFINE Less == OpToRel(<, Nat)
<1>1. Captured \subseteq Nat
  BY DEF Captured, Attempt
<1>2. PICK i \in Captured : \A j \in Captured : ~(<<j, i>> \in Less)
  <2>1. IsWellFoundedOn(Less, Nat)
    BY NatLessThanWellFounded
  <2> HIDE DEF Less
  <2> QED
    BY <1>1, <2>1, WFMin
<1>3. \A j \in Captured : i <= j
  <2>1. \A j \in Captured : ~(j < i)
    BY <1>1, <1>2 DEF OpToRel
  <2> QED
    BY <1>1, <2>1
<1> QED
  BY <1>3 DEF First

(* A captured attempt had no capture: the loop skips the PAID ones.        *)
LEMMA CapturedIsNew ==
    ASSUME IInv
    PROVE  /\ Captured \subseteq Attempt
           /\ \A i \in Captured : capture[i] = "none" /\ i # applied
BY DEF IInv, AttemptsAgree, BookingAgrees, Captured, Attempt

(* What a reconcile does to the booking: a settled one stays as it is.     *)
LEMMA ReconcileBooking ==
    ASSUME IInv, ReconcileTransaction
    PROVE  \/ /\ Captured # {} /\ booking = "HOLDING" /\ CanFulfil
              /\ booking' = "CONFIRMED" /\ applied' = First
              /\ First \in Captured
           \/ /\ Captured # {} /\ booking = "HOLDING" /\ ~CanFulfil
              /\ booking' = "EXPIRED" /\ applied' = NoAttempt
           \/ /\ Captured = {} /\ booking = "HOLDING"
              /\ booking' \in {"HOLDING", "EXPIRED"} /\ applied' = NoAttempt
           \/ /\ booking # "HOLDING"
              /\ booking' = booking /\ applied' = applied
<1>1. booking = "HOLDING" => applied = NoAttempt
  BY DEF IInv, BookingAgrees
<1>2. Settles => First \in Captured
  BY FirstCaptured DEF Settles
<1> QED
  BY <1>1, <1>2 DEF ReconcileTransaction, Settles, Lapses

(* The capture rows a reconcile adds.                                      *)
LEMMA ReconcileCapture ==
    ASSUME IInv, ReconcileTransaction, NEW i \in Attempt
    PROVE  /\ i \notin Captured => capture'[i] = capture[i]
           /\ i \in Captured => capture'[i] \in Dispositions
           /\ i \in Captured => (capture'[i] = "APPLIED" <=> i = applied')
<1>1. i \in Captured => capture[i] = "none" /\ i # applied
  BY CapturedIsNew
<1>2. capture'[i] = IF i \in Captured THEN Disposition(i) ELSE capture[i]
  BY DEF ReconcileTransaction
<1>3. (First \in Attempt /\ First # NoAttempt) \/ Captured = {}
  BY FirstCaptured DEF Captured, Attempt, NoAttempt
<1>4. booking = "CONFIRMED" <=> applied # NoAttempt
  BY DEF IInv, BookingAgrees
<1>5. booking \in BookingStates
  BY DEF IInv, TypeOK
<1>6. ASSUME i \in Captured
      PROVE  /\ Disposition(i) \in Dispositions
             /\ Disposition(i) = "APPLIED" <=> i = applied'
  <2>1. i # NoAttempt /\ i # applied /\ Captured # {}
    BY <1>1, <1>6 DEF Attempt, NoAttempt
  <2>2. CASE booking = "HOLDING"
    <3>1. applied = NoAttempt /\ booking # "EXPIRED"
      BY <1>4, <2>2
    <3>2. Disposition(i) =
            IF i = First
            THEN IF CanFulfil THEN "APPLIED" ELSE "FULFILLMENT_UNAVAILABLE"
            ELSE IF CanFulfil THEN "DUPLICATE_CAPTURE"
                 ELSE "LATE_PAYMENT_AFTER_HOLD"
      BY <3>1 DEF Disposition
    <3>3. applied' = IF CanFulfil THEN First ELSE applied
      BY <2>1, <2>2 DEF ReconcileTransaction, Settles
    <3> QED
      BY <2>1, <3>1, <3>2, <3>3 DEF Dispositions
  <2>3. CASE booking # "HOLDING"
    <3>1. applied' = applied
      BY <2>3 DEF ReconcileTransaction, Settles
    <3>2. Disposition(i) \in {"DUPLICATE_CAPTURE", "LATE_PAYMENT_AFTER_HOLD"}
      BY <1>4, <1>5, <2>3 DEF Disposition, BookingStates
    <3> QED
      BY <2>1, <3>1, <3>2 DEF Dispositions
  <2> QED
    BY <2>2, <2>3
<1> QED
  BY <1>2, <1>6

\* reconcile writes values of the columns' types.
LEMMA ReconcileType == ASSUME IInv, ReconcileTransaction PROVE TypeOK'
<1>1. booking' \in BookingStates /\ applied' \in Attempt \cup {NoAttempt}
  BY ReconcileBooking DEF IInv, TypeOK, BookingStates, Captured
<1>2. attempt' \in [Attempt -> AttemptStates]
  BY DEF IInv, TypeOK, ReconcileTransaction, ExpireActive, Paid, AttemptStates
<1>3. invoiced' \in [Attempt -> BOOLEAN]
  BY DEF ReconcileTransaction
<1>4. capture' \in [Attempt -> Dispositions \cup {"none"}]
  <2>1. \A i \in Attempt : capture'[i] \in Dispositions \cup {"none"}
    BY ReconcileCapture DEF IInv, TypeOK
  <2> QED
    BY <2>1 DEF ReconcileTransaction
<1>5. invoice' \in [Attempt -> {"none", "PENDING", "SUCCEEDED"}]
  BY DEF IInv, TypeOK, ReconcileTransaction, Issued
<1>6. UNCHANGED <<environment, ending, refunds, refund, refundAmount>>
  BY DEF ReconcileTransaction
<1> QED
  BY <1>1, <1>2, <1>3, <1>4, <1>5, <1>6
     DEF IInv, TypeOK, environment, ending, refunds

\* reconcile pays attempts and, at a lapse, ends the active one.
LEMMA ReconcileAttempts ==
    ASSUME IInv, ReconcileTransaction
    PROVE  AttemptsAgree'
<1>1. \A i, j \in Attempt : attempt'[i] = "ACTIVE" /\ attempt'[j] = "ACTIVE" => i = j
  BY DEF IInv, AttemptsAgree, ReconcileTransaction, ExpireActive, Paid
<1>2. ASSUME NEW i \in Attempt
      PROVE  attempt'[i] = "PAID" <=> capture'[i] # "none"
  <2>1. attempt[i] = "PAID" <=> capture[i] # "none"
    BY DEF IInv, AttemptsAgree
  <2>2. CASE i \in Captured
    <3>1. attempt'[i] = "PAID"
      BY <2>2 DEF ReconcileTransaction, Lapses, Paid
    <3>2. capture'[i] # "none"
      BY <2>2, ReconcileCapture DEF Dispositions
    <3> QED
      BY <3>1, <3>2
  <2>3. CASE i \notin Captured
    <3>1. attempt'[i] = "PAID" <=> attempt[i] = "PAID"
      BY <2>3 DEF ReconcileTransaction, ExpireActive, Paid
    <3> QED
      BY <2>1, <2>3, <3>1, ReconcileCapture
  <2> QED
    BY <2>2, <2>3
<1>3. ASSUME NEW i \in Attempt, invoiced'[i]
      PROVE  attempt'[i] # "none" /\ invoice'[i] # "none"
  <2>1. invoiced[i] \/ i \in ToInvoice
    BY <1>3 DEF ReconcileTransaction
  <2>2. attempt[i] # "none"
    BY <2>1 DEF IInv, AttemptsAgree, ToInvoice
  <2>3. attempt'[i] # "none"
    BY <2>2 DEF ReconcileTransaction, ExpireActive, Paid
  <2>4. invoice'[i] # "none"
    BY <2>1 DEF IInv, AttemptsAgree, ReconcileTransaction, Issued
  <2> QED
    BY <2>3, <2>4
<1> QED
  BY <1>1, <1>2, <1>3 DEF AttemptsAgree

\* reconcile as a whole.
LEMMA ReconcileStep == ASSUME IInv, ReconcileTransaction PROVE IInv'
<1>1. UNCHANGED <<ending, refunds, refund, refundAmount>>
  BY DEF ReconcileTransaction
<1>2. BookingAgrees'
  <2>1. booking' = "CONFIRMED" <=> applied' # NoAttempt
    BY ReconcileBooking DEF IInv, BookingAgrees, Captured, Attempt, NoAttempt
  <2>2. ASSUME NEW i \in Attempt
        PROVE  capture'[i] = "APPLIED" <=> i = applied'
    <3>1. CASE i \in Captured
      BY <3>1, ReconcileCapture
    <3>2. CASE i \notin Captured
      <4>1. capture'[i] = "APPLIED" <=> i = applied
        BY <3>2, ReconcileCapture DEF IInv, BookingAgrees
      <4>2. CASE applied' = applied
        BY <4>1, <4>2
      <4>3. CASE applied' # applied
        <5>1. applied' \in Captured /\ applied = NoAttempt
          BY <4>3, ReconcileBooking DEF IInv, BookingAgrees
        <5> QED
          BY <3>2, <4>1, <5>1 DEF Attempt, NoAttempt
      <4> QED
        BY <4>2, <4>3
    <3> QED
      BY <3>1, <3>2
  <2>3. booking' = "HOLDING" =>
            ~Cancelled' /\ \A i \in Attempt : capture'[i] = "none"
    <3> SUFFICES ASSUME booking' = "HOLDING"
                 PROVE  ~Cancelled' /\ \A i \in Attempt : capture'[i] = "none"
      OBVIOUS
    <3>1. booking = "HOLDING" /\ Captured = {}
      BY ReconcileBooking
    <3> QED
      BY <1>1, <3>1, ReconcileCapture DEF IInv, BookingAgrees, Cancelled, ending
  <2>4. hosted' => booking' = "CONFIRMED" /\ ~Cancelled'
    BY <1>1, ReconcileBooking DEF IInv, BookingAgrees, Cancelled, ending
  <2>5. Cancelled' =>
            /\ cancellation'.attempt = applied'
            /\ cancellation'.refund + cancellation'.retained
                  = IF booking' = "CONFIRMED" THEN Amount ELSE 0
    BY <1>1, ReconcileBooking DEF IInv, BookingAgrees, Cancelled, ending
  <2> QED
    BY <2>1, <2>2, <2>3, <2>4, <2>5 DEF BookingAgrees
<1>3. RefundsMatchObligations'
  <2>1. ASSUME NEW i \in Attempt, request[i] # 0
        PROVE  Due(i)' = Due(i)
    <3>1. request[i] = Due(i)
      BY <2>1 DEF IInv, RefundsMatchObligations
    <3>2. capture[i] # "none"
      BY <2>1, <3>1 DEF Due
    <3>3. capture'[i] = capture[i]
      BY <3>2, CapturedIsNew, ReconcileCapture
    <3> QED
      BY <1>1, <3>3 DEF Due, CaptureDue, Cancelled, ending
  <2> QED
    BY <1>1, <2>1 DEF IInv, RefundsMatchObligations, refunds
<1> QED
  BY <1>2, <1>3, ReconcileType, ReconcileAttempts DEF IInv

\* A rolled-back reconcile leaves invoices only.
LEMMA AbortedStep == ASSUME IInv, ReconcileAborted PROVE IInv'
<1>1. UNCHANGED <<environment, hold, ending, refunds, refund, refundAmount>>
  BY DEF ReconcileAborted
<1>2. /\ invoice' \in [Attempt -> {"none", "PENDING", "SUCCEEDED"}]
      /\ \A i \in Attempt : invoice[i] # "none" => invoice'[i] # "none"
  BY DEF IInv, TypeOK, ReconcileAborted, Issued
<1>3. TypeOK'
  BY <1>1, <1>2 DEF IInv, TypeOK, environment, hold, ending, refunds
<1>4. AttemptsAgree' /\ BookingAgrees'
  BY <1>1, <1>2 DEF IInv, AttemptsAgree, BookingAgrees, Cancelled, hold, ending
<1>5. RefundsMatchObligations'
  BY <1>1 DEF IInv, RefundsMatchObligations, Due, CaptureDue, Cancelled, hold,
              ending, refunds
<1> QED
  BY <1>3, <1>4, <1>5 DEF IInv

-----------------------------------------------------------------------------
(* How a booking ends.                                                     *)

\* A guest leaves an unpaid hold.
LEMMA CancelHoldingStep == ASSUME IInv, CancelHolding PROVE IInv'
<1>1. /\ booking = "HOLDING" /\ booking' = "EXPIRED" /\ ~Cancelled
      /\ applied = NoAttempt
  BY DEF IInv, BookingAgrees, CancelHolding, MayEnd
<1>2. cancellation' = [outcome |-> "CANCELLED_GUEST", attempt |-> applied,
                       retained |-> 0, refund |-> 0]
  BY DEF CancelHolding
<1>3. UNCHANGED <<environment, applied, invoiced, capture, hosted, refunds,
                  provider>>
  BY DEF CancelHolding
<1>4. /\ attempt' \in [Attempt -> AttemptStates]
      /\ \A i \in Attempt :
            /\ attempt'[i] = "PAID" <=> attempt[i] = "PAID"
            /\ attempt'[i] = "none" <=> attempt[i] = "none"
            /\ attempt'[i] # "ACTIVE"
  BY DEF IInv, TypeOK, CancelHolding, ExpireActive, AttemptStates
<1>5. TypeOK'
  <2>1. cancellation' \in Cancellations
    BY <1>2, PriceAssumption DEF IInv, TypeOK, Cancellations, Outcomes
  <2> QED
    BY <1>1, <1>3, <1>4, <2>1
       DEF IInv, TypeOK, BookingStates, environment, refunds, provider
<1>6. AttemptsAgree'
  BY <1>3, <1>4 DEF IInv, AttemptsAgree, provider
<1>7. BookingAgrees'
  BY <1>1, <1>2, <1>3 DEF IInv, BookingAgrees, Cancelled
<1>8. RefundsMatchObligations'
  <2>1. \A i \in Attempt : Due(i)' = Due(i)
    BY <1>1, <1>3 DEF IInv, BookingAgrees, Due
  <2> QED
    BY <1>3, <2>1 DEF IInv, RefundsMatchObligations, refunds, provider
<1> QED
  BY <1>5, <1>6, <1>7, <1>8 DEF IInv

\* A terminal row of a confirmed booking splits its applied payment.
LEMMA CancelConfirmedStep ==
    ASSUME IInv, NEW o \in Outcomes, CancelConfirmed(o)
    PROVE  IInv'
<1>1. booking = "CONFIRMED" /\ ~Cancelled /\ ~hosted
  BY DEF CancelConfirmed, MayEnd
<1>2. cancellation' = [outcome |-> o, attempt |-> applied,
                       retained |-> Retained(o), refund |-> Amount - Retained(o)]
  BY DEF CancelConfirmed
<1>3. UNCHANGED <<environment, hold, hosted, refunds, provider>>
  BY DEF CancelConfirmed
<1>4. Retained(o) \in 0 .. Amount /\ Amount - Retained(o) \in 0 .. Amount
  BY PriceAssumption DEF Retained
<1>5. TypeOK'
  <2>1. cancellation' \in Cancellations
    BY <1>2, <1>4 DEF IInv, TypeOK, Cancellations
  <2> QED
    BY <1>3, <2>1 DEF IInv, TypeOK, environment, hold, refunds, provider
<1>6. AttemptsAgree'
  BY <1>3 DEF IInv, AttemptsAgree, hold, provider
<1>7. BookingAgrees'
  <2>1. /\ cancellation'.attempt = applied'
        /\ cancellation'.refund + cancellation'.retained = Amount
    BY <1>2, <1>3, <1>4, PriceAssumption DEF hold
  <2> QED
    BY <1>1, <1>3, <2>1 DEF IInv, BookingAgrees, Cancelled, hold
<1>8. RefundsMatchObligations'
  <2>1. ASSUME NEW i \in Attempt, request[i] # 0
        PROVE  Due(i)' = Due(i)
    <3>1. Due(i) # 0
      BY <2>1 DEF IInv, RefundsMatchObligations
    <3>2. i # applied
      BY <1>1, <3>1, DueType DEF IInv
    <3> QED
      BY <1>1, <1>2, <1>3, <3>2 DEF Due, CaptureDue, hold
  <2> QED
    BY <1>3, <2>1 DEF IInv, RefundsMatchObligations, refunds, provider
<1> QED
  BY <1>5, <1>6, <1>7, <1>8 DEF IInv

\* A stay takes the claim over.
LEMMA CheckInStep == ASSUME IInv, CheckIn PROVE IInv'
<1>1. /\ booking = "CONFIRMED" /\ ~Cancelled /\ hosted' = TRUE
      /\ UNCHANGED <<environment, hold, cancellation, refunds, provider>>
  BY DEF CheckIn, MayHost
<1>2. TypeOK' /\ AttemptsAgree'
  BY <1>1 DEF IInv, TypeOK, AttemptsAgree, environment, hold, refunds, provider
<1>3. BookingAgrees'
  BY <1>1 DEF IInv, BookingAgrees, Cancelled, hold
<1>4. RefundsMatchObligations'
  BY <1>1 DEF IInv, RefundsMatchObligations, Due, CaptureDue, Cancelled, hold,
              refunds, provider
<1> QED
  BY <1>2, <1>3, <1>4 DEF IInv

-----------------------------------------------------------------------------
(* The refunds.                                                            *)

\* A request freezes what is owed at its time.
LEMMA RequestStep == ASSUME IInv, RequestRefunds PROVE IInv'
<1>1. UNCHANGED <<environment, hold, ending, confirmed, provider>>
  BY DEF RequestRefunds
<1>2. ASSUME NEW i \in Attempt
      PROVE  /\ request'[i] \in 0 .. Amount
             /\ request[i] # 0 => request'[i] = request[i]
             /\ request'[i] # 0 => request'[i] = Due(i)
  <2>1. request[i] \in 0 .. Amount /\ (request[i] # 0 => request[i] = Due(i))
    BY DEF IInv, TypeOK, RefundsMatchObligations
  <2>2. Due(i) \in 0 .. Amount
    BY DueType DEF IInv
  <2> QED
    BY <2>1, <2>2 DEF RequestRefunds
<1>3. TypeOK'
  <2>1. request' \in [Attempt -> 0 .. Amount]
    BY <1>2 DEF RequestRefunds
  <2> QED
    BY <1>1, <2>1 DEF IInv, TypeOK, environment, hold, ending, provider
<1>4. AttemptsAgree' /\ BookingAgrees'
  BY <1>1 DEF IInv, AttemptsAgree, BookingAgrees, Cancelled, hold, ending, provider
<1>5. RefundsMatchObligations'
  <2>1. \A i \in Attempt : Due(i)' = Due(i)
    BY <1>1 DEF Due, CaptureDue, Cancelled, hold, ending
  <2> QED
    BY <1>1, <1>2, <2>1 DEF IInv, RefundsMatchObligations, provider
<1> QED
  BY <1>3, <1>4, <1>5 DEF IInv

\* A dispatch, rolled back or not, tells the provider the request.
LEMMA DispatchStep ==
    ASSUME IInv, NEW k \in Attempt, DispatchRefund(k) \/ DispatchAborted(k)
    PROVE  IInv'
<1>1. /\ SendRefund(k)
      /\ UNCHANGED <<environment, hold, ending, request, invoice>>
      /\ confirmed' = confirmed
           \/ confirmed' = [confirmed EXCEPT ![k] = refund[k] = "SUCCEEDED"]
  BY DEF DispatchRefund, DispatchAborted, refunds
<1>2. TypeOK'
  <2>1. confirmed' \in [Attempt -> BOOLEAN]
    BY <1>1 DEF IInv, TypeOK
  <2>2. /\ refund' \in [Attempt -> {"none", "PENDING", "SUCCEEDED"}]
        /\ refundAmount' \in [Attempt -> 0 .. Amount]
    BY <1>1 DEF IInv, TypeOK, SendRefund
  <2> QED
    BY <1>1, <2>1, <2>2 DEF IInv, TypeOK, environment, hold, ending
<1>3. AttemptsAgree' /\ BookingAgrees'
  BY <1>1 DEF IInv, AttemptsAgree, BookingAgrees, Cancelled, hold, ending
<1>4. RefundsMatchObligations'
  <2>1. ASSUME NEW i \in Attempt
        PROVE  /\ Due(i)' = Due(i) /\ request'[i] = request[i]
               /\ refund'[i] # "none" => /\ refundAmount'[i] = request[i]
                                        /\ request[i] # 0
               /\ confirmed'[i] => refund'[i] # "none"
    <3>1. Due(i)' = Due(i) /\ request'[i] = request[i]
      BY <1>1 DEF Due, CaptureDue, Cancelled, hold, ending
    <3>2. request[i] \in 0 .. Amount
      BY DEF IInv, TypeOK
    <3>3. refund'[i] # "none" => refundAmount'[i] = request[i] /\ request[i] # 0
      BY <1>1, <3>2, PriceAssumption
         DEF IInv, TypeOK, RefundsMatchObligations, SendRefund
    <3>4. confirmed'[i] => refund'[i] # "none"
      BY <1>1 DEF IInv, TypeOK, RefundsMatchObligations, SendRefund
    <3> QED
      BY <3>1, <3>3, <3>4
  <2> QED
    BY <2>1 DEF IInv, RefundsMatchObligations
<1> QED
  BY <1>2, <1>3, <1>4 DEF IInv

-----------------------------------------------------------------------------
\* Steps that change nothing.
LEMMA StutterStep == ASSUME IInv, UNCHANGED vars PROVE IInv'
BY DEF IInv, TypeOK, AttemptsAgree, BookingAgrees, RefundsMatchObligations, Due,
       CaptureDue, Cancelled, vars, environment, hold, ending, refunds, provider

\* Every step preserves the inductive invariant.
LEMMA NextIInv == IInv /\ [Next]_vars => IInv'
<1> SUFFICES ASSUME IInv, [Next]_vars PROVE IInv'
  OBVIOUS
<1>1. CASE Environment
  BY <1>1, EnvironmentStep, ProviderStep DEF Environment
<1>2. CASE SwitchProvider
  BY <1>2, SwitchStep
<1>3. CASE Reconcile \/ ExpireDue
  BY <1>3, ReconcileStep DEF Reconcile, ExpireDue
<1>4. CASE ReconcileAborted
  BY <1>4, AbortedStep
<1>5. CASE CancelGuest \/ CancelHotel \/ NoShow
  BY <1>5, CancelHoldingStep, CancelConfirmedStep
     DEF CancelGuest, CancelHotel, NoShow, Outcomes
<1>6. CASE CheckIn
  BY <1>6, CheckInStep
<1>7. CASE Refunds
  BY <1>7, RequestStep, DispatchStep DEF Refunds
<1>8. CASE UNCHANGED vars
  BY <1>8, StutterStep
<1> QED
  BY <1>1, <1>2, <1>3, <1>4, <1>5, <1>6, <1>7, <1>8 DEF Next, Payment, End

\* The inductive invariant holds in every reachable state.
LEMMA Invariance == Spec => []IInv
BY InitIInv, NextIInv, PTL DEF Spec

(* The types of the rows, of the provider's store and of the clock.        *)
THEOREM TypeCorrect == Spec => []TypeOK
<1>1. IInv => TypeOK
  BY DEF IInv
<1> QED
  BY <1>1, Invariance, PTL

(* A confirmed booking has exactly one APPLIED capture, an unsettled one    *)
(* has none, a stay excludes a cancellation, and a terminal row splits the  *)
(* applied payment: reconcile, cancel and check-in keep the rows agreeing.  *)
THEOREM BookingRowsAgree == Spec => []BookingAgrees
<1>1. IInv => BookingAgrees
  BY DEF IInv
<1> QED
  BY <1>1, Invariance, PTL

\* What the guest is owed of each payment, in the terms of the rows.
Owes ==
    \A i \in Attempt :
        Due(i) = IF capture[i] = "none" THEN 0
                 ELSE IF i # applied THEN Amount
                 ELSE IF Cancelled THEN cancellation.refund ELSE 0

\* The rows determine what is kept and what is owed of each payment.
LEMMA MoneyFollows == IInv => MoneyBalances /\ Owes
<1> SUFFICES ASSUME IInv, NEW i \in Attempt
             PROVE  /\ Kept(i) =
                         IF booking # "CONFIRMED" \/ i # applied THEN 0
                         ELSE IF Cancelled THEN cancellation.retained ELSE Amount
                    /\ Due(i) = IF capture[i] = "none" THEN 0
                         ELSE IF i # applied THEN Amount
                         ELSE IF Cancelled THEN cancellation.refund ELSE 0
  BY DEF MoneyBalances, Owes
<1>1. /\ TypeOK /\ BookingAgrees
      /\ Amount \in Nat
      /\ cancellation.retained \in 0 .. Amount
      /\ cancellation.refund \in 0 .. Amount
  BY PriceAssumption DEF IInv, TypeOK, Cancellations
<1>2. CASE i # applied
  BY <1>1, <1>2, DueType DEF Kept
<1>3. CASE i = applied
  <2>1. /\ capture[i] = "APPLIED" /\ booking = "CONFIRMED"
        /\ Due(i) = IF Cancelled THEN cancellation.refund ELSE 0
    BY <1>1, <1>3, DueType DEF BookingAgrees, Attempt, NoAttempt
  <2>2. Cancelled => cancellation.refund + cancellation.retained = Amount
    BY <1>1, <2>1 DEF BookingAgrees
  <2> QED
    BY <1>1, <1>3, <2>1, <2>2 DEF Kept
<1> QED
  BY <1>2, <1>3

\* The same of the state after a step.
LEMMA MoneyFollowsNext == IInv' => MoneyBalances' /\ Owes'
BY MoneyFollows, PTL

(* The refund_due of captures and cancellations add up: of all captured     *)
(* payments the hotel keeps one, in full or the retained part, and the rest *)
(* is owed.                                                                 *)
THEOREM MoneyAlwaysBalances == Spec => []MoneyBalances
<1>1. IInv => MoneyBalances
  BY MoneyFollows
<1> QED
  BY <1>1, Invariance, PTL

(* A stay is prepaid by a payment the hotel keeps entirely and that no      *)
(* refund was requested for.                                                *)
THEOREM HostedIsAlwaysPaid == Spec => []HostedIsPaid
<1>1. ASSUME IInv, hosted PROVE HostedIsPaid
  <2>1. /\ TypeOK /\ BookingAgrees
        /\ booking = "CONFIRMED" /\ ~Cancelled
        /\ applied \in Attempt /\ capture[applied] = "APPLIED"
    BY <1>1 DEF IInv, TypeOK, BookingAgrees
  <2>2. Due(applied) = 0
    BY <2>1, DueType
  <2>3. Kept(applied) = Amount
    BY <2>1, <2>2, PriceAssumption DEF Kept
  <2>4. request[applied] = 0
    BY <1>1, <2>1, <2>2 DEF IInv, RefundsMatchObligations
  <2> QED
    BY <2>1, <2>3, <2>4 DEF HostedIsPaid
<1>2. IInv => HostedIsPaid
  BY <1>1 DEF HostedIsPaid
<1> QED
  BY <1>2, Invariance, PTL

(* The provider is told to return exactly what is owed: no obligation grows *)
(* after the request that is never updated.                                 *)
THEOREM RefundsAlwaysMatch == Spec => []RefundsMatchObligations
<1>1. IInv => RefundsMatchObligations
  BY DEF IInv
<1> QED
  BY <1>1, Invariance, PTL

(* A settled booking keeps its outcome and its applied payment, and freed   *)
(* inventory is not taken back, whatever is captured later.                 *)
THEOREM SettledStaysFinal == Spec => SettledIsFinal
<1> DEFINE Step == /\ booking # "HOLDING" => UNCHANGED <<booking, applied>>
                   /\ ~Claims => ~Claims'
<1>1. ASSUME IInv, Next PROVE Step
  <2>1. CASE Reconcile \/ ExpireDue
    <3>1. UNCHANGED <<cancellation, hosted>>
      BY <2>1 DEF Reconcile, ExpireDue, ReconcileTransaction, ending
    <3>2. booking # "HOLDING" => UNCHANGED <<booking, applied>>
      BY <2>1, <1>1, ReconcileBooking DEF Reconcile, ExpireDue
    <3>3. booking = "HOLDING" => ~Cancelled /\ ~hosted
      BY <1>1 DEF IInv, BookingAgrees
    <3> QED
      BY <3>1, <3>2, <3>3 DEF Claims, Cancelled
  <2>2. CASE CancelHolding
    BY <2>2 DEF CancelHolding, MayEnd, Claims
  <2>3. ASSUME NEW o \in Outcomes, CancelConfirmed(o) PROVE Step
    BY <2>3 DEF CancelConfirmed, MayEnd, Claims, hold
  <2>4. CASE CheckIn
    BY <2>4 DEF CheckIn, MayHost, Claims, hold
  <2>5. CASE Environment \/ SwitchProvider \/ ReconcileAborted \/ Refunds
    <3>1. UNCHANGED <<booking, applied, cancellation, hosted>>
      BY <2>5 DEF Environment, Tick, ChangeSuspension, ChangeFulfillable,
                  ProviderPaid, ProviderRefunds, ProviderCorrectsRefund,
                  SwitchProvider, ReconcileAborted, Refunds, RequestRefunds,
                  DispatchRefund, DispatchAborted, hold, ending
    <3> QED
      BY <3>1 DEF Claims, Cancelled
  <2>6. Outcomes = {"CANCELLED_GUEST", "CANCELLED_HOTEL", "NO_SHOW"}
    BY DEF Outcomes
  <2> QED
    BY <1>1, <2>1, <2>2, <2>3, <2>4, <2>5, <2>6
       DEF Next, Payment, End, CancelGuest, CancelHotel, NoShow
<1>2. IInv /\ [Next]_vars => [Step]_vars
  BY <1>1
<1> HIDE DEF Step
<1>3. Spec => [][Step]_vars
  BY <1>2, Invariance, PTL DEF Spec
<1> QED
  BY <1>3 DEF Step, SettledIsFinal

(* A hold lapses only when none of the invoices recorded for its attempts,  *)
(* the superseded ones included, has been paid.                             *)
THEOREM LapseNeverMissesPayment == Spec => LapseMissesNoPayment
<1> DEFINE Step == LapseStep => \A i \in Attempt :
                                   invoiced[i] => invoice[i] # "SUCCEEDED"
<1>1. ASSUME IInv, Next, LapseStep PROVE Step
  <2>1. CASE Reconcile \/ ExpireDue
    <3>1. ReconcileTransaction
      BY <2>1 DEF Reconcile, ExpireDue
    <3>2. Captured = {}
      <4>1. \A i \in Captured : capture'[i] \in Dispositions /\ capture[i] = "none"
        BY <1>1, <3>1, ReconcileCapture, CapturedIsNew
      <4> QED
        BY <1>1, <4>1 DEF LapseStep, Dispositions
    <3>3. \A i \in Attempt : attempt[i] # "PAID" /\ (invoiced[i] => attempt[i] # "none")
      BY <1>1 DEF IInv, AttemptsAgree, BookingAgrees, LapseStep
    <3> QED
      BY <3>2, <3>3 DEF Captured
  <2>2. CASE CancelHolding
    <3>1. cancellation'.outcome # "none" /\ cancellation.outcome = "none"
      BY <2>2 DEF CancelHolding, MayEnd, Cancelled
    <3> QED
      BY <1>1, <3>1 DEF LapseStep
  <2>3. booking # "HOLDING" \/ booking' = booking \/ Reconcile \/ ExpireDue \/ CancelHolding
    BY <1>1 DEF Next, Environment, Tick, ChangeSuspension, ChangeFulfillable,
                ProviderPaid, ProviderRefunds, ProviderCorrectsRefund, Payment,
                SwitchProvider, ReconcileAborted, End, CancelGuest, CancelHotel,
                NoShow, CancelConfirmed, CheckIn, Refunds, RequestRefunds,
                DispatchRefund, DispatchAborted, hold
  <2> QED
    BY <1>1, <2>1, <2>2, <2>3 DEF LapseStep
<1>2. IInv /\ [Next]_vars => [Step]_vars
  BY <1>1
<1> HIDE DEF Step
<1>3. Spec => [][Step]_vars
  BY <1>2, Invariance, PTL DEF Spec
<1> QED
  BY <1>3 DEF Step, LapseMissesNoPayment
-----------------------------------------------------------------------------
(* The booking implements BookingPromise.                                  *)

\* A step that leaves these rows alone is not seen by the promise.
LEMMA PromiseStutter ==
    ASSUME UNCHANGED <<booking, applied, capture, cancellation, hosted, confirmed>>
    PROVE  UNCHANGED Promise!vars
<1>1. \A i \in Attempt : Due(i)' = Due(i) /\ Kept(i)' = Kept(i)
  BY DEF Kept, Due, CaptureDue, Cancelled
<1>2. ClaimState' = ClaimState
  BY DEF ClaimState, Cancelled
<1> QED
  BY <1>1, <1>2 DEF Promise!vars

\* A new booking is an offer of which nothing is kept, owed or returned.
LEMMA InitPromise == Init => Promise!Init
<1> SUFFICES ASSUME Init PROVE Promise!Init
  OBVIOUS
<1>1. \A i \in Attempt : Due(i) = 0 /\ Kept(i) = 0
  BY DEF Init, Due, Kept
<1>2. ClaimState = "offered" /\ confirmed = [i \in Attempt |-> FALSE]
  BY DEF Init, ClaimState
<1> QED
  BY <1>1, <1>2 DEF Promise!Init

\* A reconcile that finds payments records them, and at most the first of them
\* pays the booking.
LEMMA ReconcileRecords ==
    ASSUME IInv, ReconcileTransaction, Captured # {}
    PROVE  \E k \in Captured \cup {NoAttempt} : Promise!Record(Captured, k)
<1> DEFINE k == IF booking = "HOLDING" THEN applied' ELSE NoAttempt
<1>1. /\ IInv'
      /\ MoneyBalances /\ Owes
  BY ReconcileStep, MoneyFollows
<1>2. MoneyBalances' /\ Owes'
  BY <1>1, MoneyFollowsNext
<1>3. /\ UNCHANGED <<cancellation, hosted, confirmed>>
      /\ Cancelled' = Cancelled
  BY DEF ReconcileTransaction, ending, refunds, Cancelled
<1>4. /\ Captured \subseteq Attempt
      /\ \A i \in Captured : capture[i] = "none" /\ i # applied
      /\ NoAttempt \notin Attempt
  BY CapturedIsNew DEF Attempt, NoAttempt
<1>5. /\ booking = "CONFIRMED" <=> applied # NoAttempt
      /\ booking' = "CONFIRMED" <=> applied' # NoAttempt
      /\ booking = "HOLDING" => ~Cancelled /\ ~hosted
      /\ booking = "HOLDING" => \A i \in Attempt : capture[i] = "none"
  BY <1>1 DEF IInv, BookingAgrees
<1>6. \/ /\ booking = "HOLDING" /\ booking' = "CONFIRMED"
         /\ k \in Captured /\ k = applied'
      \/ /\ booking = "HOLDING" /\ booking' = "EXPIRED"
         /\ k = NoAttempt /\ applied' = NoAttempt
      \/ /\ booking # "HOLDING" /\ booking' = booking /\ applied' = applied
         /\ k = NoAttempt
  BY ReconcileBooking
<1> HIDE DEF k
<1>7. \A i \in Captured : Kept(i) = 0 /\ Due(i) = 0
  BY <1>4 DEF Kept, Due
<1>8. \A i \in Attempt : Kept(i)' = IF i = k THEN Amount ELSE Kept(i)
  BY <1>1, <1>2, <1>3, <1>4, <1>5, <1>6 DEF MoneyBalances
<1>9. \A i \in Attempt : Due(i)' = IF i \in Captured \ {k} THEN Amount ELSE Due(i)
  <2> SUFFICES ASSUME NEW i \in Attempt
               PROVE  Due(i)' = IF i \in Captured \ {k} THEN Amount ELSE Due(i)
    OBVIOUS
  <2>1. /\ Due(i) = IF capture[i] = "none" THEN 0
                    ELSE IF i # applied THEN Amount
                    ELSE IF Cancelled THEN cancellation.refund ELSE 0
        /\ Due(i)' = IF capture'[i] = "none" THEN 0
                     ELSE IF i # applied' THEN Amount
                     ELSE IF Cancelled THEN cancellation.refund ELSE 0
    BY <1>1, <1>2, <1>3 DEF Owes
  <2>2. /\ i \notin Captured => capture'[i] = capture[i]
        /\ i \in Captured => capture'[i] # "none"
    BY ReconcileCapture DEF Dispositions
  <2> QED
    BY <1>4, <1>5, <1>6, <2>1, <2>2
<1>10. ClaimState' = IF k \in Captured THEN "booked"
                     ELSE IF ClaimState = "offered" THEN "released" ELSE ClaimState
  BY <1>3, <1>4, <1>5, <1>6 DEF ClaimState
<1>11. k \in Captured => ClaimState = "offered"
  BY <1>4, <1>6 DEF ClaimState
<1>12. k \in Captured \cup {NoAttempt}
  BY <1>6
<1>13. Promise!Record(Captured, k)
  BY <1>3, <1>4, <1>7, <1>8, <1>9, <1>10, <1>11 DEF Promise!Record
<1> QED
  BY <1>12, <1>13

\* A reconcile that finds no payment lapses the offer or is not seen.
LEMMA ReconcileLapses ==
    ASSUME IInv, ReconcileTransaction, Captured = {}
    PROVE  Promise!Lapse \/ UNCHANGED Promise!vars
<1>1. UNCHANGED <<applied, capture, cancellation, hosted, confirmed>>
  <2>1. capture' = capture
    BY DEF IInv, TypeOK, ReconcileTransaction
  <2> QED
    BY <2>1 DEF ReconcileTransaction, Settles, ending, refunds
<1>2. CASE booking' = booking
  BY <1>1, <1>2, PromiseStutter
<1>3. CASE booking' # booking
  <2>1. booking = "HOLDING" /\ booking' = "EXPIRED" /\ ~hosted
    BY <1>3, ReconcileBooking DEF IInv, BookingAgrees
  <2>2. ClaimState = "offered" /\ ClaimState' = "released"
    BY <1>1, <2>1 DEF ClaimState
  <2>3. \A i \in Attempt : Due(i)' = Due(i) /\ Kept(i)' = Kept(i)
    BY <1>1 DEF Kept, Due, CaptureDue, Cancelled
  <2> QED
    BY <1>1, <2>2, <2>3 DEF Promise!Lapse
<1> QED
  BY <1>2, <1>3

\* A guest who leaves an unpaid hold ends the offer.
LEMMA CancelHoldingLapses ==
    ASSUME IInv, CancelHolding
    PROVE  Promise!Lapse
<1>1. /\ booking = "HOLDING" /\ booking' = "EXPIRED" /\ ~hosted
      /\ UNCHANGED <<capture, hosted, confirmed>>
      /\ \A i \in Attempt : capture[i] = "none"
  BY DEF IInv, BookingAgrees, CancelHolding, MayEnd, refunds
<1>2. ClaimState = "offered" /\ ClaimState' = "released"
  BY <1>1 DEF ClaimState
<1>3. \A i \in Attempt : Due(i)' = Due(i) /\ Kept(i)' = Kept(i)
  BY <1>1 DEF Kept, Due
<1> QED
  BY <1>1, <1>2, <1>3 DEF Promise!Lapse

\* A terminal row of a confirmed booking splits the payment that was kept.
LEMMA CancelConfirmedCancels ==
    ASSUME IInv, NEW o \in Outcomes, CancelConfirmed(o)
    PROVE  \E k \in Attempt : \E r \in 0 .. Amount : Promise!Cancel(k, r)
<1> DEFINE r == Retained(o)
<1>1. /\ IInv'
      /\ MoneyBalances /\ Owes
  BY CancelConfirmedStep, MoneyFollows
<1>2. MoneyBalances' /\ Owes'
  BY <1>1, MoneyFollowsNext
<1>3. /\ booking = "CONFIRMED" /\ ~Cancelled /\ ~hosted
      /\ UNCHANGED <<booking, applied, capture, hosted, confirmed>>
      /\ Cancelled'
      /\ cancellation'.retained = r /\ cancellation'.refund = Amount - r
  BY DEF CancelConfirmed, MayEnd, hold, refunds, Cancelled, Outcomes
<1>4. applied \in Attempt /\ capture[applied] = "APPLIED"
  BY <1>3 DEF IInv, TypeOK, BookingAgrees
<1>5. r \in 0 .. Amount
  BY PriceAssumption DEF Retained
<1> HIDE DEF r
<1>6. Kept(applied) = Amount
  BY <1>1, <1>3, <1>4 DEF MoneyBalances
<1>7. \A i \in Attempt : Kept(i)' = IF i = applied THEN r ELSE Kept(i)
  BY <1>1, <1>2, <1>3, <1>4 DEF MoneyBalances
<1>8. \A i \in Attempt : Due(i)' = IF i = applied THEN Amount - r ELSE Due(i)
  BY <1>1, <1>2, <1>3, <1>4 DEF Owes
<1>9. ClaimState = "booked" /\ ClaimState' = "released"
  BY <1>3 DEF ClaimState
<1>10. Promise!Cancel(applied, r)
  BY <1>3, <1>4, <1>6, <1>7, <1>8, <1>9 DEF Promise!Cancel
<1> QED
  BY <1>4, <1>5, <1>10

\* A check-in hosts the booking.
LEMMA CheckInHosts == ASSUME IInv, CheckIn PROVE Promise!Host
<1>1. /\ booking = "CONFIRMED" /\ ~Cancelled /\ ~hosted /\ hosted'
      /\ UNCHANGED <<booking, capture, cancellation, confirmed>>
  BY DEF CheckIn, MayHost, hold, refunds
<1>2. ClaimState = "booked" /\ ClaimState' = "hosted"
  BY <1>1 DEF ClaimState
<1>3. \A i \in Attempt : Due(i)' = Due(i) /\ Kept(i)' = Kept(i)
  BY <1>1 DEF Kept, Due, CaptureDue, Cancelled
<1> QED
  BY <1>1, <1>2, <1>3 DEF Promise!Host

\* A dispatch that the provider answers with success returns what is owed; the
\* others are not seen.
LEMMA DispatchReturns ==
    ASSUME IInv, NEW k \in Attempt, DispatchRefund(k)
    PROVE  Promise!Return(k) \/ UNCHANGED Promise!vars
<1>1. /\ UNCHANGED <<booking, applied, capture, cancellation, hosted>>
      /\ ~confirmed[k] /\ request[k] > 0
      /\ confirmed' = [confirmed EXCEPT ![k] = refund[k] = "SUCCEEDED"]
  BY DEF DispatchRefund, SendRefund, hold, ending
<1>2. CASE refund[k] = "SUCCEEDED"
  <2>1. confirmed' = [confirmed EXCEPT ![k] = TRUE]
    BY <1>1, <1>2
  <2>2. Due(k) > 0
    <3>1. request[k] \in 0 .. Amount /\ Amount \in Nat
      BY PriceAssumption DEF IInv, TypeOK
    <3>2. request[k] # 0
      BY <1>1, <3>1
    <3> QED
      BY <1>1, <3>2 DEF IInv, RefundsMatchObligations
  <2>3. \A i \in Attempt : Due(i)' = Due(i) /\ Kept(i)' = Kept(i)
    BY <1>1 DEF Kept, Due, CaptureDue, Cancelled
  <2>4. ClaimState' = ClaimState
    BY <1>1 DEF ClaimState, Cancelled
  <2> QED
    BY <1>1, <2>1, <2>2, <2>3, <2>4 DEF Promise!Return
<1>3. CASE refund[k] # "SUCCEEDED"
  <2>1. confirmed' = confirmed
    BY <1>1, <1>3 DEF IInv, TypeOK
  <2> QED
    BY <1>1, <2>1, PromiseStutter
<1> QED
  BY <1>2, <1>3

\* Every step of the booking is a step of the promise, or is not seen by it.
LEMMA StepPromise == IInv /\ [Next]_vars => [Promise!Next]_(Promise!vars)
<1> SUFFICES ASSUME IInv, [Next]_vars
             PROVE  Promise!Next \/ UNCHANGED Promise!vars
  OBVIOUS
<1>1. CASE Reconcile \/ ExpireDue
  <2>1. ReconcileTransaction
    BY <1>1 DEF Reconcile, ExpireDue
  <2>2. CASE Captured # {}
    BY <2>1, <2>2, ReconcileRecords, CapturedIsNew DEF Promise!Next
  <2>3. CASE Captured = {}
    BY <2>1, <2>3, ReconcileLapses DEF Promise!Next
  <2> QED
    BY <2>2, <2>3
<1>2. CASE CancelHolding
  BY <1>2, CancelHoldingLapses DEF Promise!Next
<1>3. ASSUME NEW o \in Outcomes, CancelConfirmed(o)
      PROVE  Promise!Next
  BY <1>3, CancelConfirmedCancels DEF Promise!Next
<1>4. CASE CheckIn
  BY <1>4, CheckInHosts DEF Promise!Next
<1>5. ASSUME NEW i \in Attempt, DispatchRefund(i)
      PROVE  Promise!Next \/ UNCHANGED Promise!vars
  BY <1>5, DispatchReturns DEF Promise!Next
<1>6. ASSUME \/ Environment \/ SwitchProvider \/ ReconcileAborted \/ RequestRefunds
             \/ \E i \in Attempt : DispatchAborted(i)
             \/ UNCHANGED vars
      PROVE  UNCHANGED Promise!vars
  <2>1. UNCHANGED <<booking, applied, capture, cancellation, hosted, confirmed>>
    BY <1>6 DEF Environment, Tick, ChangeSuspension, ChangeFulfillable,
                ProviderPaid, ProviderRefunds, ProviderCorrectsRefund,
                SwitchProvider, ReconcileAborted, RequestRefunds,
                DispatchAborted, vars, hold, ending, refunds
  <2> QED
    BY <2>1, PromiseStutter
<1>7. Outcomes = {"CANCELLED_GUEST", "CANCELLED_HOTEL", "NO_SHOW"}
  BY DEF Outcomes
<1> QED
  BY <1>1, <1>2, <1>3, <1>4, <1>5, <1>6, <1>7
     DEF Next, Payment, End, CancelGuest, CancelHotel, NoShow, Refunds

(* Whatever the order of payments, switches, expiry, cancellations, stays   *)
(* and refunds, the booking implements BookingPromise: the claim is given   *)
(* up once, at most one payment is kept, and every other one is owed in     *)
(* full and returned at most once.                                          *)
THEOREM BookingKeepsPromise == Spec => KeepsPromise
BY InitPromise, StepPromise, Invariance, PTL DEF Spec, KeepsPromise, Promise!Spec
=============================================================================
