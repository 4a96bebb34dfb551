----------------------------- MODULE GuestMoney -----------------------------
(***************************************************************************)
(* The money of one stay: deposit and payments, the room charge, payment   *)
(* invoices, refunds by the original or another channel, refunds that      *)
(* succeed late, corrections of receipts and the settled checkout.         *)
(*                                                                         *)
(* A command locks the cash book and the stay and is one transaction.  The *)
(* reconciliations are two transactions with the provider asked between    *)
(* them: any number of clerks may be between the two, so what one of them  *)
(* was told stays usable.  Amounts are in units.                           *)
(***************************************************************************)
EXTENDS Integers, FiniteSets, SequencesExt

CONSTANTS
    Intents,        \* guest_payment_intent: the payment intents of the stay
    Refunds,        \* guest_refund
    Corrections,    \* guest_correction
    Deposit,        \* deposit taken at check-in
    RoomCharge,     \* the charge of the stay
    DepositBy,      \* channel of the deposit
    Channels,       \* channels used after check-in
    DrawerFloat,    \* cash of others in the drawer
    MaxSlips        \* bound: receipts of the stay

ASSUME GuestMoneyAssumption ==
    /\ Deposit \in Nat \ {0} /\ RoomCharge \in Nat \ {0} /\ MaxSlips \in Nat \ {0}
    /\ DrawerFloat \in Nat
    /\ Channels \subseteq {"CASH", "MANUAL_POS", "QPAY"} /\ DepositBy \in {"CASH", "MANUAL_POS", "QPAY"}
    /\ IsFiniteSet(Refunds)
    /\ Intents \cap Refunds = {} /\ Intents \cap Corrections = {} /\ Refunds \cap Corrections = {}
    /\ "desk" \notin Intents

Amounts == 1 .. (IF Deposit > RoomCharge THEN Deposit ELSE RoomCharge)
AnyChannel == {"CASH", "MANUAL_POS", "QPAY"}
Slips == [purpose : {"DEPOSIT", "PAYMENT"}, channel : AnyChannel, amount : Amounts,
          allocated : Nat, reserved : Nat, refunded : Nat, reversed : Nat,
          attempt : Intents \cup Corrections \cup {"desk"}]

Resolved == {"PROVIDER_STATUS_CORRECTED_NOT_SUCCESS", "PROVIDER_SUCCESS_POSTED"}

VARIABLES
    acct,          \* guest_finance: the totals of the deposits, and frozen
    slips,         \* guest_receipt
    paid,          \* guest_charge.paid_mnt
    till,          \* cash_drawer: posted and reserved
    inHouse,       \* the stay is ACTIVE
    intent,        \* guest_payment_intent
    correction,    \* guest_correction, its route and its snapshot
    invoice,       \* the provider's invoice of an intent or a correction
    asking,        \* intents a reconciliation has read as pending
    told,          \* intents the provider was read to have captured
    refund,        \* guest_refund and guest_refund_route
    payback,       \* the provider's refund
    heard,         \* outcomes of it somebody has read
    lateCase,      \* late_refund_case and its postings
    due            \* pending shift_obligation rows of the stay

invoicing == <<intent, invoice, asking, told>>
refunding == <<refund, payback, heard>>
money == <<acct, slips, paid, till>>
guestMoneyVars == <<money, inHouse, invoicing, correction, refunding, lateCase, due>>

GuestMoneyInit ==
    /\ acct = [received |-> Deposit, reversed |-> 0, allocated |-> 0, reserved |-> 0, refunded |-> 0,
               frozen |-> FALSE]
    /\ slips = <<[purpose |-> "DEPOSIT", channel |-> DepositBy, amount |-> Deposit, allocated |-> 0,
                  reserved |-> 0, refunded |-> 0, reversed |-> 0, attempt |-> "desk"]>>
    /\ paid = 0
    /\ till = [posted |-> DrawerFloat + (IF DepositBy = "CASH" THEN Deposit ELSE 0), reserved |-> 0]
    /\ inHouse = TRUE
    /\ intent = [i \in Intents |-> [state |-> "none", amount |-> 0]]
    /\ correction = [c \in Corrections |->
          [state |-> "none", slip |-> 0, amount |-> 0, channel |-> "CASH", routed |-> FALSE, source |-> slips[1]]]
    /\ invoice = [x \in Intents \cup Corrections |-> "none"]
    /\ asking = {}
    /\ told = {}
    /\ refund = [r \in Refunds |-> [state |-> "none", slip |-> 0, amount |-> 0, channel |-> "CASH",
                                    approval |-> "none", sent |-> FALSE]]
    /\ payback = [r \in Refunds |-> "none"]
    /\ heard = [r \in Refunds |-> {}]
    /\ lateCase = [r \in Refunds |-> [state |-> "none", covered |-> 0, shortfall |-> 0]]
    /\ due = {}

-----------------------------------------------------------------------------
(* Balances.                                                               *)

Spendable(s) == s.amount - s.reversed - s.allocated - s.reserved - s.refunded
Available(a) == a.received - a.reversed - a.allocated - a.reserved - a.refunded

Pending(x) == x \in Intents /\ intent[x].state = "PENDING"
HeldByIntents(except) ==
    LET pending == {i \in Intents \ except : intent[i].state = "PENDING"}
    IN  SumFunction([i \in pending |-> intent[i].amount])

\* Mutant: the charge forgets the invoices that may still be paid.
ChargeableUnheld(amount, already, except) == amount <= RoomCharge - already
Chargeable(amount, already, except) == amount <= RoomCharge - already - HeldByIntents(except)

NoPendingCorrection(n) == \A c \in Corrections : ~(correction[c].state = "PENDING" /\ correction[c].slip = n)

\* The drawer after a movement, and when it is refused.
Till(posted, reserved) == [posted |-> till.posted + posted, reserved |-> till.reserved + reserved]
CashAllows(t) == t.posted >= 0 /\ t.reserved <= t.posted

\* Mutant: the shift stays bound to what is over.
StillBound(x) == due
Unbound(x) == due \ {x}

NewSlip(purpose, channel, amount, allocated, attempt) ==
    [purpose |-> purpose, channel |-> channel, amount |-> amount, allocated |-> allocated,
     reserved |-> 0, refunded |-> 0, reversed |-> 0, attempt |-> attempt]

-----------------------------------------------------------------------------
(* Payments of the charge.                                                 *)

\* GuestFinance.receive and GuestPayments.pos.
PayAtDesk(channel, amount) ==
    /\ inHouse /\ ~acct.frozen /\ Len(slips) < MaxSlips
    /\ channel \in {"CASH", "MANUAL_POS"}
    /\ Chargeable(amount, paid, {})
    /\ paid' = paid + amount
    /\ slips' = Append(slips, NewSlip("PAYMENT", channel, amount, amount, "desk"))
    /\ till' = IF channel = "CASH" THEN Till(amount, 0) ELSE till
    /\ UNCHANGED <<acct, inHouse, invoicing, correction, refunding, lateCase, due>>

Allocate(n, amount) ==
    /\ inHouse /\ ~acct.frozen
    /\ NoPendingCorrection(n)
    /\ slips[n].purpose = "DEPOSIT"
    /\ amount <= Spendable(slips[n]) /\ amount <= Available(acct)
    /\ Chargeable(amount, paid, {})
    /\ paid' = paid + amount
    /\ slips' = [slips EXCEPT ![n].allocated = @ + amount]
    /\ acct' = [acct EXCEPT !.allocated = @ + amount]
    /\ UNCHANGED <<till, inHouse, invoicing, correction, refunding, lateCase, due>>

CreateIntent(i, amount) ==
    /\ inHouse /\ ~acct.frozen
    /\ intent[i].state = "none"
    /\ \A j \in Intents : ~Pending(j)
    /\ amount <= RoomCharge - paid
    /\ intent' = [intent EXCEPT ![i] = [state |-> "PENDING", amount |-> amount]]
    /\ due' = due \cup {i}
    /\ UNCHANGED <<money, inHouse, invoice, asking, told, correction, refunding, lateCase>>

\* GuestPayments.reconcile: the transaction before the provider is asked,
AskAboutIntent(i) ==
    /\ Pending(i) /\ ~acct.frozen /\ i \notin asking
    /\ asking' = asking \cup {i}
    /\ UNCHANGED <<money, inHouse, intent, invoice, told, correction, refunding, lateCase, due>>

\* the provider (which creates the invoice it does not know yet),
ProviderTells(i) ==
    /\ i \in asking
    /\ invoice' = [invoice EXCEPT ![i] = IF @ = "none" THEN "PENDING" ELSE @]
    /\ told' = IF invoice[i] = "SUCCEEDED" THEN told \cup {i} ELSE told
    /\ UNCHANGED <<money, inHouse, intent, asking, correction, refunding, lateCase, due>>

\* and the transaction after it.
ApplyIntent(i) ==
    /\ i \in told /\ ~acct.frozen /\ Pending(i)
    /\ Chargeable(intent[i].amount, paid, {i})
    /\ Len(slips) < MaxSlips
    /\ paid' = paid + intent[i].amount
    /\ slips' = Append(slips, NewSlip("PAYMENT", "QPAY", intent[i].amount, intent[i].amount, i))
    /\ intent' = [intent EXCEPT ![i].state = "APPLIED"]
    /\ due' = Unbound(i)
    /\ UNCHANGED <<acct, till, inHouse, invoice, asking, told, correction, refunding, lateCase>>

\* A correction's invoice is voided if there is one; an intent's is created in order
\* to be voided.  Mutant: the first for the second.
VoidedIfKnown(x) == IF x = "none" THEN "none" ELSE "VOIDED"
VoidedFirst(x) == "VOIDED"

\* The provider voids in a database of its own and the transaction may roll
\* back after it; the command is then repeated.
VoidIntent(i) ==
    /\ Pending(i) /\ ~acct.frozen
    /\ invoice[i] # "SUCCEEDED"
    /\ invoice' = [invoice EXCEPT ![i] = VoidedFirst(@)]
    /\ \/ /\ intent' = [intent EXCEPT ![i].state = "CANCELLED"]
          /\ due' = Unbound(i)
       \/ invoice' # invoice /\ UNCHANGED <<intent, due>>
    /\ UNCHANGED <<money, inHouse, asking, told, correction, refunding, lateCase>>

GuestCaptures(x) ==
    /\ invoice[x] = "PENDING"
    /\ invoice' = [invoice EXCEPT ![x] = "SUCCEEDED"]
    /\ UNCHANGED <<money, inHouse, intent, asking, told, correction, refunding, lateCase, due>>

-----------------------------------------------------------------------------
(* Refunds.                                                                *)

\* reserve_refund (in cash, by the drawer that took the deposit) and reserve
\* (by any channel; another one than the receipt's needs a manager).
Reserve(r, n, amount, channel, routed) ==
    /\ ~acct.frozen
    /\ refund[r].state = "none"
    /\ NoPendingCorrection(n)
    /\ slips[n].purpose = "DEPOSIT"
    /\ ~routed => channel = "CASH" /\ slips[n].channel = "CASH"
    /\ amount <= Spendable(slips[n]) /\ amount <= Available(acct)
    /\ till' = IF channel = "CASH" THEN Till(0, amount) ELSE till
    /\ CashAllows(till')
    /\ refund' = [refund EXCEPT ![r] =
          [state |-> "RESERVED", slip |-> n, amount |-> amount, channel |-> channel, sent |-> FALSE,
           approval |-> IF ~routed THEN "unrouted" ELSE IF channel = slips[n].channel THEN "APPROVED" ELSE "PENDING"]]
    /\ slips' = [slips EXCEPT ![n].reserved = @ + amount]
    /\ acct' = [acct EXCEPT !.reserved = @ + amount]
    /\ due' = due \cup {r}
    /\ UNCHANGED <<paid, inHouse, invoicing, correction, payback, heard, lateCase>>

RefundedBy(amount, state) == IF state = "COMPLETED" THEN amount ELSE 0

\* A reserved refund ends COMPLETED or RELEASED.
EndRefund(r, state, approval) ==
    LET n == refund[r].slip
        a == refund[r].amount
    IN  /\ refund' = [refund EXCEPT ![r].state = state, ![r].approval = approval]
        /\ slips' = [slips EXCEPT ![n].reserved = @ - a, ![n].refunded = @ + RefundedBy(a, state)]
        /\ acct' = [acct EXCEPT !.reserved = @ - a, !.refunded = @ + RefundedBy(a, state)]
        /\ till' = IF refund[r].channel = "CASH" THEN Till(0 - RefundedBy(a, state), 0 - a) ELSE till
        /\ due' = Unbound(r)
        /\ UNCHANGED <<paid, inHouse, invoicing, correction, payback, heard, lateCase>>

FinishCashRefund(r, state) ==
    /\ refund[r].state = "RESERVED" /\ refund[r].approval = "unrouted" /\ ~acct.frozen
    /\ EndRefund(r, state, "unrouted")

DecideRoute(r, approve) ==
    /\ refund[r].state = "RESERVED" /\ refund[r].approval = "PENDING" /\ ~refund[r].sent /\ ~acct.frozen
    /\ IF approve
       THEN /\ refund' = [refund EXCEPT ![r].approval = "APPROVED"]
            /\ UNCHANGED <<money, inHouse, invoicing, correction, payback, heard, lateCase, due>>
       ELSE EndRefund(r, "RELEASED", "REJECTED")

PayRoutedByHand(r) ==
    /\ refund[r].channel \in {"CASH", "MANUAL_POS"}
    /\ refund[r].state = "RESERVED" /\ refund[r].approval = "APPROVED" /\ ~acct.frozen
    /\ EndRefund(r, "COMPLETED", "APPROVED")

\* RoutedRefunds.reconcile: the mark that the refund is sent is committed first,
MarkSent(r) ==
    /\ refund[r].state = "RESERVED" /\ refund[r].approval = "APPROVED" /\ refund[r].channel = "QPAY"
    /\ ~refund[r].sent
    /\ refund' = [refund EXCEPT ![r].sent = TRUE]
    /\ UNCHANGED <<money, inHouse, invoicing, correction, payback, heard, lateCase, due>>

\* then the provider is told, which keeps the first request it got,
Send(r) ==
    /\ refund[r].sent /\ payback[r] = "none"
    /\ payback' = [payback EXCEPT ![r] = "PENDING"]
    /\ UNCHANGED <<money, inHouse, invoicing, correction, refund, heard, lateCase, due>>

\* A final failure may be followed by a success, and a success be corrected.
ProviderPaysBack(r) ==
    /\ payback[r] # "none"
    /\ \E state \in {"FINAL", "SUCCEEDED"} \ {payback[r]} : payback' = [payback EXCEPT ![r] = state]
    /\ UNCHANGED <<money, inHouse, invoicing, correction, refund, heard, lateCase, due>>

\* and the outcome is read, by a reconciliation, a release or the platform.
AskAboutRefund(r) ==
    /\ payback[r] \in {"FINAL", "SUCCEEDED"} \ heard[r]
    /\ heard' = [heard EXCEPT ![r] = @ \cup {payback[r]}]
    /\ UNCHANGED <<money, inHouse, invoicing, correction, refund, payback, lateCase, due>>

Bookable(r) == "SUCCEEDED" \in heard[r] /\ refund[r].state = "RESERVED" /\ ~acct.frozen

RecordSuccess(r) ==
    /\ Bookable(r)
    /\ EndRefund(r, "COMPLETED", "APPROVED")

\* A refund that was released and paid after all freezes the account.
RecordLateSuccess(r) ==
    /\ "SUCCEEDED" \in heard[r] /\ refund[r].state = "RELEASED" /\ lateCase[r].state = "none"
    /\ lateCase' = [lateCase EXCEPT ![r].state = "OPEN"]
    /\ acct' = [acct EXCEPT !.frozen = TRUE]
    /\ UNCHANGED <<slips, paid, till, inHouse, invoicing, correction, refunding, due>>

\* Mutant: whether it was sent is what the first transaction of the release
\* read, when it had not been.
ReleaseIsProvenEarly(r) == TRUE
ReleaseIsProven(r) == refund[r].sent => "FINAL" \in heard[r]

ReleaseRouted(r) ==
    /\ refund[r].state = "RESERVED" /\ refund[r].approval \in {"PENDING", "APPROVED"} /\ ~acct.frozen
    /\ ReleaseIsProven(r)
    /\ EndRefund(r, "RELEASED", refund[r].approval)

ClaimCase(r) ==
    /\ lateCase[r].state = "OPEN"
    /\ lateCase' = [lateCase EXCEPT ![r].state = "RECONCILING"]
    /\ UNCHANGED <<money, inHouse, invoicing, correction, refunding, due>>

\* Mutant: the account thaws with the first case that is resolved.
ThawsAtOnce(cases) == FALSE
StaysFrozen(cases) == \E r \in Refunds : cases[r].state \in {"OPEN", "RECONCILING"}

\* What is still held covers the late payment, its own receipt first; the
\* rest is a shortfall.
ResolveCase(r, outcome) ==
    LET covered == IF outcome = "FINAL" THEN 0
                   ELSE IF Available(acct) < refund[r].amount THEN Available(acct) ELSE refund[r].amount
        own == refund[r].slip
        resolved == IF outcome = "FINAL" THEN "PROVIDER_STATUS_CORRECTED_NOT_SUCCESS" ELSE "PROVIDER_SUCCESS_POSTED"
    IN  /\ lateCase[r].state = "RECONCILING" /\ outcome \in heard[r]
        /\ \E take \in [DOMAIN slips -> 0 .. covered] :
              /\ \A n \in DOMAIN slips :
                    IF slips[n].purpose = "DEPOSIT" THEN take[n] <= Spendable(slips[n]) ELSE take[n] = 0
              /\ SumFunction(take) = covered
              /\ take[own] \in {covered, Spendable(slips[own])}
              /\ slips' = [n \in DOMAIN slips |-> [slips[n] EXCEPT !.refunded = @ + take[n]]]
        /\ lateCase' = [lateCase EXCEPT ![r] =
              [state |-> resolved, covered |-> covered,
               shortfall |-> IF outcome = "FINAL" THEN 0 ELSE refund[r].amount - covered]]
        /\ acct' = [acct EXCEPT !.refunded = @ + covered, !.frozen = StaysFrozen(lateCase')]
        /\ UNCHANGED <<paid, till, inHouse, invoicing, correction, refunding, due>>

-----------------------------------------------------------------------------
(* Corrections of receipts.                                                *)

\* GuestCorrections.source: only a cash correction insists on a cash receipt
\* and on a deposit that pays nothing yet.
Correctable(s, routed) ==
    /\ s.reserved = 0 /\ s.refunded = 0 /\ s.reversed = 0
    /\ ~routed => s.channel = "CASH" /\ (s.purpose = "DEPOSIT" => s.allocated = 0)
    /\ s.purpose = "PAYMENT" => s.allocated = s.amount

RequestCorrection(c, n, amount, channel, routed) ==
    /\ ~acct.frozen
    /\ correction[c].state = "none"
    /\ ~routed => channel = "CASH"
    /\ NoPendingCorrection(n)
    /\ Correctable(slips[n], routed)
    /\ amount = slips[n].amount => routed /\ ~(channel = "CASH" /\ slips[n].channel = "CASH")
    /\ correction' = [correction EXCEPT ![c] =
          [state |-> "PENDING", slip |-> n, amount |-> amount, channel |-> channel, routed |-> routed,
           source |-> slips[n]]]
    /\ due' = due \cup {c}
    /\ UNCHANGED <<money, inHouse, invoicing, refunding, lateCase>>

InvoiceCorrection(c) ==
    /\ correction[c].state = "PENDING" /\ correction[c].amount > 0 /\ correction[c].channel = "QPAY"
    /\ invoice' = [invoice EXCEPT ![c] = IF @ = "none" THEN "PENDING" ELSE @]
    /\ invoice' # invoice
    /\ UNCHANGED <<money, inHouse, intent, asking, told, correction, refunding, lateCase, due>>

ByProvider(c) == correction[c].channel = "QPAY" /\ correction[c].amount > 0

RejectedInvoice(x) == VoidedIfKnown(x)

RejectCorrection(c) ==
    /\ correction[c].state = "PENDING"
    /\ ByProvider(c) => invoice[c] # "SUCCEEDED"
    /\ invoice' = IF ByProvider(c) THEN [invoice EXCEPT ![c] = RejectedInvoice(@)] ELSE invoice
    /\ \/ /\ correction' = [correction EXCEPT ![c].state = "REJECTED"]
          /\ due' = Unbound(c)
       \/ invoice' # invoice /\ UNCHANGED <<correction, due>>
    /\ UNCHANGED <<money, inHouse, intent, asking, told, refunding, lateCase>>

\* Mutant: the cash of the replaced receipt stays in the drawer.
CashAdded(old, new, channel) == IF channel = "CASH" THEN new ELSE 0
CashDelta(old, new, channel) ==
    (IF channel = "CASH" THEN new ELSE 0) - (IF old.channel = "CASH" THEN old.amount ELSE 0)

\* Mutant: what the replaced deposit had paid stays allocated.
DepositReplaced(old, new, moved) ==
    [acct EXCEPT !.received = @ + new, !.reversed = @ + old.amount, !.allocated = @ + moved]
DepositCorrected(old, new, moved) ==
    [acct EXCEPT !.received = @ + new, !.reversed = @ + old.amount, !.allocated = @ - old.allocated + moved]

\* The receipt is reversed and replaced, and what it paid is paid by the
\* replacement as far as that goes.
ApproveCorrection(c) ==
    LET n == correction[c].slip
        old == slips[n]
        new == correction[c].amount
        moved == IF old.purpose = "PAYMENT" THEN new ELSE IF new < old.allocated THEN new ELSE old.allocated
        replaced == [slips EXCEPT ![n].allocated = 0, ![n].reversed = old.amount]
    IN  /\ correction[c].state = "PENDING" /\ ~acct.frozen
        /\ ByProvider(c) => invoice[c] = "SUCCEEDED"
        /\ Correctable(old, correction[c].routed) /\ old = correction[c].source
        /\ Len(slips) < MaxSlips
        /\ moved > 0 => Chargeable(moved, paid - old.allocated, {})
        /\ paid' = paid - old.allocated + moved
        /\ slips' = IF new = 0 THEN replaced
                    ELSE Append(replaced, NewSlip(old.purpose, correction[c].channel, new, moved,
                                                  IF ByProvider(c) THEN c ELSE "desk"))
        /\ acct' = IF old.purpose = "PAYMENT" THEN acct
                   ELSE DepositCorrected(old, new, moved)
        /\ till' = Till(CashDelta(old, new, correction[c].channel), 0)
        /\ CashAllows(till')
        /\ correction' = [correction EXCEPT ![c].state = "EXECUTED"]
        /\ due' = Unbound(c)
        /\ UNCHANGED <<inHouse, invoicing, refunding, lateCase>>

-----------------------------------------------------------------------------
\* Mutant: a deposit that is being paid back does not keep the stay open.
SettledButReserved == Available(acct) = 0
Settled == acct.reserved = 0 /\ Available(acct) = 0

\* The financial part of CheckoutService.close.
CheckOutSettled ==
    /\ inHouse /\ ~acct.frozen
    /\ Settled /\ paid = RoomCharge
    /\ \A c \in Corrections : correction[c].state # "PENDING"
    /\ \A i \in Intents : ~Pending(i)
    /\ inHouse' = FALSE
    /\ UNCHANGED <<money, invoicing, correction, refunding, lateCase, due>>

GuestMoneyNext ==
    \/ \E a \in Amounts, ch \in Channels : PayAtDesk(ch, a)
    \/ \E a \in Amounts, n \in DOMAIN slips : Allocate(n, a)
    \/ \E i \in Intents :
          \/ \E a \in Amounts : CreateIntent(i, a)
          \/ AskAboutIntent(i) \/ ProviderTells(i) \/ ApplyIntent(i) \/ VoidIntent(i)
    \/ \E x \in Intents \cup Corrections : GuestCaptures(x)
    \/ \E r \in Refunds :
          \/ \E n \in DOMAIN slips, a \in Amounts, ch \in Channels, routed \in BOOLEAN :
                Reserve(r, n, a, ch, routed)
          \/ \E state \in {"COMPLETED", "RELEASED"} : FinishCashRefund(r, state)
          \/ \E approve \in BOOLEAN : DecideRoute(r, approve)
          \/ PayRoutedByHand(r) \/ MarkSent(r) \/ Send(r) \/ ProviderPaysBack(r) \/ AskAboutRefund(r)
          \/ RecordSuccess(r) \/ RecordLateSuccess(r) \/ ReleaseRouted(r) \/ ClaimCase(r)
          \/ \E outcome \in {"FINAL", "SUCCEEDED"} : ResolveCase(r, outcome)
    \/ \E c \in Corrections :
          \/ \E n \in DOMAIN slips, a \in {0} \cup Amounts, ch \in Channels, routed \in BOOLEAN :
                RequestCorrection(c, n, a, ch, routed)
          \/ InvoiceCorrection(c) \/ RejectCorrection(c) \/ ApproveCorrection(c)
    \/ CheckOutSettled

GuestMoneySpec == GuestMoneyInit /\ [][GuestMoneyNext]_guestMoneyVars

-----------------------------------------------------------------------------
\* What a receipt and a refund add to the totals of the stay.
PartsOf(s) ==
    LET held(x) == IF s.purpose = "DEPOSIT" THEN x ELSE 0
    IN  [received |-> held(s.amount), reversed |-> held(s.reversed), allocated |-> held(s.allocated),
         reserved |-> held(s.reserved), refunded |-> held(s.refunded), paid |-> s.allocated,
         cash |-> IF s.channel = "CASH" THEN s.amount - s.reversed ELSE 0]
SlipTotal(part) == SumFunction([n \in DOMAIN slips |-> PartsOf(slips[n])[part]])

RefundPartsOf(x) ==
    LET open(y) == IF x.state = "RESERVED" THEN y ELSE 0
        done(y) == IF x.state = "COMPLETED" THEN y ELSE 0
        inCash == IF x.channel = "CASH" THEN x.amount ELSE 0
    IN  [cashOpen |-> open(inCash), cashDone |-> done(inCash), done |-> done(x.amount)]
RefundTotal(part) == SumFunction([r \in Refunds |-> RefundPartsOf(refund[r])[part]])
ReservedOn(n) ==
    SumFunction([r \in Refunds |->
        IF refund[r].state = "RESERVED" /\ refund[r].slip = n THEN refund[r].amount ELSE 0])
Covered == SumFunction([r \in Refunds |-> lateCase[r].covered])

\* Types of the records of a stay's money.
GuestMoneyTypeOK ==
    /\ acct \in [received : Nat, reversed : Nat, allocated : Nat, reserved : Nat, refunded : Nat, frozen : BOOLEAN]
    /\ slips \in Seq(Slips) /\ Len(slips) <= MaxSlips
    /\ paid \in 0 .. RoomCharge /\ till \in [posted : Nat, reserved : Nat] /\ inHouse \in BOOLEAN
    /\ intent \in [Intents -> [state : {"none", "PENDING", "APPLIED", "CANCELLED"}, amount : {0} \cup Amounts]]
    /\ correction \in [Corrections -> [state : {"none", "PENDING", "EXECUTED", "REJECTED"}, slip : Nat,
                                      amount : {0} \cup Amounts, channel : AnyChannel,
                                      routed : BOOLEAN, source : Slips]]
    /\ invoice \in [Intents \cup Corrections -> {"none", "PENDING", "SUCCEEDED", "VOIDED"}]
    /\ told \subseteq asking /\ asking \subseteq Intents
    /\ refund \in [Refunds -> [state : {"none", "RESERVED", "COMPLETED", "RELEASED"}, slip : Nat,
                              amount : {0} \cup Amounts, channel : AnyChannel, sent : BOOLEAN,
                              approval : {"none", "unrouted", "PENDING", "APPROVED", "REJECTED"}]]
    /\ payback \in [Refunds -> {"none", "PENDING", "FINAL", "SUCCEEDED"}]
    /\ heard \in [Refunds -> SUBSET {"FINAL", "SUCCEEDED"}]
    /\ lateCase \in [Refunds -> [state : {"none", "OPEN", "RECONCILING"} \cup Resolved,
                                covered : Nat, shortfall : Nat]]
    /\ due \subseteq Intents \cup Refunds \cup Corrections

\* The totals of guest_finance (finance.save) are those of the deposit
\* receipts, no receipt is spent twice, and what is reserved on a receipt is
\* what its open refunds reserve: also after late refunds were covered.
LedgerAgrees ==
    /\ \A n \in DOMAIN slips : Spendable(slips[n]) >= 0 /\ slips[n].reserved = ReservedOn(n)
    /\ \A part \in {"received", "reversed", "allocated", "reserved", "refunded"} :
          acct[part] = SlipTotal(part)

\* The drawer (GuestFinance.cash) holds the cash that was taken and not
\* corrected away or paid back, and reserves the cash refunds still open.
DrawerAgrees ==
    /\ till.posted = DrawerFloat + SlipTotal("cash") - RefundTotal("cashDone")
    /\ till.reserved = RefundTotal("cashOpen") /\ till.reserved <= till.posted

\* The charge is never paid twice, not even by an invoice that may still be
\* captured (GuestFinance.charge); what is paid is what the receipts allocate.
ChargeNotOverpaid ==
    /\ paid + HeldByIntents({}) <= RoomCharge
    /\ paid = SlipTotal("paid")

\* When an intent is cancelled or a correction rejected, nobody can pay its
\* invoice any more, though a reconciliation may still be asking for it; a
\* captured payment makes one receipt (GuestPayments.cancel, reconcile).
DeadInvoiceIsUnpayable ==
    /\ \A i \in Intents : intent[i].state = "CANCELLED" => invoice[i] = "VOIDED"
    /\ \A c \in Corrections : correction[c].state = "REJECTED" => invoice[c] \in {"none", "VOIDED"}
    /\ \A i \in Intents :
          Cardinality({n \in DOMAIN slips : slips[n].attempt = i}) = (IF intent[i].state = "APPLIED" THEN 1 ELSE 0)

\* A refund is released only when the provider never got it or had refused it
\* (RoutedRefunds.release), though it may be sent between the two transactions.
ReleasedIsDecided ==
    \A r \in Refunds : refund[r].state = "RELEASED" =>
        /\ payback[r] # "PENDING"
        /\ refund[r].sent => payback[r] # "none"

\* Everything the hotel paid back is booked once, as refunded or as the
\* shortfall of a late case, and the account is frozen exactly while a case
\* is open (RoutedRefunds.resolve_case).
LateSuccessIsPosted ==
    /\ acct.refunded = RefundTotal("done") + Covered
    /\ \A r \in Refunds : lateCase[r].state = "PROVIDER_SUCCESS_POSTED" =>
          lateCase[r].covered + lateCase[r].shortfall = refund[r].amount
    /\ acct.frozen <=> \E r \in Refunds : lateCase[r].state \in {"OPEN", "RECONCILING"}

\* The shift stays bound exactly while money of the stay is under way
\* (shift_obligation).
ShiftBoundWhileOpen ==
    due = {i \in Intents : Pending(i)} \cup {r \in Refunds : refund[r].state = "RESERVED"}
          \cup {c \in Corrections : correction[c].state = "PENDING"}

\* After checkout the charge stays paid and no deposit is held, unless a
\* receipt is corrected later: no answer that was still under way changes it.
ClosedStayIsSettled ==
    ~inHouse /\ (\A c \in Corrections : correction[c].state # "EXECUTED") =>
        paid = RoomCharge /\ acct.reserved = 0 /\ Available(acct) = 0

\* Totals, receipts, charge and drawer agree.
GuestMoneyAgrees == LedgerAgrees /\ DrawerAgrees /\ ChargeNotOverpaid

\* What ended ended for good, what is open is seen to be open.
GuestMoneyIsSettled ==
    /\ DeadInvoiceIsUnpayable /\ ReleasedIsDecided /\ LateSuccessIsPosted
    /\ ShiftBoundWhileOpen /\ ClosedStayIsSettled
=============================================================================
