# Verification of PRsystem

PRsystem runs hotels: reception, rooms, cash drawers, stays, online booking,
minibar, restaurants, staff accounts and the platform's own operation. It is a
Python program over PostgreSQL. Every command is one PostgreSQL transaction;
commands of a hotel are serialised by row and advisory locks (`_catalog_lock`
for rooms and bookings, `ShiftService._book` for the cash book). Payment,
refund, SMS, mail, bank and citizen-register providers live outside that
database (local simulators in SQLite): what they were told is not rolled back
with a transaction. Those two facts shape every model here: a transaction is a
step, a provider is a separate variable, and a step that calls a provider has a
rolled-back variant that keeps the provider's part only.

## The system

| Component | State | Operations | Interacts with | What is hard | What makes it correct | Module |
| --- | --- | --- | --- | --- | --- | --- |
| Booking holds (`booking_holds`, `booking_policy`) | hold, attempts, captures, cancellation | create, switch, reconcile, expire_due, cancel | provider, inventory, refunds, check-in | late and duplicate payments, expiry, rolled-back reconciles | one payment kept, none lost, no booking reopened | `BookingPayment` |
| Staff outcomes (`booking_lifecycle`) | cancellation, upgrade, ranks | no-show, hotel cancellation, upgrade | holds, rooms | races with check-in and the guest | terminal outcome once | `BookingPayment`, `RoomStay` |
| Guest refunds (`booking_refunds`) | requests, confirmations | reconcile_refunds | provider | retry after rollback, frozen amounts | what is owed is returned once | `BookingPayment` |
| Rooms (`booking_inventory`, `room_lifecycle`, `rooms`, `readiness`) | rooms, categories, reservations, claims | capacity check, walk-in protection, retirement, readiness | holds, stays | fragmentation, overdue stays, retirement | every claim can be given a room | `RoomStay` |
| Stays (`stays`, `stay_policy`, `stay_amendments`, `checkout`, `cleaning`) | stay, amendment, cleaning task | check in, amend, leave, close, clean | rooms, money | back-dated arrival, late decisions | no two stays share a room | `RoomStay` |
| Settlement (`booking_settlement`, `mock_bank`) | assessments, batches, payouts | assess, batch, payout, reconcile, void | bank, refunds | dispute after assessment, void against payout | a booking is paid out once | `BookingSettlement` |
| Cash (`cash`, `shifts`, `opening`, `handover`) | drawers, transfers, shifts, revision, counts | execute, prepare, count, close, takeover | guest finance | stale counts, pending transfers at closing | cash is neither made nor lost | `ShiftCash` |
| Guest finance (`guest_finance`, `guest_payments`, `guest_corrections`, `routed_refunds`) | receipts, charges, intents, refunds, late cases | receive, allocate, correct, refund | cash, provider, stay | correction of an allocated receipt, late refund success | money received = allocated + returned + available | `GuestMoney` |
| Funding (`checkin_funding`) | funding, its invoice and return | create, reconcile, cancel, apply, return | provider, check-in | cancellation against capture | a deposit serves one stay or is returned | `CheckinFunding` |
| Restaurant (`restaurant_orders`, `restaurant_policy`, ...) | orders, invoices, links | create, invoice, accept, fulfil, refund, tick | provider, checkout | timeouts against late captures | an order is fulfilled or its money returned | `RestaurantOrder` |
| Staff (`auth`, `membership`, `staff_lifecycle`, `restaurant_identity`) | accounts, sessions, memberships, links | invite, accept, reset, log in, change roles | mail, shifts | old links and sessions after changes | an old secret opens nothing | `StaffIdentity`, `ShiftCash` |
| Mail worker (`mail_worker`) | intents with leases | claim, prepare, send, settle | staff | slow and dead workers | a letter ends once and ends | `StaffMail` |
| Onboarding (`onboarding`) | applications, invoices, jobs, proofs | invoice, reconcile, prove, provision, accept | provider, staff | duplicate and late captures, job retries | a paid hotel opens, once, for its owner | `Onboarding` |
| Subscription (`renewal`, `subscription`, `billing`) | renewals, term, access, packages | invoice, reconcile, apply, gate | provider, everything | order of captures, lock and grace | paid months count once | `Renewal` |
| Reminders (`operation_dashboard`) | drafts, deliveries | preview, send, cancel, retry, settle | SMS provider | unknown delivery, late answers | one reminder | `OperationSms` |
| Guest access (`guest_access`) | QR, codes, sessions | issue, redeem, rotate, revoke | stays, restaurant | capacity over many commands | only the present guests, at most five | `GuestAccess` |
| Minibar (16 modules) | stock, configuration, tasks, reports, refills | transfer, count, rollback, report, bill | cleaning, finance | partial physical work, rollback, recounts | stock is conserved | none yet |

PROJECT.json lists every component with its files, and the hazards at their
lines with the properties about them.

## Plan

Done: `BookingPayment` with its refinement of `BookingPromise`, `ShiftCash`, `RoomStay`,
`BookingSettlement`, `GuestMoney`, `CheckinFunding`, `RestaurantOrder`,
`StaffIdentity`, `StaffMail`, `Onboarding`, `Renewal`, `OperationSms`,
`GuestAccess`.

Their proofs are in `BookingPaymentProofs`, `ShiftCashProofs`, `RoomStayProofs`,
`OnboardingProofs`, `GuestMoneyProofs`, `ServicesProofs` (meals, renewal, mail,
reminders) and `HotelProofs` (deposits before check-in, guest codes, staff accounts,
payouts), on the sums of `FiniteSums`. The last two are one module for several
components: they end with the composition of those that `MCServices` and `MCHotel`
hold side by side.

Next, in this order:

1. The minibar: `MinibarReconciliation`, `MinibarRefill`.
2. The billing jobs of the dashboard.

No module that a proof uses declares a RECURSIVE operator, and every constant has
its assumption.

## BookingPayment

One hold and its attempts. The variables are the columns of `booking_hold`
(`booking`, `applied`), `booking_hold_attempt` (`attempt`, `invoiced`),
`booking_hold_capture` (`capture`), `booking_hold_cancellation`
(`cancellation`), the existence of `booking_hold_application` (`hosted`),
`booking_refund_request` and its confirmation (`request`, `confirmed`), and the
provider's own store (`invoice`, `refund`, `refundAmount`). `hold_state` is not
a variable: the CHECK of migration 034 makes it a function of `booking_state`.
The clock (`now`), the suspension of the hotel and `fulfillable` (the contract
is current, the subscription in its grace, a unit is free) are the environment.

Attempts are numbered in the order `reconcile` visits them, so its loop is the
set `Captured` with `First` deciding what becomes of the rest. Its stale read of
`booking_state` and of the deadline before the loop is kept (`ToInvoice`).
`ReconcileAborted` and `DispatchAborted` are transactions that roll back after
the provider was called.

`BookingPromise` is what a booking promises, without attempts, clocks or rows:
a claim that goes offered -> booked -> hosted or released, what is kept, owed
and returned of each payment. `KeepsPromise` is the refinement: the claim is read off
the booking, its terminal row and its stay (`ClaimState`), kept and owed are the sums
`Kept` and `Due` of the rows, returned is the confirmation.

`BookingLiveness.cfg` adds the fairness of the clock and of the provider.

Bounds: three attempts are an applied payment, another one found in the same
pass and one found later; the clock passes every threshold of the code
(deadline, free cancellation, arrival, no-show cutoff, checkout) in order; the
amount 3 and first night 1 separate full, partial and no retention.

Fairness: nothing in the code runs these endpoints by itself. `LiveSpec` only
assumes that time passes and that the provider reports each refund in the end. Who
has to keep at it is a premise of each property: a manager who runs the batch
(`BatchRuns`) for `ElapsedHoldSettles`, a guest who asks (`GuestAsks`) for
`PaymentIsRecorded`, somebody who has refunds requested and sent (`RefundsAreSent`)
for `OwedIsReturned`. It is strong fairness, since a suspension of the hotel disables
these steps now and then; the properties themselves exclude a hotel that is
suspended for ever. `PaymentIsRecorded` speaks of recorded invoices only.

### Proofs

`BookingPaymentProofs` proves for every number of attempts, prices and times:
`TypeOK`, `BookingAgrees`, `MoneyBalances`, `HostedIsPaid`,
`RefundsMatchObligations`, `SettledIsFinal`, `LapseMissesNoPayment`. The
inductive invariant is `TypeOK /\ AttemptsAgree /\ BookingAgrees /\
RefundsMatchObligations`: that a later cancellation adds nothing to a frozen
request needs that the applied capture owes nothing and has no request, which
needs that rows of one booking agree, which needs that an attempt is PAID
exactly when its capture exists (so no capture is recorded twice).
`MoneyBalances` and `HostedIsPaid` follow from it in a state. One lemma per
action; `FirstCaptured` shows that the first attempt of the loop exists. The
proofs assume only the ASSUMEs of the module.

`BookingKeepsPromise` proves the refinement `KeepsPromise`, step by step, from the
same invariant. `MoneyFollows` (and its primed form) turns what is kept and owed into
the rows, so each lemma only compares rows. A reconcile that finds payments is one
`Record` of all of them, paid by the first if the hold was open and can be honoured
(`ReconcileRecords`); one that finds none is a `Lapse` or is not seen. A guest who
leaves a hold lapses it, a terminal row of a confirmed booking is `Cancel` of the
applied payment with what is retained, a check-in is `Host`. A dispatch is `Return`
when the provider says SUCCEEDED, and that something is owed then is
`RefundsMatchObligations` (`DispatchReturns`). Everything else, rolled-back
transactions included, is not seen by the promise. The liveness is model-checked only.

## ShiftCash

The cash drawers of one hotel and who answers for them (`cash`, `postgres/cash`,
`opening`, `shifts`, `handover`, and what `membership`, `guest_finance` and
`guest_corrections` do to them). Every command but a claim locks the `cash_book`
row; a membership change locks the accounts that every other command locks
first; so a transaction is one action, and the interleaving is between the
commands of several people.

| Variable | Rows |
| --- | --- |
| `member`, `locked` | the roles an ACTIVE membership grants (none: suspended), the subscription past its 48 hours of grace |
| `shift`, `opened` | `reception_shift` with its `staff_open_work`; shifts are numbered as they open |
| `drawer` | `cash_drawer`; shift 0 is the `unopened:` id |
| `handover`, `custody` | the SUBMITTED `shift_handover` of a shift with its counts, the HELD `cash_custody` of a drawer |
| `takeover` | `staff_work_exception`, `shift_takeover` and its usable `shift_cash_count` |
| `transfer`, `obligation` | `cash_transfer` and its cancel request, `shift_obligation` with the refund behind it |
| `counted` | history only: the drawer was counted and nothing moved it since |

A count is compared with the revision of the book (takeover) or with the balance and
the number of counts (handover). The revision is not a variable: each action that
raises it forgets the takeover counts (`StaleCounts`), and the five minutes of a
count may pass at any time. A count keeps who took it: a replacement that was
recovered leaves its count behind, of no use to the next one. `ManagerRevoked` is a
package that no longer gives MANAGER_PLUS the rights of a manager; disabling an
account altogether is left out, as nothing in the code does it. `Pass` is what
handover, self-close and takeover have in common: the next keeper either works a new
shift (`Continues`) or, after a handover, holds the cash in custody. `Working` is
`StayService._shift`, `TakesOver` is `ShiftService._replacement`.

`HandoverFreezesDrawer` and `EndsOnCountedCash` are the heart of it: the
acceptance of a handover compares balances, not revisions, so it is right only
because nobody can move the cash of a SUBMITTED shift at all, which takes the
guards of the guest commands (`_shift`), of the cash commands (`Blocked`) and of
the transfers (`Pending`) together. `CashHasKeeper` has one exception the code
really makes: a takeover closed after the lock opens no shift and leaves no
custody.

Bounds: `MayLock` leaves the subscription running where the question is not about it;
`MaxShifts` 2 is a shift and its successor; three
people are an owner, a replacement and the manager, or a replacement that fails
and the next one; one unit of cash tells a moved drawer from one that was not,
and `Counts` {0, 1} a wrong count from a right one. `Grants` keeps each person to
the role sets its part in the instance needs. Drawers are symmetric.

Fairness (`FairSpec`): nobody is forced by the code, so the assumption is a
manager who keeps looking at the queue and a replacement who keeps counting and
closing (strong fairness, as suspensions and expiring counts disable the steps
now and then). The property supposes that from some time on somebody both manages
and sells. It is stated for one drawer: with a second, a replacement may open it
after `prepare` and is then refused at the close and cannot be replaced until its
own shift is over (shifts.py:137, 271).

### Proofs

`ShiftCashProofs` proves the eight invariants of the two runs and their three
action properties, for any people, drawers and amounts and any number of shifts.
Transfers and obligations may be infinitely many: the pending ones are finitely
many, so that what a drawer holds back can be added up. The inductive invariant
`CashInv` is those eight properties together, for none holds without the
others (a handover holds still because the drawer's shift cannot take new work,
which is so because its work item fits it), and `RowsFit`: a shift number beyond
`opened` is unused, the current shift of a drawer is of this drawer, a handover or
a usable takeover count is of a counted drawer, a pending claim names the shift
that made it. Every action is one of four kinds, and the invariant is proved
once for each: `QuietStep` (people and work items), `MoneyStep` (cash and claims),
`HandoverStep` (one handover) and `KeeperChange` (the drawer gets another keeper).
`NothingMovesAfterTheCount`, `BlockedWorkIsTakenOver` and
`SuspensionStopsTheShift` follow from what each kind may change.
`BlockedShiftEnds` (fairness) is model-checked only.

## RoomStay

| Variable | Rows |
| --- | --- |
| `room`, `category` | `room` with its category, status, cleanliness and the start of its readiness; `room_category.status` |
| `claim`, `reserved` | `booking_hold` as a promise about a category (or the room of an upgrade), `room_reservation` |
| `stay` | `stay` with planned and actual times, the amendment asked for and the checkout intent |
| `task` | the open `room_cleaning_request` of a room with its task |
| `package`, `started` | `hotel_access.package_mnt`; `started` only bounds a behaviour |

All commands take the room-catalog lock, so each is one action. What is hard is
that each command looks at the promises of the others through a count over one
interval: `RequireCapacity` counts rooms against claims, `ProtectExistingClaims`
does it for a walk-in, `AvailableIfEmpty` for a named room. `Enter` is what the
three kinds of check-in share, `Publish` and `Sweep` are the recomputation of
readiness and the deferred deactivation that the code runs at the end of every
command, and are part of each action that runs them.

`RoomPromisedOnce`: no room is promised to two guests for overlapping times.
`ClaimsStayAssignable`: while the clock stands and no room is withdrawn or moved
to another category, claims that could be given rooms still can after any command.
`RoomsAreLeftInOrder`: nobody cleans, edits or retires an occupied room, no
amendment is pending when a stay closes, a retired category holds no promise.

Bounds: two rooms in two categories, two claims, two stays and a reservation are
the least in which a claim can be squeezed out by a walk-in, an upgrade or a
retirement; a time of two units has before, in and after for intervals of one or
two units. `MaxStarted` 3 lets three commands begin something in one behaviour.

### Proofs

`RoomStayProofs` proves `RoomTypeOK`, `RoomPromisedOnce`, `RoomsAreLeftInOrder` and
`ClaimsStayAssignable` for any rooms, categories, stays and claims (finite `Rooms`
and `Claims`, since they are counted) and any clock, cleaning buffer and length of a
stay. `RoomPromisedOnce` alone is not inductive: that a new stay meets no earlier one
needs that the stays of a room followed one another (`StaysFollow`), with the buffer
between them, and that a closed stay was not moved into the future (`StaysFit`).
`HouseInOrder` is `RoomsAreLeftInOrder` as a statement about the rows, so that
`Publish` and `Sweep`, which rewrite all rooms at the end of each command, each get
one lemma. `ClaimsStayAssignable` is shown by a seating: from a choice of rooms for
the outstanding claims (`CanSeat`) the lemmas build the next one, for a claim that
ends or moves, a new one that passed the capacity check (its room is one that no
rival occupies), and a walk-in that takes one of two rooms.

## GuestMoney

The money of one stay. `acct` is `guest_finance`, `slips` the receipts, `paid`
the charge, `till` the drawer, `intent`, `refund`, `correction`, `lateCase` the
rows of those names, `due` the pending shift obligations. `invoice` and
`payback` are the provider's own. A reconciliation is two transactions with the
provider asked between them: `asking` holds the intents some clerk has read as
pending, `told` and `heard` what was answered; answers are kept, so an action
that applies one may come at any later time and from any number of clerks.

`GuestMoneyAgrees`: the totals of the account are the sums of the receipts, the
drawer is the sum of the cash postings, the charge is not paid twice.
`GuestMoneyIsSettled`: a void invoice cannot be captured, a released refund was
decided by the provider or never sent, a refund that succeeds late is posted in a
case that freezes the account until it is resolved, an obligation binds a shift
exactly while something is open, and a checked-out stay owes nothing.

Not in it: several charges, documents.

### Proofs

`GuestMoneyProofs` proves `GuestMoneyTypeOK`, `GuestMoneyAgrees` and
`GuestMoneyIsSettled` for every deposit, charge and float, and any number of
receipts, intents, refunds and corrections (`GuestMoneyAssumption`: amounts are
positive, the refunds are finitely many, rows of different kinds differ). None of
the three is inductive. What an action takes from the account it also takes from
some receipts, chosen by the order of the receipts or by a refund's reserve, so
the account can only be followed with what holds of each receipt and each refund:

* receipts (`SlipsFit`): what is allocated, reserved, returned and reversed of a
  receipt is within its amount, and what is reserved of it is what the refunds
  reserve on it;
* account, charge and drawer (`AccountFits`, `ChargeFits`, `DrawerFits`,
  `RefundedFits`): each is the sum over all receipts, or over all refunds and the
  parts late cases have covered;
* intents (`HeldFits`, `IntentsFit`, `ReceiptsFit`): what the open intents hold of
  the charge is still free, and an applied intent has exactly one receipt;
* refunds and late cases (`RefundsFit`, `FrozenFits`): what a row says agrees with
  what was sent and with what the provider decided, and the account is frozen
  exactly while a case is open;
* corrections and cancelled intents (`CorrectionsFit`, `CancelledFits`): their
  invoices are void.

An action adds a receipt, changes one, or takes from several; `TotalOfAppended`,
`TotalOfChanged` and `TotalOfTaken` say what that does to every sum at once. That a
correction of a receipt leaves the sums of all the others needs that nothing is
reserved on it (`NothingReserved`), which the code tests before it approves.

## CheckinFunding

The deposit taken before a check-in: `funding` is the row, `fundInvoice` and
`fundReturn` are the provider's (or the terminal's), `awaiting` and `captured`
what a reconciliation has read so far, `arrivals` counts the check-ins a funding
was used for. `FundingMoneyIsKept` says that the money serves one stay, or was
returned, or is still with the desk, whatever reconciliation is under way.

Proved in `HotelProofs`: it is inductive with its types and `ReturnsAreUnderWay`
(the provider is asked to return a deposit only when the row says so already).

## BookingSettlement

What the platform owes a hotel for its finished bookings: `outcome`, `credit`
and `unresolved` are what the other modules decide about a booking; `settlement`,
`adjustment` and `commission` the assessment; `batch`, `attempts`, `result` the
payouts and `bank` the bank's own store. `VoidAborted` is a void that cancelled
payouts at the bank and rolled back.

`PayoutsAreOwed`: a line is paid by one payout at most, a voided batch can no longer
be paid, and commission and net follow the last assessment: the payable is that of
the assessed amount exactly, and commission and net together are an amount with the
same payable, so within one unit of the assessed amount while the commission is at
most a half. Above that they need not be: the code corrects the commission only when
the net changes (booking_settlement.py:78), so at 75% a booking that keeps 10
(commission 8, net 2) and is charged back to 7 keeps a commission of 8 beside a net
of 2, though docs/09-online-booking-system.md:325 reconciles gross, commission,
refund and net. The finding `NextPayoutDeducts` is about what the lines of two
batches together pay for one booking.

Proved in `HotelProofs` for any holds, prices, rates and numbers of batches. The
invariant: each payout of a batch is attempted in order and only the last one may
still be paid (`AttemptsInOrder`), a booking's batches were made one after the other
(`BatchesApart`), the bank cannot pay what was voided (`VoidedCannotPay`), and the
ledger of a hold adds up to its assessment (`AddsUpTo`); `PayableIsNearlyExact` is
the arithmetic of the rounding.

## RestaurantOrder

`order` holds the four states of an order (order, fulfilment, payment, refund)
with its request and hand-off; `late` says that the deadline that currently
applies to it has passed; `mealInvoice` and `mealRefund` are the provider's;
`cursor` and `picked` are the worker's cursor and its present candidates. The
cursor lists the orders by `checked_at`, so the rank of an order in it stands for
the time and 0 for NULL; orders that were never checked may be taken in any order
(the code takes the older first).
`PaymentState` and `RefundState` are the pure decisions of `restaurant_policy`,
used by every action that reconciles. Opening hours, menus and accounts may have
any value where the code reads them.

`MealsReachWhoPaid`: a paid order that was cancelled is refunded or on its way
there, a refund is sent only for an approved request, and no order is still to be
delivered to an empty room.
`MealOverIsFinal`, `PaidMealIsCaptured` (liveness): a capture is found although
its invoice was never committed, the order expired, or another order always
fails and a pass checks only `TickLimit` orders.

Proved in `ServicesProofs`: `MealsReachWhoPaid` and `MealOverIsFinal`. `OrderFits` says
which of the four states of an order go together (nothing unpaid is in the
kitchen, a paid order that is cancelled was granted a refund), `Follows` what any
reconciliation may turn an order into; each action of guest, staff, worker and
provider is shown to be such a step. `MealsAreTyped` adds the worker: the cursor holds
an order at most once, so moving one back takes it from one place (`MovedBack`), and a
pass never holds more than `TickLimit`.

## StaffIdentity

One person, two realms (hotel and restaurant), one-use links and sessions.
`password` counts the passwords the owner chose; the code has no such number and
compares epochs and revisions, so `OldSecretsAreDead` (no session or reset link
of an earlier password is usable) is a statement about those comparisons.
`LinksFitTheirPurpose`: an active invitation fits the present membership, and the
active reset link answers the latest request that was processed.

Proved in `HotelProofs`, both, with the types. The invariant `SecretsAreOrdered` is
why the code's comparison of epochs is enough: no secret has an epoch beyond the
person's, and one that has the person's epoch was made under the person's password,
so a link or session that passes the comparison is not an old one.

## StaffMail

`intent` with its lease, `round` what each worker is doing, `sent` how often the
transport took a letter. The mail goes out between two transactions, so a worker
may die at each step, and a slow one may settle after its lease lapsed.
`MailEndsOnce`: what has ended is not taken up again. `MailIsSettled`: every
letter ends.

Proved in `ServicesProofs`: the types and `MailEndsOnce`, and on the way
`AttemptsCover`: the letters sent and the workers that may still send one
(`MayStillSend`) are together no more than the attempts that were counted, which
is what stops a letter from being sent more often than it may. `MailIsSettled` is
liveness.

## Onboarding

`app`, `phoned`, `proved`, `vouched`, `paidBy` are columns of an application;
`attempt` and `calls` an invoice and the request between its two transactions;
`bankInvoice` the provider's; `answer` what a reconciliation has heard; `job`
with its lease and `runs` the provisioning; `account` and `owner` the identity
the hotel is bound to. `RequestCrashes` and `RunCrashes` end a process between
its transactions.

`PaidHotelsOpen`: a capture is kept as the payment or as a case to reconcile,
a hotel belongs to the owner who was proved, and no run is stranded.
`PaidStaysPaid`. The finding `PendingIsInReach` is an
application that waits for its owner's proof at the last automatic attempt.

Who asks about a payment is the tick (development.py:55): one pass asks about the
invoices in the order of their random ids, then about the renewals, then runs the
jobs (`PassOverJob`), then applies the packages that are due, and the first exception
ends it. The provider raises about an invoice it does not know: the request died
before `CreateInvoice` (or has not got there yet), which is `InvoiceUnknown`. A
request that died there leaves its row UNCERTAIN for good, since `invoice` returns
that row instead of asking again. `OnboardingFairness` is what is left: an invoice is
asked about when no invoice is unknown; an answer that was heard is applied, a run
ends or its process dies, leases and pauses end. The finding `EveryCaptureIsSeen` is
the rest: another application's captured payment behind such a row is never seen by a
tick. (A platform operator may have one payment reconciled by name,
operation_dashboard.py:335; nobody must, so no fairness rests on it.) What the tick
does bring about is `TickServesPaid` (side by side, below).

`OnboardingProofs` proves the types, `PaidHotelsOpen` and `PaidStaysPaid` for any
applications, invoices and workers. What makes them inductive is `CaptureFits` (an
invoice is PAID exactly when its application names it, and of one application
only one is open) and `JobsFit` (there is a job for whatever is paid, it is open
while the hotel is provisioned and done when it is); that two workers run one
job needs only the lease in the row. Assumed: `Nobody` is no e-mail address.

## Renewal

`renewal` rows with their `access`, `term` and `entitlement`, in units of time
where a month and the grace are one unit each. Payment, term and package change
at different times: `PaidMonthsCountOnce` counts the months of the applied
renewals, `WorkCanBeCompleted` is the gate, `PackageFollowsTerm` says that the
package changes with a term and not in one. That a captured renewal is applied and a
paid upgrade takes effect (`RenewalsServed`) is the tick's doing, part of
`TickServesPaid`; a renewal the provider does not know (`ChargeUnknown`) ends a tick too.

Proved in `ServicesProofs`: the types, `SubscriptionIsKept` and `PackageFollowsTerm`.
The paid months are a sum over the applied renewals; the expiry is at least
the latest time at which one of them was paid, which needs that a renewal is
applied only when captured and that one renewal at most is under way
(`RenewalsAgree`).

## OperationSms

One recipient of one reminder. `delivery` is the row, `errand` what each worker is
doing with it, `message` the provider's message of each attempt.
`OneReminderArrives`: never two, none after a cancellation, and what is recorded as
over is over. `SendingEnds` (liveness): a delivery whose worker died does not stay
SENDING. Assumed of the provider: a message that was delivered or given up stays so
(the mock's `set_status` could change it; `MessageArrives` does not).

Proved in `ServicesProofs`: `OneReminderArrives` for any number of sends and
carriers. `AttemptsEndInOrder` says that the provider failed every attempt but the
last before the next one began, `ErrandsFit` that what a worker still has to
record is true of its own attempt: a late answer to an earlier attempt is
about a failed one.

## GuestAccess

The QR of one room (`qr`), its stays (`stayHere`) and the codes with the session
each of them opens (`ticket`). `AccessIsBounded`: what opens belongs to the guests
now in the room and to the present QR, and there are at most `Places` of it. A
code may elapse or a session end at any time.

Proved in `HotelProofs` for any codes, stays and places (`Places` and `MaxFailures` at
least 1): `AccessIsBounded` is inductive with the finiteness of the codes that
count and with the failures of a QR that is not blocked below their limit.

## Side by side

Several of these modules share no record. Instead of one state space for each,
two modules hold them side by side: `focus` says which of them runs, and the
others keep their first state. The state space is the sum of theirs, and each
property is checked on all of them.

* `MCServices`: meals, onboarding, renewal, mail, reminders, with liveness. No
  fair action of a component is enabled in its first state, so a component that
  does not run leaves the fairness of the others as it is.
* `MCHotel`: money, funding, payouts, staff, access, opening (with two
  provisioning workers), safety only. Refunds and workers are interchangeable.

A property of these runs is a conjunction of named parts of one kind
(`WhatIsFinalStays`, `NothingWaitsForever`, `GuestMoneyAgrees`, ...). Parts can
be told apart: the operators marked `Mutant:` in the modules are plausible bugs,
each beside the definition it replaces and each violating one part.

Liveness is written `[]<>P` where the code never takes P back for the rows in
question, so that it says the same as a leads-to. `CHECK_DEADLOCK FALSE` stands
where behaviours really end: rows are not reused, a lifecycle reaches its end
and a bound stops what could begin.

The theorems of a component are about its own specification. `ServicesAreIndependent`
and `HotelStepOfEach` show that a behaviour of the composed module is a behaviour of
each of its components, so that their theorems hold side by side: `FinalStaysFinal`,
`ServicesTypes`, `HotelSecretsEnd` and `HotelTypes` are the properties of the
composed runs that join several of them.

Bounds of `Services.cfg`: two orders, the provider of one of which never answers,
and a pass of one order (`TickLimit`): the least in which one order can starve the
other. Two applications of one e-mail, two invoices and one worker; two renewals
of two packages over three units; one letter and two postmen with two attempts; two
carriers and three sends (the code's number). Bounds of `Hotel.cfg`: a payment
intent, two refunds and a correction of a stay with a deposit and a charge of one
unit and at most three receipts; two fundings, one by terminal; one booking of 4
units at a commission of a half, retained and charged back in full or in part, two
batches of two payouts with two adjustments; two links, two resets, a session, two
revisions and two epochs; three codes for two places, two stays, two QR
revisions, two wrong codes; two applications with two workers. They are the
least in which two of everything that must exclude each other exist: a smaller
one leaves out a case, and a larger one repeats cases.

Fairness (`Services.cfg`): workers are commands that run one bounded batch and exit;
docs/34 and docs/37 leave their schedule to the deployment. The assumption is that
schedule: passes happen again and again, leases and pauses end, time passes. It is
stated for what a pass guarantees, which differs:

* The restaurant tick and the mail and reminder workers guard each row, so a row that
  fails leaves the others alone: `PaidMealIsCaptured`, `MailIsSettled`, `SendingEnds`.
  For the meals the limit of a batch is modelled (`TickLimit`, `cursor`), and strong
  fairness of `TickChecks` is asked only of orders whose provider answers. Mail has a
  command of its own (`mail_worker`), so it does not depend on the tick of
  `development`, which runs it last.
* The tick of `development` is one sequence: applications, renewals, jobs, due
  packages. `TickFairness` asks for a job, a renewal or a package only while
  `TickPasses`, that is while neither an invoice nor a charge is unknown to its
  provider. `TickServesPaid`: as long as that holds, whatever crashed, failed or
  expired before, captures reach their rows, a paid upgrade is in use once its time
  has come, and no application stays PROVISIONING after its worker died. An exception
  that passes (a lease that was lost, RunRefused) ends one tick and not the next.
* Weak fairness per row also supposes that a batch is as large as the rows that are
  due: the tick takes rows in the order of their ids up to a limit
  (development.py:71), so more open rows than that keep the later ones waiting, and
  docs/37 asks for a limit that fits.

Nothing is assumed of guests, staff or of what a provider decides.

## Runs

| Run | Module, cfg | Shows |
| --- | --- | --- |
| `booking_payment` | `MCBookingPayment`, `BookingPayment.cfg` | one booking, three attempts: rows agree, money balances, its promise is kept |
| `booking_liveness` | `BookingLiveness.cfg` | elapsed holds are settled, paid invoices recorded, owed money returned |
| `shift_cash` | `MCShiftCash`, `ShiftCash.cfg` | one drawer: the cash keeps a keeper, nobody works without the role, a submitted balance stands still, everything ends on counted cash |
| `shift_transfer` | `ShiftTransfer.cfg` | two drawers: shifts stay apart, reserved is what is promised, a closed shift owes nothing |
| `shift_takeover_ends` | `ShiftTakeoverEnds.cfg` | a blocked shift is taken over in the end |
| `rooms` | `MCRoomStay`, `RoomStay.cfg` | what is promised about a room is kept |
| `services` | `MCServices`, `Services.cfg` | what was paid is served, granted or refunded; final stays final; workers finish; the tick serves what was paid |
| `hotel` | `MCHotel`, `Hotel.cfg` | books agree, nothing is paid twice, no secret outlives its purpose, paid hotels open |
| `no_invoice_of_expired_booking` | `BookingNoInvoiceOfExpiredBooking.cfg` | finding, violated |
| `pending_is_in_reach` | `MCOnboarding`, `OnboardingPendingIsInReach.cfg` | finding, violated |
| `every_capture_is_seen` | `MCOnboarding`, `OnboardingEveryCaptureIsSeen.cfg` | finding, violated |
| `next_payout_deducts` | `BookingSettlement`, `SettlementNextPayoutDeducts.cfg` | finding, violated |

`rooms` visits about 550 000 states, `hotel` 430 000, `services` 160 000; the
others are smaller.

## Findings

1. `reconcile` (booking_holds.py:237) creates the invoice of the active attempt
   after it expired the booking in the same loop; docs/46 says that unsent
   invoices are not created after expiry.
2. `prove_account` and `verify_owner` (onboarding.py:93, 309) put an application
   back to PAID_PENDING_PROVISIONING and leave the used-up attempts of its job:
   no pass takes it and no platform retry may, though docs/36 and docs/15 promise
   that retry.
3. A batch made before a correction is dispatched when its own expectation holds
   again (booking_settlement.py:166), whatever another batch paid for the booking;
   docs/11 says that a correction is deducted from the next payout.
4. `tick` (development.py:73) asks about every open row in one comprehension, and
   the provider raises about a row whose request died before `create_invoice`
   (mock_providers.py:142). That row stays UNCERTAIN, so every later tick ends
   there: captured payments with a later id, all renewals or those behind it, the
   provisioning, the due packages and the tick's own mail never come.
   docs/37:71-74 and :85 describe the tick as the step from a captured payment to
   the activation mail. It is a development command; the module stands for
   whatever schedules the same calls so.

Seen while modelling, and left without a run: when a reconcile rolls back after
the provider created an invoice, the lapse does not query that invoice
(docs/46-booking-holds.md:32, booking_holds.py:236); a transfer to a drawer that
was never opened is reserved although docs/24-cash-drawer-ledger.md:206 asks for
a shift on both sides (postgres/cash.py:72).

## Proved and checked

PROJECT.json lists the theorems. Each holds for all values of the constants that
satisfy the ASSUMEs of its module, and each has one argument: an inductive invariant
that holds in the first states, one lemma per action (or per kind of action) that
keeps it, and the property as a consequence in a state or of a step. The assumptions
are the ones the code justifies: amounts and limits are natural numbers, limits that
admit somebody are at least 1, what is counted or added up is finite, an absent value
is not one of the values.

Sums (`FiniteSums`): the balances of `ShiftCash`, `GuestMoney`, `Renewal` and the
settlement are sums over rows whose order SumFunctionOnSet leaves open. The
module proves that any row may be taken first, and from that what an added,
removed or changed row does to a sum. Its induction is by a smallest
counterexample among the subsets of a finite set.

Every invariant, every action property and the refinement that a passing run checks
is stated by a theorem. Model-checked only is the liveness, since fairness and ENABLED
are out of the proof system's reach: `ElapsedHoldSettles`, `PaymentIsRecorded` and
`OwedIsReturned` of a booking, `BlockedShiftEnds` of a shift, the four parts of
`NothingWaitsForever` (`PaidMealIsCaptured`, `MailIsSettled`, `SendingEnds`,
`TickServesPaid`).

## Not modelled

* Minibar (seventeen files): a stock of its own, joined to the rest by cleaning
  tasks and charges; next in the plan.
* Public catalogue and bookers: projections and a login by code.
* Citizen register lookups: a port with a rate limit.
* HTTP API and browser pages: they call the commands and keep no state.
* The billing jobs, projections and platform sessions of the dashboard.
* Authentication headers, roles where a command only refuses by role, the
  receipts that make a repeated command return its first answer, audit rows,
  validation of text, formatting, documents, and the bulk limits of batches.
