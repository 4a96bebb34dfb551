----------------------------- MODULE ShiftCash -----------------------------
(***************************************************************************)
(* The cash drawers of one hotel and the people who answer for them: the   *)
(* reception shift that works a drawer, the guest money and the transfers  *)
(* that move its balance, the ordinary handover between two people, the    *)
(* custody of somebody who may receive cash but not sell, and the takeover *)
(* of a shift whose owner lost the right to work it.                       *)
(*                                                                         *)
(* Every action is one PostgreSQL transaction.  All but the claims lock    *)
(* the cash_book row of the hotel, and a membership change locks the       *)
(* accounts that every other transaction locks first, so a transaction is  *)
(* one step.  What lies between two steps is somebody else's transaction:  *)
(* a suspension between the submission and the acceptance of a handover, a *)
(* refund between a count and the close that uses it.                      *)
(*                                                                         *)
(* Amounts are small numbers.  The revision of the book, with which a      *)
(* count is compared, is replaced by what the comparison says: every       *)
(* transaction that raises it forgets the counts it makes stale.           *)
(***************************************************************************)
EXTENDS Integers, FiniteSets, Functions

CONSTANTS
    Staff,        \* accounts with a membership in the hotel
    Grants,       \* Grants[s]: the role sets account s may hold; {} = suspended
    Drawers,      \* cash_drawer
    Transfers,    \* identities of cash transfers
    Obligations,  \* identities of shift obligations
    MaxShifts,    \* bound: reception shifts ever opened
    MaxCash,      \* bound: the cash a drawer may hold
    Amounts,      \* amounts of movements
    Counts,       \* what somebody who counts a drawer may find
    MayLock,      \* bound: the subscription may run out
    None          \* no account, no drawer

ASSUME NoneAssumption == None \notin Staff \cup Drawers
ASSUME GrantAssumption == Grants \in [Staff -> SUBSET SUBSET {"RECEPTION", "MANAGER"}]
ASSUME CashAssumption ==
    /\ MaxShifts \in Nat
    /\ MaxCash \in Nat
    /\ Amounts \subseteq Nat \ {0}
    /\ Counts \subseteq 0 .. MaxCash
    /\ MayLock \in BOOLEAN

Shifts == 1 .. MaxShifts
NoShift == 0               \* shift_id 'unopened:...' of a drawer never opened
Roles == {"RECEPTION", "MANAGER"}
Cash == 0 .. MaxCash
Account == Staff \cup {None}
ShiftId == Shifts \cup {NoShift}
Progress == {"NONE", "PENDING", "DONE"}

VARIABLES
    member,      \* the roles an active membership grants now
    locked,      \* the subscription is past its grace
    opened,      \* number of shifts ever opened
    drawer,      \* cash_drawer
    shift,       \* reception_shift and its staff_open_work
    takeover,    \* staff_work_exception, shift_takeover, its usable count
    handover,    \* the SUBMITTED shift_handover of a shift and its counts
    custody,     \* the HELD cash_custody of a drawer
    transfer,    \* cash_transfer
    obligation,  \* shift_obligation and the guest refund behind it
    counted      \* history: the drawer was counted, and no cash moved since

people == <<member, locked>>
keepers == <<opened, shift, custody>>
claims == <<transfer, obligation>>
vars == <<people, keepers, takeover, handover, drawer, claims, counted>>

Drawer == [posted : Cash, reserved : Cash, shift : ShiftId]
Shift == [owner : Account, drawer : Drawers \cup {None},
          state : {"NONE", "OPEN", "SUBMITTED", "CLOSED"},
          work : {"NONE", "OPEN", "BLOCKED", "CLOSED"},
          late : BOOLEAN]  \* closed since the subscription locked
Count == [by : Account, expected : Cash, actual : Cash, usable : BOOLEAN]
Takeover == [claimant : Account, replacement : Account, done : BOOLEAN, count : Count]
Handover == [submitted : BOOLEAN, custody : BOOLEAN, sender : Account, receiver : Account,
             expected : Cash, sent : Cash, counts : 0 .. 2, last : Cash, usable : BOOLEAN]
Custody == [owner : Account, shift : ShiftId]
Transfer == [state : Progress, source : Drawers \cup {None}, dest : Drawers \cup {None},
             sourceShift : ShiftId, destShift : ShiftId,
             amount : Amounts \cup {0}, initiator : Account, cancel : BOOLEAN]
Obligation == [state : Progress, drawer : Drawers \cup {None}, shift : ShiftId,
               amount : Amounts \cup {0}]

NoCount == [by |-> None, expected |-> 0, actual |-> 0, usable |-> FALSE]
NoHandover == [submitted |-> FALSE, custody |-> FALSE, sender |-> None, receiver |-> None,
               expected |-> 0, sent |-> 0, counts |-> 0, last |-> 0, usable |-> FALSE]
NoCustody == [owner |-> None, shift |-> NoShift]

TypeOK ==
    /\ member \in [Staff -> SUBSET Roles]
    /\ locked \in BOOLEAN
    /\ opened \in 0 .. MaxShifts
    /\ drawer \in [Drawers -> Drawer]
    /\ shift \in [Shifts -> Shift]
    /\ takeover \in [Shifts -> Takeover]
    /\ handover \in [Shifts -> Handover]
    /\ custody \in [Drawers -> Custody]
    /\ transfer \in [Transfers -> Transfer]
    /\ obligation \in [Obligations -> Obligation]
    /\ counted \in [Drawers -> BOOLEAN]

Init ==
    /\ member \in {m \in [Staff -> SUBSET Roles] : \A s \in Staff : m[s] \in Grants[s]}
    /\ locked = FALSE
    /\ opened = 0
    /\ drawer = [d \in Drawers |-> [posted |-> 0, reserved |-> 0, shift |-> NoShift]]
    /\ shift = [s \in Shifts |-> [owner |-> None, drawer |-> None, state |-> "NONE",
                                 work |-> "NONE", late |-> FALSE]]
    /\ takeover = [s \in Shifts |-> [claimant |-> None, replacement |-> None,
                                    done |-> FALSE, count |-> NoCount]]
    /\ handover = [s \in Shifts |-> NoHandover]
    /\ custody = [d \in Drawers |-> NoCustody]
    /\ transfer = [t \in Transfers |->
          [state |-> "NONE", source |-> None, dest |-> None, sourceShift |-> NoShift,
           destShift |-> NoShift, amount |-> 0, initiator |-> None, cancel |-> FALSE]]
    /\ obligation = [o \in Obligations |->
          [state |-> "NONE", drawer |-> None, shift |-> NoShift, amount |-> 0]]
    /\ counted = [d \in Drawers |-> FALSE]

-----------------------------------------------------------------------------
(* What the rows say.                                                      *)

Receptionist(a) == "RECEPTION" \in member[a]
Manager(a) == "MANAGER" \in member[a]

Live(s) == shift[s].state \in {"OPEN", "SUBMITTED"}

\* Mutant: a shift under handover is forgotten.
HasOpenShift(a) == \E s \in Shifts : shift[s].state = "OPEN" /\ shift[s].owner = a

\* The account already answers for a drawer (one_open_reception_owner).
HasLiveShift(a) == \E s \in Shifts : Live(s) /\ shift[s].owner = a

\* Mutant: a shift under handover still takes cash.
WorkingSubmitted(a, s) ==
    /\ shift[s].owner = a
    /\ Live(s)
    /\ shift[s].work = "OPEN"
    /\ Receptionist(a)
    /\ drawer[shift[s].drawer].shift = s

\* StayService._shift: a may sell and take cash in s.
Working(a, s) ==
    /\ shift[s].owner = a
    /\ shift[s].state = "OPEN"
    /\ shift[s].work = "OPEN"
    /\ Receptionist(a)
    /\ drawer[shift[s].drawer].shift = s

\* subscription_gate(SHIFT_CLOSE, shift_root): a locked hotel finishes the
\* shifts that were open at the lock, and nothing older.
Eligible(s) == ~locked \/ Live(s) \/ shift[s].late

\* Mutant: only the paying side waits for a transfer.
PendingAtSource(s, d) ==
    \/ \E o \in Obligations : obligation[o].state = "PENDING" /\ obligation[o].shift = s
    \/ \E t \in Transfers : transfer[t].state = "PENDING" /\ transfer[t].source = d

\* ShiftService._pending: what must end before the drawer changes hands.
Pending(s, d) ==
    \/ \E o \in Obligations : obligation[o].state = "PENDING" /\ obligation[o].shift = s
    \/ \E t \in Transfers : /\ transfer[t].state = "PENDING"
                             /\ d \in {transfer[t].source, transfer[t].dest}

\* Mutant: a transfer or an expense does not look at the work item.
BlockedByState(d) ==
    drawer[d].shift # NoShift /\ shift[drawer[d].shift].state # "OPEN"

\* Mutant: a transfer or an expense does not look at the state of the shift.
BlockedByWork(d) ==
    drawer[d].shift # NoShift /\ shift[drawer[d].shift].work # "OPEN"

\* PostgresCash.execute: no new use of a drawer whose shift is not worked.  A
\* drawer never opened has no work item, so it is not blocked.
Blocked(d) ==
    /\ drawer[d].shift # NoShift
    /\ shift[drawer[d].shift].work # "OPEN" \/ shift[drawer[d].shift].state # "OPEN"

\* Mutant: reserved cash is spent.
AvailableWithReserved(d) == drawer[d].posted

Available(d) == drawer[d].posted - drawer[d].reserved

TransfersFrom(d) == {t \in Transfers : transfer[t].state = "PENDING" /\ transfer[t].source = d}
ObligationsOf(d) ==
    {o \in Obligations : obligation[o].state = "PENDING" /\ obligation[o].drawer = d}

AmountIn(rows) == [i \in DOMAIN rows |-> rows[i].amount]

ReservedOf(d) ==
    SumFunctionOnSet(AmountIn(transfer), TransfersFrom(d))
  + SumFunctionOnSet(AmountIn(obligation), ObligationsOf(d))

\* CashBook.validate, which every cash command repeats before and after.
BookValid ==
    /\ \A t \in Transfers : transfer[t].state = "PENDING" =>
          /\ drawer[transfer[t].source].shift = transfer[t].sourceShift
          /\ drawer[transfer[t].dest].shift = transfer[t].destShift
    /\ \A o \in Obligations :
          obligation[o].state = "PENDING" /\ obligation[o].amount > 0 =>
              drawer[obligation[o].drawer].shift = obligation[o].shift
    /\ \A d \in Drawers : drawer[d].reserved = ReservedOf(d) /\ Available(d) >= 0

-----------------------------------------------------------------------------
(* Members and the subscription.                                           *)

ChangeMember(a, granted) ==
    /\ granted \in Grants[a] \ {member[a]}
    /\ member' = [member EXCEPT ![a] = granted]
    /\ shift' = [s \in Shifts |->
          IF shift[s].owner = a /\ shift[s].work = "OPEN" /\ "RECEPTION" \notin granted
          THEN [shift[s] EXCEPT !.work = "BLOCKED"] ELSE shift[s]]
    /\ takeover' = [s \in Shifts |->
          IF takeover[s].claimant = a /\ "MANAGER" \notin granted
          THEN [takeover[s] EXCEPT !.claimant = None] ELSE takeover[s]]
    /\ UNCHANGED <<locked, opened, custody, handover, drawer, claims, counted>>

\* A manager plus whose role the package no longer has: no membership changes.  (An
\* account that is disabled altogether is left out: nothing in the code disables one.)
ManagerRevoked(a) ==
    /\ Manager(a)
    /\ member' = [member EXCEPT ![a] = @ \ {"MANAGER"}]
    /\ UNCHANGED <<locked, keepers, takeover, handover, drawer, claims, counted>>

Lock ==
    /\ ~locked /\ MayLock
    /\ locked' = TRUE
    /\ UNCHANGED <<member, keepers, takeover, handover, drawer, claims, counted>>

\* A renewal moves the next lock behind every shift closed so far.
Renew ==
    /\ locked
    /\ locked' = FALSE
    /\ shift' = [s \in Shifts |-> [shift[s] EXCEPT !.late = FALSE]]
    /\ UNCHANGED <<member, opened, custody, takeover, handover, drawer, claims, counted>>

-----------------------------------------------------------------------------
(* The first opening of a drawer.                                          *)

\* OpeningService._unused; cash only enters a drawer through a shift or a
\* transfer, so the two stand for its cash events as well.
Unused(d) ==
    /\ drawer[d].shift = NoShift
    /\ drawer[d].posted = 0 /\ drawer[d].reserved = 0
    /\ \A t \in Transfers : transfer[t].state # "NONE" =>
           d \notin {transfer[t].source, transfer[t].dest}

NewShift(a, d) ==
    [owner |-> a, drawer |-> d, state |-> "OPEN", work |-> "OPEN", late |-> FALSE]

\* Raising the revision of the book makes every takeover count stale.
StaleCounts == [s \in Shifts |-> [takeover[s] EXCEPT !.count = NoCount]]

Open(a, d, actual) ==
    /\ Receptionist(a) /\ ~locked
    /\ Unused(d)
    /\ ~HasLiveShift(a)
    /\ opened < MaxShifts
    /\ opened' = opened + 1
    /\ shift' = [shift EXCEPT ![opened + 1] = NewShift(a, d)]
    /\ drawer' = [drawer EXCEPT ![d] = [posted |-> actual, reserved |-> 0, shift |-> opened + 1]]
    /\ takeover' = StaleCounts
    /\ UNCHANGED <<people, custody, handover, claims, counted>>

-----------------------------------------------------------------------------
(* Guest money in the drawer of a working shift.                           *)

\* Mutant: only the bound of the model is checked.
CoveredAnyway(d, posted, reserved) == drawer[d].posted + posted <= MaxCash

\* INSUFFICIENT_CASH, and the bound of the model.
Covered(d, posted, reserved) ==
    /\ drawer[d].posted + posted \in Cash
    /\ drawer[d].reserved + reserved <= drawer[d].posted + posted

\* GuestFinance.cash.
GuestCash(s, d, posted, reserved) ==
    /\ drawer[d].shift = s
    /\ Covered(d, posted, reserved)
    /\ drawer' = [drawer EXCEPT ![d].posted = @ + posted, ![d].reserved = @ + reserved]
    /\ counted' = [counted EXCEPT ![d] = FALSE]
    /\ takeover' = StaleCounts

Receive(a, s, amount) ==
    /\ Working(a, s)
    /\ GuestCash(s, shift[s].drawer, amount, 0)
    /\ UNCHANGED <<people, keepers, handover, claims>>

ReserveRefund(a, s, o, amount) ==
    /\ Working(a, s)
    /\ obligation[o].state = "NONE"
    /\ obligation' = [obligation EXCEPT ![o] =
          [state |-> "PENDING", drawer |-> shift[s].drawer, shift |-> s, amount |-> amount]]
    /\ GuestCash(s, shift[s].drawer, 0, amount)
    /\ UNCHANGED <<people, keepers, handover, transfer>>

CompleteRefund(a, s, o) ==
    LET due == obligation[o] IN
    /\ due.state = "PENDING" /\ due.amount > 0
    /\ Working(a, s) /\ due.shift = s /\ due.drawer = shift[s].drawer
    /\ obligation' = [obligation EXCEPT ![o].state = "DONE"]
    /\ GuestCash(s, due.drawer, -due.amount, -due.amount)
    /\ UNCHANGED <<people, keepers, handover, transfer>>

\* A manager attests that the money did not leave; no working shift is needed.
ReleaseRefund(a, o) ==
    LET due == obligation[o] IN
    /\ due.state = "PENDING" /\ due.amount > 0
    /\ Manager(a)
    /\ obligation' = [obligation EXCEPT ![o].state = "DONE"]
    /\ GuestCash(due.shift, due.drawer, 0, -due.amount)
    /\ UNCHANGED <<people, keepers, handover, transfer>>

\* A payment intent, a correction or a refund by another channel: an
\* obligation of the shift that reserves no cash.
Oblige(a, s, o) ==
    /\ Working(a, s)
    /\ obligation[o].state = "NONE"
    /\ obligation' = [obligation EXCEPT ![o] =
          [state |-> "PENDING", drawer |-> shift[s].drawer, shift |-> s, amount |-> 0]]
    /\ UNCHANGED <<people, keepers, takeover, handover, drawer, transfer, counted>>

\* The provider's answer or a rejection ends it without cash.
Settle(o) ==
    /\ obligation[o].state = "PENDING" /\ obligation[o].amount = 0
    /\ obligation' = [obligation EXCEPT ![o].state = "DONE"]
    /\ UNCHANGED <<people, keepers, takeover, handover, drawer, transfer, counted>>

\* An approved correction posts the difference in the requester's shift, which
\* must still be the one it was requested in.
ApproveCorrection(a, s, o, delta) ==
    LET due == obligation[o] IN
    /\ due.state = "PENDING" /\ due.amount = 0
    /\ Manager(a)
    /\ Working(shift[s].owner, s) /\ due.shift = s /\ due.drawer = shift[s].drawer
    /\ obligation' = [obligation EXCEPT ![o].state = "DONE"]
    /\ GuestCash(s, due.drawer, delta, 0)
    /\ UNCHANGED <<people, keepers, handover, transfer>>

-----------------------------------------------------------------------------
(* Cash commands: expenses and transfers between drawers.                  *)

Spend(d, amount) ==
    /\ BookValid
    /\ ~Blocked(d)
    /\ amount <= Available(d)
    /\ drawer' = [drawer EXCEPT ![d].posted = @ - amount]
    /\ counted' = [counted EXCEPT ![d] = FALSE]
    /\ takeover' = StaleCounts
    /\ UNCHANGED <<people, keepers, handover, claims>>

ReserveTransfer(a, t, source, dest, amount) ==
    /\ Manager(a) /\ ~locked
    /\ BookValid
    /\ source # dest /\ ~Blocked(source) /\ ~Blocked(dest)
    /\ transfer[t].state = "NONE"
    /\ amount <= Available(source)
    /\ transfer' = [transfer EXCEPT ![t] =
          [state |-> "PENDING", source |-> source, dest |-> dest,
           sourceShift |-> drawer[source].shift, destShift |-> drawer[dest].shift,
           amount |-> amount, initiator |-> a, cancel |-> FALSE]]
    /\ drawer' = [drawer EXCEPT ![source].reserved = @ + amount]
    /\ counted' = [counted EXCEPT ![source] = FALSE]
    /\ takeover' = StaleCounts
    /\ UNCHANGED <<people, keepers, handover, obligation>>

\* cash.execute(ConfirmTransfer) by somebody who acts for shift s.
Confirmed(t, s) ==
    LET move == transfer[t] IN
    /\ BookValid
    /\ move.state = "PENDING" /\ drawer[move.dest].shift = s
    /\ drawer[move.dest].posted + move.amount <= MaxCash
    /\ transfer' = [transfer EXCEPT ![t].state = "DONE"]
    /\ drawer' = [drawer EXCEPT ![move.source].posted = @ - move.amount,
                                ![move.source].reserved = @ - move.amount,
                                ![move.dest].posted = @ + move.amount]
    /\ counted' = [counted EXCEPT ![move.source] = FALSE, ![move.dest] = FALSE]
    /\ takeover' = StaleCounts
    /\ UNCHANGED <<people, keepers, handover, obligation>>

\* cash.execute(CancelTransfer) by somebody who acts for shift s.
Returned(t, s) ==
    LET move == transfer[t] IN
    /\ BookValid
    /\ move.state = "PENDING" /\ drawer[move.source].shift = s
    /\ transfer' = [transfer EXCEPT ![t].state = "DONE"]
    /\ drawer' = [drawer EXCEPT ![move.source].reserved = @ - move.amount]
    /\ counted' = [counted EXCEPT ![move.source] = FALSE]
    /\ takeover' = StaleCounts
    /\ UNCHANGED <<people, keepers, handover, obligation>>

\* Unlike Reserve and Spend, neither asks whether the work is open.
ConfirmTransfer(s, t) == Confirmed(t, s)
CancelTransfer(s, t) == Returned(t, s)

\* The manager who began the transfer calls it off.
RequestCancel(a, t) ==
    /\ Manager(a)
    /\ transfer[t].state = "PENDING" /\ transfer[t].initiator = a /\ ~transfer[t].cancel
    /\ transfer' = [transfer EXCEPT ![t].cancel = TRUE]
    /\ UNCHANGED <<people, keepers, takeover, handover, drawer, obligation, counted>>

-----------------------------------------------------------------------------
(* Who keeps the cash next.                                                *)

\* Mutant: a receiver who may not sell gets a shift.
ContinuesUnlocked(a) == ~locked

\* The next keeper works a shift of its own; otherwise it only holds the cash.
Continues(a) == Receptionist(a) /\ ~locked

\* Shift s ends, or its custody does, and a keeps drawer d with the counted cash.
ShiftAfter(s, d, a, closing) ==
    LET ended == IF closing
                 THEN [shift EXCEPT ![s].state = "CLOSED", ![s].work = "CLOSED", ![s].late = locked]
                 ELSE shift
    IN  IF Continues(a) THEN [ended EXCEPT ![opened + 1] = NewShift(a, d)] ELSE ended

Pass(s, d, a, actual, closing) ==
    /\ Continues(a) => opened < MaxShifts
    /\ opened' = IF Continues(a) THEN opened + 1 ELSE opened
    /\ shift' = ShiftAfter(s, d, a, closing)
    /\ drawer' = [drawer EXCEPT ![d].posted = actual,
                                ![d].shift = IF Continues(a) THEN opened + 1 ELSE s]
    /\ counted' = [counted EXCEPT ![d] = FALSE]

\* Mutant: a receiver who does not sell leaves no trace.
CustodyIfOpen(s, d, a) == NoCustody

\* HandoverService.finish: a custody when no shift continues.
CustodyAfter(s, d, a) == IF Continues(a) THEN NoCustody ELSE [owner |-> a, shift |-> s]

-----------------------------------------------------------------------------
(* The ordinary handover.                                                  *)

MayReceive(a) == Receptionist(a) \/ Manager(a)

Submit(s, d, a, r, actual, ofCustody) ==
    /\ a # r
    /\ MayReceive(r) /\ Eligible(s)
    /\ ~Pending(s, d)
    /\ drawer[d].reserved = 0 /\ drawer[d].shift = s
    /\ ~handover[s].submitted
    /\ handover' = [handover EXCEPT ![s] =
          [submitted |-> TRUE, custody |-> ofCustody, sender |-> a, receiver |-> r,
           expected |-> drawer[d].posted, sent |-> actual, counts |-> 0, last |-> 0,
           usable |-> FALSE]]
    /\ counted' = [counted EXCEPT ![d] = TRUE]
    /\ UNCHANGED <<people, opened, custody, takeover, drawer, claims>>

SubmitShift(a, s, r, actual) ==
    /\ Working(a, s)
    /\ Submit(s, shift[s].drawer, a, r, actual, FALSE)
    /\ shift' = [shift EXCEPT ![s].state = "SUBMITTED"]

SubmitCustody(a, d, r, actual) ==
    /\ MayReceive(a) /\ custody[d].owner = a
    /\ Submit(custody[d].shift, d, a, r, actual, TRUE)
    /\ UNCHANGED shift

\* The receiver counts without seeing what the sender counted.  How often is
\* only asked up to two.
CountHandover(r, s, actual) ==
    /\ handover[s].submitted /\ handover[s].receiver = r
    /\ MayReceive(r) /\ Eligible(s)
    /\ handover' = [handover EXCEPT ![s].counts = IF @ = 2 THEN 2 ELSE @ + 1,
                                    ![s].last = actual, ![s].usable = TRUE]
    /\ UNCHANGED <<people, keepers, takeover, drawer, claims, counted>>

\* Five minutes pass.
HandoverCountExpires(s) ==
    /\ handover[s].usable
    /\ handover' = [handover EXCEPT ![s].usable = FALSE]
    /\ UNCHANGED <<people, keepers, takeover, drawer, claims, counted>>

\* Mutant: the suspension of the sender is not looked at.
SenderAnyState(s) == TRUE

\* A sender who lost the shift turns the handover into takeover work.
SenderWorks(s) ==
    handover[s].custody \/ (Receptionist(handover[s].sender) /\ shift[s].work = "OPEN")

Accept(r, s) ==
    LET given == handover[s]
        d == shift[s].drawer
    IN
    /\ given.submitted /\ given.receiver = r
    /\ MayReceive(r) /\ Eligible(s)
    /\ SenderWorks(s)
    /\ given.usable
    /\ given.last # given.sent => given.counts = 2
    /\ ~Pending(s, d)
    /\ drawer[d] = [posted |-> given.expected, reserved |-> 0, shift |-> s]
    /\ ~\E other \in Shifts \ {s} : Live(other) /\ shift[other].owner = r
    /\ IF given.custody THEN custody[d].shift = s ELSE shift[s].state = "SUBMITTED"
    /\ Pass(s, d, r, given.last, ~given.custody)
    /\ custody' = [custody EXCEPT ![d] = CustodyAfter(s, d, r)]
    /\ handover' = [handover EXCEPT ![s] = NoHandover]
    /\ takeover' = StaleCounts
    /\ UNCHANGED <<people, claims>>

Return(r, s) ==
    /\ handover[s].submitted /\ handover[s].receiver = r
    /\ MayReceive(r) /\ Eligible(s)
    /\ handover' = [handover EXCEPT ![s] = NoHandover]
    /\ shift' = [shift EXCEPT ![s].state =
          IF ~handover[s].custody /\ @ = "SUBMITTED" THEN "OPEN" ELSE @]
    /\ counted' = [counted EXCEPT ![shift[s].drawer] = FALSE]
    /\ UNCHANGED <<people, opened, custody, takeover, drawer, claims>>

\* Where the hotel's policy lets one person work alone: submit and accept in one
\* transaction, by somebody who both sells and manages.
SelfClose(a, s, actual) ==
    LET d == shift[s].drawer IN
    /\ Working(a, s) /\ Manager(a)
    /\ ~Pending(s, d)
    /\ drawer[d].reserved = 0
    /\ ~handover[s].submitted
    /\ ~\E other \in Shifts \ {s} : Live(other) /\ shift[other].owner = a
    /\ Pass(s, d, a, actual, TRUE)
    /\ custody' = [custody EXCEPT ![d] = CustodyAfter(s, d, a)]
    /\ takeover' = StaleCounts
    /\ UNCHANGED <<people, handover, claims>>

-----------------------------------------------------------------------------
(* The takeover of a shift whose owner may not work it.                    *)

Claim(a, s) ==
    /\ Manager(a)
    /\ shift[s].work = "BLOCKED" /\ takeover[s].claimant = None
    /\ takeover' = [takeover EXCEPT ![s].claimant = a]
    /\ UNCHANGED <<people, keepers, handover, drawer, claims, counted>>

RecoverClaim(a, s) ==
    /\ Manager(a)
    /\ shift[s].work = "BLOCKED" /\ takeover[s].claimant # None
    /\ ~Manager(takeover[s].claimant)
    /\ takeover' = [takeover EXCEPT ![s].claimant = a]
    /\ UNCHANGED <<people, keepers, handover, drawer, claims, counted>>

\* The claimant names a replacement; a handover under way is returned.
Prepare(a, s, r) ==
    /\ Manager(a) /\ takeover[s].claimant = a
    /\ Receptionist(r)
    /\ shift[s].work = "BLOCKED" /\ Live(s)
    /\ r # shift[s].owner
    /\ ~HasLiveShift(r)
    /\ takeover[s].replacement = None
    /\ takeover' = [takeover EXCEPT ![s].replacement = r]
    /\ handover' = [handover EXCEPT ![s] = IF shift[s].state = "SUBMITTED" THEN NoHandover ELSE @]
    /\ shift' = [shift EXCEPT ![s].state = "OPEN"]
    /\ counted' = [counted EXCEPT ![shift[s].drawer] = FALSE]
    /\ UNCHANGED <<people, opened, custody, drawer, claims>>

\* Mutant: the new replacement is taken as it comes.
FreeReceptionist(r, s) == Receptionist(r)

\* A shift under takeover is live, so its owner is not free either.
MayReplace(r, s) == Receptionist(r) /\ ~HasLiveShift(r)

\* The count of the last replacement stays, and stays its own.
RecoverReplacement(a, s, r) ==
    /\ Manager(a) /\ takeover[s].claimant = a
    /\ takeover[s].replacement # None /\ ~takeover[s].done
    /\ ~Receptionist(takeover[s].replacement)
    /\ MayReplace(r, s)
    /\ takeover' = [takeover EXCEPT ![s].replacement = r]
    /\ UNCHANGED <<people, keepers, handover, drawer, claims, counted>>

\* ShiftService._replacement and the guard that follows each use of it.
TakesOver(r, s) ==
    /\ Receptionist(r)
    /\ takeover[s].replacement = r /\ ~takeover[s].done
    /\ shift[s].state = "OPEN"

TakeoverTransfer(r, s, t) ==
    /\ TakesOver(r, s)
    /\ \/ transfer[t].destShift = s /\ Confirmed(t, s)
       \/ transfer[t].sourceShift = s /\ transfer[t].cancel /\ Returned(t, s)

TakeoverCount(r, s, actual) ==
    LET d == shift[s].drawer IN
    /\ TakesOver(r, s)
    /\ ~Pending(s, d)
    /\ drawer[d].reserved = 0 /\ drawer[d].shift = s
    /\ takeover' = [takeover EXCEPT ![s].count =
          [by |-> r, expected |-> drawer[d].posted, actual |-> actual, usable |-> TRUE]]
    /\ counted' = [counted EXCEPT ![d] = TRUE]
    /\ UNCHANGED <<people, keepers, handover, drawer, claims>>

\* Five minutes pass.
TakeoverCountExpires(s) ==
    /\ takeover[s].count.usable
    /\ takeover' = [takeover EXCEPT ![s].count = NoCount]
    /\ UNCHANGED <<people, keepers, handover, drawer, claims, counted>>

TakeoverClose(r, s) ==
    LET d == shift[s].drawer
        count == takeover[s].count
    IN
    /\ TakesOver(r, s)
    /\ ~Pending(s, d)
    /\ count.usable /\ count.by = r
    /\ drawer[d] = [posted |-> count.expected, reserved |-> 0, shift |-> s]
    /\ ~HasLiveShift(r)
    /\ Pass(s, d, r, count.actual, TRUE)
    /\ takeover' = [StaleCounts EXCEPT ![s].done = TRUE]
    /\ UNCHANGED <<people, custody, handover, claims>>

-----------------------------------------------------------------------------
Membership ==
    \/ \E a \in Staff : ManagerRevoked(a) \/ \E g \in Grants[a] : ChangeMember(a, g)
    \/ Lock
    \/ Renew

Opening == \E a \in Staff, d \in Drawers, c \in Counts : Open(a, d, c)

GuestMoney ==
    \/ \E a \in Staff, s \in Shifts, amount \in Amounts : Receive(a, s, amount)
    \/ \E a \in Staff, o \in Obligations :
          \/ ReleaseRefund(a, o)
          \/ \E s \in Shifts :
                \/ CompleteRefund(a, s, o)
                \/ Oblige(a, s, o)
                \/ \E amount \in Amounts :
                      \/ ReserveRefund(a, s, o, amount)
                      \/ ApproveCorrection(a, s, o, amount)
                      \/ ApproveCorrection(a, s, o, -amount)
    \/ \E o \in Obligations : Settle(o)

CashCommand ==
    \/ \E d \in Drawers, amount \in Amounts : Spend(d, amount)
    \/ \E a \in Staff, t \in Transfers :
          \/ RequestCancel(a, t)
          \/ \E x, y \in Drawers, amount \in Amounts : ReserveTransfer(a, t, x, y, amount)
    \/ \E s \in Shifts, t \in Transfers : ConfirmTransfer(s, t) \/ CancelTransfer(s, t)

HandingOver ==
    \/ \E a, r \in Staff, c \in Counts :
          \/ \E s \in Shifts : SubmitShift(a, s, r, c)
          \/ \E d \in Drawers : SubmitCustody(a, d, r, c)
    \/ \E r \in Staff, s \in Shifts :
          \/ Accept(r, s)
          \/ Return(r, s)
          \/ \E c \in Counts : CountHandover(r, s, c) \/ SelfClose(r, s, c)
    \/ \E s \in Shifts : HandoverCountExpires(s)

TakingOver ==
    \/ \E a \in Staff, s \in Shifts :
          \/ Claim(a, s)
          \/ RecoverClaim(a, s)
          \/ TakeoverClose(a, s)
          \/ \E r \in Staff : Prepare(a, s, r) \/ RecoverReplacement(a, s, r)
          \/ \E c \in Counts : TakeoverCount(a, s, c)
          \/ \E t \in Transfers : TakeoverTransfer(a, s, t)
    \/ \E s \in Shifts : TakeoverCountExpires(s)

Next ==
    \/ Membership
    \/ Opening
    \/ GuestMoney
    \/ CashCommand
    \/ HandingOver
    \/ TakingOver

Spec == Init /\ [][Next]_vars

\* Managers who keep looking at the queue of blocked work, and a replacement
\* who keeps counting until a count and its close fit into five minutes.
Fairness ==
    \A s \in Shifts :
        /\ SF_vars(\E a \in Staff : Claim(a, s))
        /\ SF_vars(\E a, r \in Staff : Prepare(a, s, r))
        /\ SF_vars(\E a, r \in Staff : RecoverReplacement(a, s, r))
        /\ SF_vars(\E r \in Staff, c \in Counts : TakeoverCount(r, s, c))
        /\ SF_vars(\E r \in Staff : TakeoverClose(r, s))

FairSpec == Spec /\ Fairness

-----------------------------------------------------------------------------
(* Safety.                                                                 *)

\* A shift that was not closed is the current shift of its drawer, and nobody
\* answers for two: the unique indexes one_open_reception_drawer and
\* one_open_reception_owner never refuse a row.
LiveShiftsApart ==
    /\ \A s \in Shifts : Live(s) => drawer[shift[s].drawer].shift = s
    /\ \A s, other \in Shifts : Live(s) /\ Live(other) /\ shift[s].owner = shift[other].owner
           => s = other

\* A shift whose work is open belongs to somebody who may work it: whatever a
\* member loses between two steps, nobody without the role keeps selling.
WorkersMayWork ==
    \A s \in Shifts : shift[s].work = "OPEN" => Live(s) /\ Receptionist(shift[s].owner)

\* What a drawer holds back is exactly what is promised out of it, and a
\* promise stays bound to the shift it was made in: no cash command is refused
\* because the book contradicts itself (CASH_INVARIANT_VIOLATION,
\* SHIFT_BINDING_CHANGED).
PromisesAreCovered == BookValid

\* Nothing stays promised in a shift that is over (its takeover, its handover
\* and the close wait for the pending transfers and obligations).
ClosedOwesNothing ==
    \A s \in Shifts : shift[s].state = "CLOSED" =>
        /\ \A o \in Obligations : obligation[o].state = "PENDING" => obligation[o].shift # s
        /\ \A t \in Transfers : transfer[t].state = "PENDING" =>
               s \notin {transfer[t].sourceShift, transfer[t].destShift}

\* While a handover waits for its receiver, the drawer keeps the balance that
\* was submitted: no sale, refund, expense or transfer moves it, and a shift is
\* SUBMITTED exactly as long as its handover is.
HandoverFreezesDrawer ==
    \A s \in Shifts :
        /\ shift[s].state = "SUBMITTED" <=> handover[s].submitted /\ ~handover[s].custody
        /\ handover[s].submitted =>
              /\ drawer[shift[s].drawer] =
                    [posted |-> handover[s].expected, reserved |-> 0, shift |-> s]
              /\ ~Pending(s, shift[s].drawer)
              /\ handover[s].custody => custody[shift[s].drawer].shift = s

\* Cash that lies in a drawer whose last shift is over is in somebody's custody,
\* unless the takeover that closed it found the subscription locked.
CashHasKeeper ==
    \A d \in Drawers : drawer[d].shift # NoShift =>
        LET s == drawer[d].shift IN
        \/ Live(s) /\ custody[d] = NoCustody
        \/ shift[s].state = "CLOSED" /\ custody[d].owner # None /\ custody[d].shift = s
        \/ shift[s].state = "CLOSED" /\ custody[d] = NoCustody /\ takeover[s].done

\* A takeover under way is of blocked work, and never in the hands of the owner
\* of the shift, however often members and replacements change.
TakenOverByAnother ==
    \A s \in Shifts : takeover[s].replacement # None /\ ~takeover[s].done =>
        /\ shift[s].state = "OPEN" /\ shift[s].work = "BLOCKED"
        /\ takeover[s].replacement # shift[s].owner

\* A shift that its owner did not close alone, and a custody, end on cash that
\* has not moved since the count (or the submission) the end relies on.
EndsOnCountedCash ==
    [][/\ \A s \in Shifts :
             Live(s) /\ shift'[s].state = "CLOSED" /\ (handover[s].submitted \/ takeover'[s].done)
                 => counted[shift[s].drawer]
       /\ \A d \in Drawers :
             custody[d] # NoCustody /\ custody'[d] # custody[d] => counted[d]]_vars

\* After the suspension of its owner a shift takes no new money and no new
\* promise; what was pending can only end.
SuspendedTakesNothingNew ==
    [][\A s \in Shifts : shift[s].work = "BLOCKED" /\ shift'[s].work = "BLOCKED" =>
          /\ \A o \in Obligations :
                obligation'[o].state = "PENDING" /\ obligation'[o].shift = s
                    => obligation[o].state = "PENDING"
          /\ \A t \in Transfers :
                transfer'[t].state = "PENDING" /\ s \in {transfer'[t].sourceShift, transfer'[t].destShift}
                    => transfer[t].state = "PENDING"
          /\ drawer'[shift[s].drawer].posted # drawer[shift[s].drawer].posted =>
                \E t \in Transfers : transfer[t].state = "PENDING" /\ transfer'[t].state = "DONE"]_vars

\* The suspension of a sender turns a handover under way into takeover work: a
\* shift with blocked work ends through its takeover and in no other way.
BlockedEndsByTakeover ==
    [][\A s \in Shifts : shift[s].work = "BLOCKED" /\ shift'[s].work # "BLOCKED"
           => takeover'[s].done /\ takeover[s].replacement # shift[s].owner]_vars

\* As long as somebody both manages and sells, a blocked shift is taken over in
\* the end, however often its replacement is suspended and its count goes stale.
\* With one drawer: where there is a second, a replacement may open it and is
\* then refused until its own shift is over.
BlockedShiftEnds ==
    [](\E a \in Staff : Manager(a) /\ Receptionist(a)) =>
        \A s \in Shifts :
            shift[s].work = "BLOCKED" /\ opened < MaxShifts ~> shift[s].state = "CLOSED"

=============================================================================
