------------------------- MODULE BookingSettlement -------------------------
(***************************************************************************)
(* What the platform owes a hotel for its finished bookings, and how the   *)
(* bank is told to pay it: the assessment of a booking, its corrections,   *)
(* the batches of matured payables and the attempts to pay a batch.        *)
(*                                                                         *)
(* Every action of the platform is one PostgreSQL transaction under the    *)
(* room-catalog lock of the hotel, so it is one step.  The bank is another *)
(* database: a payout that it was told of, or that it cancelled, stays so  *)
(* when the transaction rolls back.                                        *)
(***************************************************************************)
EXTENDS Integers, FiniteSets, FiniteSetsExt, Functions, Sequences

CONSTANTS
    Holds,             \* bookings of one hotel
    Price,             \* the captured amount of a booking
    Retentions,        \* what the hotel may keep of it when it ends
    Chargebacks,       \* what the payer's bank may take back
    Rate,              \* commission of the contract in basis points
    Accounts,          \* bank accounts of the hotel
    NoAccount,         \* no account
    MaxRevisions,      \* bound: beneficiary revisions
    MaxAdjustments,    \* bound: adjustments of a booking
    MaxBatches,        \* bound: batches
    MaxPayouts         \* bound: attempts to pay a batch

ASSUME SettlementAssumption ==
    /\ Price \in Nat
    /\ Retentions \subseteq 0 .. Price
    /\ Chargebacks \subseteq 0 .. Price
    /\ Rate \in 0 .. 10000
    /\ NoAccount \notin Accounts
    /\ {MaxRevisions, MaxAdjustments, MaxBatches, MaxPayouts} \subseteq Nat

Batches == 1 .. MaxBatches
Payouts == 1 .. MaxPayouts
Sources == Holds \X (0 .. MaxAdjustments)  \* <<h, 0>> is the BASE of h

VARIABLES
    outcome,       \* retained amount of a terminal booking, -1 before
    unresolved,    \* a refund or a late capture is still to be reconciled
    credit,        \* mock_bank_credit of the applied payment
    settlement,    \* booking_settlement: net_mnt, matured; -1 when none
    adjustment,    \* booking_settlement_adjustment: the amounts, in order
    commission,    \* sum of COMMISSION and COMMISSION_ADJUSTMENT events
    beneficiary,   \* booking_beneficiary: the account of each revision
    active,        \* the account the bank has verified
    batch,         \* booking_payout_batch, its lines and its void
    attempts,      \* number of booking_payout_attempt rows of a batch
    result,        \* booking_payout_result of each attempt
    bank,          \* mock_bank_payout of each attempt
    assessed       \* history: retained less chargeback of the last assessment

bookings == <<outcome, unresolved, credit>>
payable == <<settlement, adjustment, commission, assessed>>
payees == <<beneficiary, active>>
payments == <<attempts, result, bank>>
settlementVars == <<bookings, payable, payees, batch, payments>>

BatchRows ==
    [lines : SUBSET Sources, expected : [Holds -> 0 .. Price],
     account : Accounts \cup {NoAccount}, void : BOOLEAN]

SettlementTypeOK ==
    /\ outcome \in [Holds -> Retentions \cup {-1}]
    /\ unresolved \in [Holds -> BOOLEAN]
    /\ credit \in [Holds -> [recorded : BOOLEAN, disputed : BOOLEAN, chargeback : 0 .. Price]]
    /\ settlement \in [Holds -> [net : -1 .. Price, matured : BOOLEAN]]
    /\ adjustment \in [Holds -> Seq((-Price .. Price) \ {0})]
    /\ \A h \in Holds : Len(adjustment[h]) <= MaxAdjustments
    /\ commission \in [Holds -> 0 .. Price]
    /\ assessed \in [Holds -> 0 .. Price]
    /\ beneficiary \in Seq(Accounts) /\ Len(beneficiary) <= MaxRevisions
    /\ active \in Accounts \cup {NoAccount}
    /\ batch \in [Batches -> BatchRows]
    /\ attempts \in [Batches -> 0 .. MaxPayouts]
    /\ result \in [Batches -> [Payouts -> {"none", "FAILED", "SUCCEEDED"}]]
    /\ bank \in [Batches -> [Payouts -> {"none", "PENDING", "FAILED", "SUCCEEDED"}]]

SettlementInit ==
    /\ outcome = [h \in Holds |-> -1]
    /\ unresolved = [h \in Holds |-> FALSE]
    /\ credit = [h \in Holds |-> [recorded |-> FALSE, disputed |-> FALSE, chargeback |-> 0]]
    /\ settlement = [h \in Holds |-> [net |-> -1, matured |-> FALSE]]
    /\ adjustment = [h \in Holds |-> <<>>]
    /\ commission = [h \in Holds |-> 0]
    /\ assessed = [h \in Holds |-> 0]
    /\ beneficiary = <<>>
    /\ active = NoAccount
    /\ batch = [b \in Batches |-> [lines |-> {}, expected |-> [h \in Holds |-> 0],
                                   account |-> NoAccount, void |-> FALSE]]
    /\ attempts = [b \in Batches |-> 0]
    /\ result = [b \in Batches |-> [k \in Payouts |-> "none"]]
    /\ bank = [b \in Batches |-> [k \in Payouts |-> "none"]]

-----------------------------------------------------------------------------
(* The bookings, the payers' bank and the hotel's bank.                    *)

\* A booking is completed, cancelled or not shown up.
BookingEnds(h) ==
    /\ outcome[h] = -1
    /\ \E r \in Retentions : outcome' = [outcome EXCEPT ![h] = r]
    /\ UNCHANGED <<unresolved, credit, payable, payees, batch, payments>>

\* A refund is owed, corrected or confirmed; an issued invoice is paid late.
ChangeUnresolved(h) ==
    /\ outcome[h] # -1
    /\ unresolved' = [unresolved EXCEPT ![h] = ~@]
    /\ UNCHANGED <<outcome, credit, payable, payees, batch, payments>>

RecordCredit(h) ==
    /\ ~credit[h].recorded
    /\ credit' = [credit EXCEPT ![h].recorded = TRUE]
    /\ UNCHANGED <<outcome, unresolved, payable, payees, batch, payments>>

Dispute(h) ==
    /\ credit[h].recorded
    /\ \E opened \in BOOLEAN, amount \in Chargebacks :
          credit' = [credit EXCEPT ![h].disputed = opened, ![h].chargeback = amount]
    /\ UNCHANGED <<outcome, unresolved, payable, payees, batch, payments>>

BankVerifiesAccount ==
    /\ active' \in Accounts \cup {NoAccount}
    /\ active' # active
    /\ UNCHANGED <<bookings, payable, beneficiary, batch, payments>>

\* PENDING and UNKNOWN are not told apart; FAILED and SUCCEEDED are final.
BankDecides(b, k) ==
    /\ bank[b][k] = "PENDING"
    /\ \E state \in {"FAILED", "SUCCEEDED"} : bank' = [bank EXCEPT ![b][k] = state]
    /\ UNCHANGED <<bookings, payable, payees, batch, attempts, result>>

-----------------------------------------------------------------------------
(* The assessment of a booking.                                            *)

CommissionOf(kept) == (kept * Rate + 5000) \div 10000

Terminal(h) == outcome[h] # -1

\* Mutant: a chargeback beyond the retained amount does not hold the payable.
AssessableOverdrawn(h) ==
    /\ Terminal(h) /\ ~unresolved[h]
    /\ credit[h].recorded /\ ~credit[h].disputed

\* ELIGIBLE or NO_PAYABLE; otherwise the booking is NOT_ELIGIBLE or HELD.
Assessable(h) ==
    /\ Terminal(h) /\ ~unresolved[h]
    /\ credit[h].recorded /\ ~credit[h].disputed
    /\ credit[h].chargeback <= outcome[h]

KeptOf(h) == outcome[h] - credit[h].chargeback
PayableOf(kept) == kept - CommissionOf(kept)
NetOf(h) == PayableOf(KeptOf(h))

Effective(h) == settlement[h].net + SumFunction(adjustment[h])

\* assess: the first assessment is frozen, later ones add the difference.
FirstAssessment(h) ==
    /\ settlement[h].net = -1
    /\ settlement' = [settlement EXCEPT ![h].net = NetOf(h)]
    /\ commission' = [commission EXCEPT ![h] = CommissionOf(KeptOf(h))]
    /\ UNCHANGED adjustment

\* Mutant: the commission is not corrected with the payable.
CorrectPayable(h) ==
    /\ settlement[h].net # -1 /\ NetOf(h) # Effective(h)
    /\ Len(adjustment[h]) < MaxAdjustments
    /\ adjustment' = [adjustment EXCEPT ![h] = Append(@, NetOf(h) - Effective(h))]
    /\ UNCHANGED <<commission, settlement>>

Correction(h) ==
    /\ settlement[h].net # -1 /\ NetOf(h) # Effective(h)
    /\ Len(adjustment[h]) < MaxAdjustments
    /\ adjustment' = [adjustment EXCEPT ![h] = Append(@, NetOf(h) - Effective(h))]
    /\ commission' = [commission EXCEPT ![h] = CommissionOf(KeptOf(h))]
    /\ UNCHANGED settlement

NothingNew(h) ==
    /\ settlement[h].net # -1 /\ NetOf(h) = Effective(h)
    /\ UNCHANGED <<settlement, adjustment, commission>>

Assess(h) ==
    /\ Assessable(h)
    /\ FirstAssessment(h) \/ Correction(h) \/ NothingNew(h)
    /\ assessed' = [assessed EXCEPT ![h] = KeptOf(h)]
    /\ UNCHANGED <<bookings, payees, batch, payments>>

\* payout_batch_at: noon of the day after the first eligibility.
Mature(h) ==
    /\ settlement[h].net # -1 /\ ~settlement[h].matured
    /\ settlement' = [settlement EXCEPT ![h].matured = TRUE]
    /\ UNCHANGED <<bookings, adjustment, commission, assessed, payees, batch, payments>>

-----------------------------------------------------------------------------
(* The batches.                                                            *)

RegisterBeneficiary(a) ==
    /\ active = a
    /\ Len(beneficiary) < MaxRevisions
    /\ beneficiary' = Append(beneficiary, a)
    /\ UNCHANGED <<bookings, payable, active, batch, payments>>

Made(b) == batch[b].lines # {}
AmountOf(source) ==
    IF source[2] = 0 THEN settlement[source[1]].net ELSE adjustment[source[1]][source[2]]
Total(lines) == MapThenSumSet(AmountOf, lines)

\* The source is in no batch but voided ones.
Free(source) == ~\E b \in Batches : source \in batch[b].lines /\ ~batch[b].void

\* The rows that batch selects.
Due ==
    {source \in Sources :
        LET h == source[1] IN
        /\ settlement[h].matured
        /\ source[2] = 0 => settlement[h].net > 0
        /\ source[2] # 0 => source[2] <= Len(adjustment[h])
        /\ Free(source)}

\* A held booking stays behind unless it owes the platform; a booking whose
\* payable is out of date stops the batch.
Batchable == {source \in Due : Assessable(source[1])}

MakeBatch(b) ==
    /\ ~Made(b) /\ \A c \in Batches : c < b => Made(c)
    /\ beneficiary # <<>> /\ active = beneficiary[Len(beneficiary)]
    /\ \A source \in Due \ Batchable : AmountOf(source) >= 0
    /\ \A source \in Batchable : NetOf(source[1]) = Effective(source[1])
    /\ Total(Batchable) > 0
    /\ batch' = [batch EXCEPT ![b] =
                    [lines |-> Batchable,
                     expected |-> [h \in Holds |-> IF \E s \in Batchable : s[1] = h
                                                   THEN NetOf(h) ELSE 0],
                     account |-> active, void |-> FALSE]]
    /\ UNCHANGED <<bookings, payable, payees, payments>>

HoldsOf(b) == {source[1] : source \in batch[b].lines}

-----------------------------------------------------------------------------
(* Paying a batch: an attempt is committed before the bank is told of it.  *)

\* Mutant: a lost answer is taken for a failure.
LastUnanswered(b) ==
    attempts[b] > 0 => bank[b][attempts[b]] # "SUCCEEDED"

\* The latest attempt has failed, or there is none.
LastFailed(b) == attempts[b] > 0 => result[b][attempts[b]] = "FAILED"

Payout(b) ==
    /\ Made(b) /\ ~batch[b].void
    /\ \A k \in Payouts : result[b][k] # "SUCCEEDED"
    /\ LastFailed(b)
    /\ attempts[b] < MaxPayouts
    /\ attempts' = [attempts EXCEPT ![b] = @ + 1]
    /\ UNCHANGED <<bookings, payable, payees, batch, result, bank>>

\* reconcile_payout of an attempt the bank does not know: the transaction
\* writes no row, so rolling it back changes nothing.
Dispatch(b, k) ==
    /\ k <= attempts[b] /\ result[b][k] = "none" /\ ~batch[b].void
    /\ bank[b][k] = "none"
    /\ \A h \in HoldsOf(b) : Assessable(h) /\ NetOf(h) = batch[b].expected[h]
    /\ active = batch[b].account
    /\ bank' = [bank EXCEPT ![b][k] = "PENDING"]
    /\ UNCHANGED <<bookings, payable, payees, batch, attempts, result>>

PaidSources == UNION {batch[b].lines : b \in {c \in Batches :
                                          \E k \in Payouts : result[c][k] = "SUCCEEDED"}}

\* reconcile_payout of an attempt the bank has decided.  The triggers refuse a
\* second success of a batch or of a line.
RecordResult(b, k) ==
    /\ k <= attempts[b] /\ result[b][k] = "none" /\ ~batch[b].void
    /\ bank[b][k] \in {"FAILED", "SUCCEEDED"}
    /\ bank[b][k] = "SUCCEEDED" => batch[b].lines \cap PaidSources = {}
    /\ result' = [result EXCEPT ![b][k] = bank[b][k]]
    /\ UNCHANGED <<bookings, payable, payees, batch, attempts, bank>>

\* Mutant: the bank is not asked to cancel.
NothingCancelled(b, ks) == bank

\* cancel_payout: an attempt the bank does not know is left alone.
CancelledAtBank(b, ks) ==
    [bank EXCEPT ![b] = [k \in Payouts |-> IF k \in ks /\ bank[b][k] = "PENDING"
                                           THEN "FAILED" ELSE bank[b][k]]]

VoidBatch(b) ==
    /\ Made(b) /\ ~batch[b].void
    /\ \A k \in Payouts : bank[b][k] # "SUCCEEDED" /\ result[b][k] # "SUCCEEDED"
    /\ bank' = CancelledAtBank(b, Payouts)
    /\ batch' = [batch EXCEPT ![b].void = TRUE]
    /\ UNCHANGED <<bookings, payable, payees, attempts, result>>

\* void_batch that rolls back, or meets a success among the attempts.
VoidAborted(b) ==
    /\ Made(b) /\ ~batch[b].void
    /\ \E ks \in SUBSET {k \in Payouts : bank[b][k] # "SUCCEEDED"} :
          bank' = CancelledAtBank(b, ks)
    /\ UNCHANGED <<bookings, payable, payees, batch, attempts, result>>

-----------------------------------------------------------------------------
SettlementNext ==
    \/ \E h \in Holds : \/ BookingEnds(h) \/ ChangeUnresolved(h) \/ RecordCredit(h)
                        \/ Dispute(h) \/ Assess(h) \/ Mature(h)
    \/ BankVerifiesAccount
    \/ \E a \in Accounts : RegisterBeneficiary(a)
    \/ \E b \in Batches : MakeBatch(b) \/ Payout(b) \/ VoidBatch(b) \/ VoidAborted(b)
    \/ \E b \in Batches, k \in Payouts : \/ Dispatch(b, k) \/ RecordResult(b, k)
                                         \/ BankDecides(b, k)

SettlementSpec == SettlementInit /\ [][SettlementNext]_settlementVars

-----------------------------------------------------------------------------
(* Safety.                                                                 *)

\* No payable, and no correction of one, is paid by two transfers of the bank:
\* not by two attempts of a batch, nor by a voided batch and the one that took
\* its lines over.
SourcePaidOnce ==
    \A b, c \in Batches, k, l \in Payouts :
        /\ bank[b][k] = "SUCCEEDED" /\ bank[c][l] = "SUCCEEDED"
        /\ batch[b].lines \cap batch[c].lines # {}
        => b = c /\ k = l

\* docs/47: a batch is voided only when none of its attempts can succeed any
\* more, although the bank and PostgreSQL commit separately.
VoidedCannotPay ==
    \A b \in Batches : batch[b].void => \A k \in Payouts : bank[b][k] \notin {"PENDING", "SUCCEEDED"}

\* The payable is the one of what was kept; with the commission it adds up to an
\* amount of that payable, which at a commission of at most half is at most one
\* unit away from what was kept.
AddsUpTo(earned, owed, kept) ==
    /\ owed = PayableOf(kept)
    /\ earned + owed \in 0 .. Price /\ PayableOf(earned + owed) = owed
    /\ Rate <= 5000 => earned + owed - kept \in {-1, 0, 1}

\* Whatever chargebacks came and went, commission and payable of a booking add up
\* to what the hotel retained at the last assessment, as far as rounding lets them.
LedgerFollowsAssessment ==
    \A h \in Holds : settlement[h].net # -1 => AddsUpTo(commission[h], Effective(h), assessed[h])

\* The hotel is paid what it is owed, once.
PayoutsAreOwed == SourcePaidOnce /\ VoidedCannotPay /\ LedgerFollowsAssessment

Dispatched(h) ==
    Total({source \in Sources : source[1] = h /\
              \E b \in Batches : source \in batch[b].lines
                                 /\ \E k \in Payouts : bank[b][k] \in {"PENDING", "SUCCEEDED"}})

\* docs/11: a correction after a payout is deducted from the next payout.  A
\* batch made before the correction is dispatched once its own expectation
\* holds again, whatever was paid beside it.
NextPayoutDeducts ==
    [][\A h \in Holds : Dispatched(h)' > Dispatched(h) /\ Assessable(h)
          => Dispatched(h)' <= NetOf(h)]_settlementVars
=============================================================================
