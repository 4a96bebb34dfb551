--------------------------- MODULE CheckinFunding ---------------------------
(***************************************************************************)
(* Deposits taken by card or by invoice before the guest is checked in:    *)
(* each is proved by the terminal or captured by the provider, and then    *)
(* used by one check-in or returned.  A command is one transaction under   *)
(* the cash book; a reconciliation asks the provider between two.          *)
(***************************************************************************)
EXTENDS Naturals

CONSTANTS
    Fundings,       \* checkin_funding
    ByTerminal,     \* those paid at the terminal
    Requirements    \* deposits the room may require

ASSUME CheckinFundingAssumption == ByTerminal \subseteq Fundings

VARIABLES
    required,       \* the deposit setting of the room
    funding,        \* checkin_funding: state and amount
    fundInvoice,    \* the provider's invoice
    fundReturn,     \* the provider's refund, or the terminal's
    awaiting,       \* fundings a reconciliation has read as pending
    captured,       \* fundings the provider was read to have captured
    arrivals,       \* how many check-ins each has funded
    owed            \* pending shift_obligation rows

fundProvider == <<fundInvoice, fundReturn>>
fundReads == <<awaiting, captured>>
fundingVars == <<required, funding, fundProvider, fundReads, arrivals, owed>>

FundingRows ==
    [state : {"none", "PENDING", "CONFIRMED", "APPLIED", "REFUNDING", "CANCELLED"},
     amount : Requirements \cup {0}]

FundingTypeOK ==
    /\ required \in Requirements
    /\ funding \in [Fundings -> FundingRows]
    /\ fundInvoice \in [Fundings -> {"none", "PENDING", "SUCCEEDED", "VOIDED"}]
    /\ fundReturn \in [Fundings -> {"none", "PENDING", "SUCCEEDED", "FAILED"}]
    /\ captured \subseteq awaiting /\ awaiting \subseteq Fundings
    /\ arrivals \in [Fundings -> Nat]
    /\ owed \subseteq Fundings

FundingInit ==
    /\ required \in Requirements
    /\ funding = [f \in Fundings |-> [state |-> "none", amount |-> 0]]
    /\ fundInvoice = [f \in Fundings |-> "none"]
    /\ fundReturn = [f \in Fundings |-> "none"]
    /\ arrivals = [f \in Fundings |-> 0]
    /\ awaiting = {} /\ captured = {} /\ owed = {}

FundingIs(f, state) == funding[f].state = state
FundingBecomes(f, state) == funding' = [funding EXCEPT ![f].state = state]

\* GuestFinance.configure, between a funding and its check-in.
ConfigureDeposit ==
    /\ \E amount \in Requirements \ {required} : required' = amount
    /\ UNCHANGED <<funding, fundProvider, fundReads, arrivals, owed>>

CreateFunding(f) ==
    /\ FundingIs(f, "none")
    /\ funding' = [funding EXCEPT ![f] =
          [state |-> IF f \in ByTerminal THEN "CONFIRMED" ELSE "PENDING", amount |-> required]]
    /\ owed' = owed \cup {f}
    /\ UNCHANGED <<required, fundProvider, fundReads, arrivals>>

\* reconcile: read, ask (the invoice is created when it is unknown), record.
AskAboutFunding(f) ==
    /\ FundingIs(f, "PENDING") /\ f \notin awaiting
    /\ awaiting' = awaiting \cup {f}
    /\ UNCHANGED <<required, funding, fundProvider, captured, arrivals, owed>>

FundingProviderTells(f) ==
    /\ f \in awaiting
    /\ fundInvoice' = [fundInvoice EXCEPT ![f] = IF @ = "none" THEN "PENDING" ELSE @]
    /\ captured' = IF fundInvoice[f] = "SUCCEEDED" THEN captured \cup {f} ELSE captured
    /\ UNCHANGED <<required, funding, fundReturn, awaiting, arrivals, owed>>

Confirmable(f) == f \in captured /\ FundingIs(f, "PENDING")

ConfirmFunding(f) ==
    /\ Confirmable(f)
    /\ FundingBecomes(f, "CONFIRMED")
    /\ UNCHANGED <<required, fundProvider, fundReads, arrivals, owed>>

FundingCaptured(f) ==
    /\ fundInvoice[f] = "PENDING"
    /\ fundInvoice' = [fundInvoice EXCEPT ![f] = "SUCCEEDED"]
    /\ UNCHANGED <<required, funding, fundReturn, fundReads, arrivals, owed>>

\* Mutant: only an invoice the provider already knows is voided.
FundingVoidedIfKnown(x) == IF x = "none" THEN "none" ELSE "VOIDED"
FundingVoided(x) == "VOIDED"

\* The provider keeps the void when the transaction rolls back.
CancelFunding(f) ==
    /\ FundingIs(f, "PENDING") /\ fundInvoice[f] # "SUCCEEDED"
    /\ fundInvoice' = [fundInvoice EXCEPT ![f] = FundingVoided(@)]
    /\ \/ FundingBecomes(f, "CANCELLED") /\ owed' = owed \ {f}
       \/ fundInvoice' # fundInvoice /\ UNCHANGED <<funding, owed>>
    /\ UNCHANGED <<required, fundReturn, fundReads, arrivals>>

\* load and apply, inside the check-in.
FundsCheckIn(f) == FundingIs(f, "CONFIRMED") /\ funding[f].amount = required

CheckInWith(f) ==
    /\ FundsCheckIn(f)
    /\ arrivals' = [arrivals EXCEPT ![f] = @ + 1]
    /\ FundingBecomes(f, "APPLIED")
    /\ owed' = owed \ {f}
    /\ UNCHANGED <<required, fundProvider, fundReads>>

RequestReturn(f) ==
    /\ FundingIs(f, "CONFIRMED")
    /\ FundingBecomes(f, "REFUNDING")
    /\ UNCHANGED <<required, fundProvider, fundReads, arrivals, owed>>

\* finish_return: the provider is asked to refund, and the funding is done
\* only when it has; a terminal's slip is taken as the proof.
FinishReturn(f) ==
    /\ FundingIs(f, "REFUNDING")
    /\ IF f \in ByTerminal \/ fundReturn[f] = "SUCCEEDED"
       THEN /\ fundReturn' = [fundReturn EXCEPT ![f] = "SUCCEEDED"]
            /\ FundingBecomes(f, "CANCELLED")
            /\ owed' = owed \ {f}
       ELSE /\ fundReturn[f] = "none"
            /\ fundReturn' = [fundReturn EXCEPT ![f] = "PENDING"]
            /\ UNCHANGED <<funding, owed>>
    /\ UNCHANGED <<required, fundInvoice, fundReads, arrivals>>

FundingPaidBack(f) ==
    /\ fundReturn[f] = "PENDING"
    /\ \E state \in {"SUCCEEDED", "FAILED"} : fundReturn' = [fundReturn EXCEPT ![f] = state]
    /\ UNCHANGED <<required, funding, fundInvoice, fundReads, arrivals, owed>>

FundingNext ==
    \/ ConfigureDeposit
    \/ \E f \in Fundings :
          \/ CreateFunding(f) \/ AskAboutFunding(f) \/ FundingProviderTells(f) \/ ConfirmFunding(f)
          \/ FundingCaptured(f) \/ CancelFunding(f) \/ CheckInWith(f) \/ RequestReturn(f) \/ FinishReturn(f)
          \/ FundingPaidBack(f)

FundingSpec == FundingInit /\ [][FundingNext]_fundingVars

-----------------------------------------------------------------------------
\* Money the guest gave before check-in is the deposit of exactly one stay, or
\* was returned, or is still the desk's to use or return; a cancelled funding
\* without a return cannot be paid any more, whatever reconciliation is under way.
FundingMoneyIsKept ==
    \A f \in Fundings :
        /\ arrivals[f] = (IF FundingIs(f, "APPLIED") THEN 1 ELSE 0)
        /\ fundReturn[f] = "SUCCEEDED" => funding[f].state \in {"REFUNDING", "CANCELLED"}
        /\ FundingIs(f, "CANCELLED") => fundReturn[f] = "SUCCEEDED" \/ fundInvoice[f] = "VOIDED"
        /\ f \in owed <=> funding[f].state \in {"PENDING", "CONFIRMED", "REFUNDING"}
=============================================================================
