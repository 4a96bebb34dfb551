------------------------------ MODULE Renewal ------------------------------
(***************************************************************************)
(* The subscription of one hotel: renewals invoiced between two            *)
(* transactions, captures that extend the term, the package that takes     *)
(* effect when the old term ends, and the gate that closes the hotel to    *)
(* new work 48 hours after the term, but never to work already begun.      *)
(*                                                                         *)
(* Time is counted in units; a month and the grace of 48 hours are one     *)
(* unit each, so that captures before, in and after the grace all happen.  *)
(***************************************************************************)
EXTENDS Naturals, FiniteSets, FiniteSetsExt

CONSTANTS
    Renewals,      \* subscription_renewal: how many may be asked for
    Packages,      \* packages by price, 1 the first one bought
    Terms,         \* months one may buy
    LastCapture,   \* bound: the provider captures until then
    Horizon        \* bound: the time stops

ASSUME RenewalAssumption ==
    /\ Renewals \in Nat /\ LastCapture \in Nat /\ Horizon \in Nat \ {0}
    /\ Packages \subseteq Nat /\ 1 \in Packages
    /\ Terms \subseteq Nat \ {0}

RenewalIds == 1 .. Renewals
FirstExpiry == 2  \* the term paid at the onboarding
Grace == 1        \* 48 hours

NoRenewal == [state |-> "NONE", package |-> 0, months |-> 0, previous |-> 0]

VARIABLES
    hour,          \* clock_timestamp()
    renewal,       \* subscription_renewal
    calling,       \* the request that waits for create_invoice: NO, BEFORE or AFTER
    charge,        \* the provider's invoice: state and confirmed_at
    failedAnswer,  \* a reconcile holds the answer that the charge failed
    term,          \* hotel_subscription: expiry and package floor
    access,        \* hotel_access: expiry, package, security_suspended
    entitlement,   \* package_entitlement: effective time, NONE or APPLIED
    work           \* when the stay in the house began, 0 for none

renewalVars ==
    <<hour, renewal, calling, charge, failedAnswer, term, access, entitlement, work>>

RenewalTypeOK ==
    /\ hour \in 0 .. Horizon
    /\ \A r \in RenewalIds :
          renewal[r] = NoRenewal \/ renewal[r] \in
              [state : {"UNCERTAIN", "PENDING", "FAILED", "APPLIED", "RECONCILE"},
               package : Packages, months : Terms, previous : Nat]
    /\ calling \in [RenewalIds -> {"NO", "BEFORE", "AFTER"}]
    /\ charge \in [RenewalIds -> [state : {"NONE", "PENDING", "FAILED", "SUCCEEDED"},
                                  at : 0 .. LastCapture]]
    /\ failedAnswer \in [RenewalIds -> BOOLEAN]
    /\ term \in [expiry : Nat, floor : Packages]
    /\ access \in [expiry : Nat, package : Packages, suspended : BOOLEAN]
    /\ entitlement \in [RenewalIds -> [state : {"NONE", "DUE", "APPLIED"}, at : Nat]]
    /\ work \in 0 .. Horizon
    /\ Cardinality({r \in RenewalIds : renewal[r].state \in {"UNCERTAIN", "PENDING"}}) <= 1

RenewalInit ==
    /\ hour = 1
    /\ renewal = [r \in RenewalIds |-> NoRenewal]
    /\ calling = [r \in RenewalIds |-> "NO"]
    /\ charge = [r \in RenewalIds |-> [state |-> "NONE", at |-> 0]]
    /\ failedAnswer = [r \in RenewalIds |-> FALSE]
    /\ term = [expiry |-> FirstExpiry, floor |-> 1]
    /\ access = [expiry |-> FirstExpiry, package |-> 1, suspended |-> FALSE]
    /\ entitlement = [r \in RenewalIds |-> [state |-> "NONE", at |-> 0]]
    /\ work = 0

-----------------------------------------------------------------------------
(* The gate (subscription.subscription_gate) and the work behind it.       *)

LockedAt == access.expiry + Grace

\* Mutant: work is completed until the lock and not after it.
CompletesInTime(begun) == ~access.suspended /\ hour < LockedAt

\* New work until the lock; what began before the lock may be completed.
MayBegin == ~access.suspended /\ hour < LockedAt
MayComplete(begun) == ~access.suspended /\ (hour < LockedAt \/ begun < LockedAt)

BeginWork ==
    /\ work = 0 /\ MayBegin
    /\ work' = hour
    /\ UNCHANGED <<hour, renewal, calling, charge, failedAnswer, term, access, entitlement>>

CompleteWork ==
    /\ work # 0 /\ MayComplete(work)
    /\ work' = 0
    /\ UNCHANGED <<hour, renewal, calling, charge, failedAnswer, term, access, entitlement>>

\* The platform suspends the hotel and lifts the suspension.
Suspend ==
    /\ access' = [access EXCEPT !.suspended = ~@]
    /\ UNCHANGED <<hour, renewal, calling, charge, failedAnswer, term, entitlement, work>>

TimePasses ==
    /\ hour < Horizon
    /\ hour' = hour + 1
    /\ UNCHANGED <<renewal, calling, charge, failedAnswer, term, access, entitlement, work>>

-----------------------------------------------------------------------------
(* Asking and paying.                                                      *)

\* Mutant: only a stored invoice holds back another.
RenewalOpenIfStored == \E r \in RenewalIds : renewal[r].state = "PENDING"

RenewalOpen == \E r \in RenewalIds : renewal[r].state \in {"UNCERTAIN", "PENDING"}

\* Renewing passes every gate, also of a suspended or locked hotel.
AskRenewal(p, m) ==
    /\ p >= term.floor /\ ~RenewalOpen
    /\ \E r \in RenewalIds :
          /\ \A q \in RenewalIds : renewal[q] = NoRenewal <=> q >= r
          /\ renewal' = [renewal EXCEPT ![r] =
                [state |-> "UNCERTAIN", package |-> p, months |-> m, previous |-> term.expiry]]
          /\ calling' = [calling EXCEPT ![r] = "BEFORE"]
    /\ UNCHANGED <<hour, charge, failedAnswer, term, access, entitlement, work>>

CreateCharge(r) ==
    /\ calling[r] = "BEFORE"
    /\ calling' = [calling EXCEPT ![r] = "AFTER"]
    /\ charge' = [charge EXCEPT ![r].state = IF @ = "NONE" THEN "PENDING" ELSE @]
    /\ UNCHANGED <<hour, renewal, failedAnswer, term, access, entitlement, work>>

StoreCharge(r) ==
    /\ calling[r] = "AFTER"
    /\ calling' = [calling EXCEPT ![r] = "NO"]
    /\ renewal' = [renewal EXCEPT ![r].state = IF @ = "UNCERTAIN" THEN "PENDING" ELSE @]
    /\ UNCHANGED <<hour, charge, failedAnswer, term, access, entitlement, work>>

CallCrashes(r) ==
    /\ calling[r] # "NO"
    /\ calling' = [calling EXCEPT ![r] = "NO"]
    /\ UNCHANGED <<hour, renewal, charge, failedAnswer, term, access, entitlement, work>>

\* A charge that failed or expired may still be captured.
ChargeChanges(r) ==
    /\ charge[r].state \in {"PENDING", "FAILED"}
    /\ \/ charge[r].state = "PENDING" /\ charge' = [charge EXCEPT ![r].state = "FAILED"]
       \/ hour <= LastCapture /\ charge' = [charge EXCEPT ![r] = [state |-> "SUCCEEDED", at |-> hour]]
    /\ UNCHANGED <<hour, renewal, calling, failedAnswer, term, access, entitlement, work>>

-----------------------------------------------------------------------------
(* Reconciling: the answer is applied in a transaction of its own.         *)

Settled(r) == renewal[r].state \in {"APPLIED", "RECONCILE"}

HearFailure(r) ==
    /\ renewal[r] # NoRenewal /\ ~Settled(r) /\ charge[r].state = "FAILED" /\ ~failedAnswer[r]
    /\ failedAnswer' = [failedAnswer EXCEPT ![r] = TRUE]
    /\ UNCHANGED <<hour, renewal, calling, charge, term, access, entitlement, work>>

ApplyFailure(r) ==
    /\ failedAnswer[r]
    /\ failedAnswer' = [failedAnswer EXCEPT ![r] = FALSE]
    /\ renewal' = [renewal EXCEPT ![r].state = IF Settled(r) THEN @ ELSE "FAILED"]
    /\ UNCHANGED <<hour, calling, charge, term, access, entitlement, work>>

\* Mutant: the term always starts at the capture.
StartsAtCapture(previous, captured) == captured

\* A capture before the end of the grace continues the term.
StartOf(previous, captured) == IF captured < previous + Grace THEN previous ELSE captured

\* Mutant: the package takes effect with the capture.
EffectiveAtOnce(captured) == captured

EffectiveAt(captured) == Max({term.expiry, captured})

\* The renewal was priced for the term and floor it saw; otherwise its capture
\* is kept for reconciliation and changes nothing.
StillFits(r) == term.expiry = renewal[r].previous /\ renewal[r].package >= term.floor

ApplyCapturedCharge(r) ==
    LET captured == charge[r].at
        expiry == StartOf(term.expiry, captured) + renewal[r].months
        now == EffectiveAt(captured) <= hour
    IN
    /\ renewal[r] # NoRenewal /\ ~Settled(r) /\ charge[r].state = "SUCCEEDED"
    /\ IF StillFits(r)
       THEN /\ renewal' = [renewal EXCEPT ![r].state = "APPLIED"]
            /\ term' = [expiry |-> expiry, floor |-> renewal[r].package]
            /\ access' = [access EXCEPT !.expiry = expiry,
                             !.package = IF now THEN Max({@, renewal[r].package}) ELSE @]
            /\ entitlement' = [entitlement EXCEPT ![r] =
                  [state |-> IF now THEN "APPLIED" ELSE "DUE", at |-> EffectiveAt(captured)]]
       ELSE /\ renewal' = [renewal EXCEPT ![r].state = "RECONCILE"]
            /\ UNCHANGED <<term, access, entitlement>>
    /\ UNCHANGED <<hour, calling, charge, failedAnswer, work>>

\* Mutant: a package is due only at the very time it takes effect.
DueNow(r) == entitlement[r].state = "DUE" /\ entitlement[r].at = hour

IsDue(r) == entitlement[r].state = "DUE" /\ entitlement[r].at <= hour

\* The worker applies every package that is due, the highest of them last.
ApplyDue ==
    LET due == {r \in RenewalIds : IsDue(r)} IN
    /\ due # {}
    /\ access' = [access EXCEPT !.package = Max({@} \cup {renewal[r].package : r \in due})]
    /\ entitlement' = [r \in RenewalIds |->
          IF r \in due THEN [entitlement[r] EXCEPT !.state = "APPLIED"] ELSE entitlement[r]]
    /\ UNCHANGED <<hour, renewal, calling, charge, failedAnswer, term, work>>

-----------------------------------------------------------------------------
RenewalStep(r) ==
    CreateCharge(r) \/ StoreCharge(r) \/ CallCrashes(r) \/ ChargeChanges(r)
    \/ HearFailure(r) \/ ApplyFailure(r) \/ ApplyCapturedCharge(r)

RenewalNext ==
    \/ \E p \in Packages, m \in Terms : AskRenewal(p, m)
    \/ \E r \in RenewalIds : RenewalStep(r)
    \/ BeginWork \/ CompleteWork \/ Suspend \/ TimePasses \/ ApplyDue

AppliedRenewals == {r \in RenewalIds : renewal[r].state = "APPLIED"}

\* The provider has no invoice for a renewal the tick will ask about: that row ends
\* the tick, as in Onboarding.
ChargeUnknown ==
    \E r \in RenewalIds :
        renewal[r].state \in {"UNCERTAIN", "PENDING", "FAILED"} /\ charge[r].state = "NONE"

\* Time passes (it matters once a renewal is applied).  The tick reaches the renewals
\* after the applications: its fairness is stated where both are (MCServices).
RenewalFairness == WF_renewalVars(AppliedRenewals # {} /\ TimePasses)

RenewalSpec == RenewalInit /\ [][RenewalNext]_renewalVars /\ RenewalFairness

-----------------------------------------------------------------------------
(* Properties.                                                             *)

MonthsOf == [r \in RenewalIds |-> renewal[r].months]
MonthsApplied == SumFunctionOnSet(MonthsOf, AppliedRenewals)

\* Every month that was paid and applied is granted, and granted once: the term
\* is the first one and these months, longer only by the time the hotel was not
\* paid for, however invoices, captures and late answers interleave; and the
\* term the gate reads is the term of the subscription.
PaidMonthsCountOnce ==
    /\ term.expiry >= FirstExpiry + MonthsApplied
    /\ term.expiry <= Max({FirstExpiry} \cup {charge[r].at : r \in AppliedRenewals}) + MonthsApplied
    /\ access.expiry = term.expiry

\* A better package is used when the term ends that was paid for the cheaper one,
\* not before, and no step lowers a package or the floor of the next renewal.
PackageFollowsTerm ==
    [][/\ access'.package >= access.package /\ term'.floor >= term.floor
       /\ access'.package # access.package =>
             \E r \in RenewalIds :
                 /\ renewal'[r].state = "APPLIED" /\ renewal[r].package = access'.package
                 /\ renewal[r].previous <= hour]_renewalVars

\* A stay that began while the hotel was open can be completed at any time after,
\* before or after the lock and whatever renewals follow, unless the platform
\* suspends the hotel.
WorkCanBeCompleted == work # 0 /\ ~access.suspended => MayComplete(work)

\* What the hotel paid for it has: its months, and the completion of its work.
SubscriptionIsKept == PaidMonthsCountOnce /\ WorkCanBeCompleted

\* Every capture is applied or kept apart, and the package that was paid is in use.
RenewalsServed ==
    /\ \A r \in RenewalIds : charge[r].state = "SUCCEEDED" => Settled(r)
    /\ \A r \in AppliedRenewals : access.package >= renewal[r].package

=============================================================================
