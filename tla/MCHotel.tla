------------------------------ MODULE MCHotel -------------------------------
(***************************************************************************)
(* The records of a hotel that share nothing but its name: a stay's money, *)
(* the deposit before it, payouts, staff accounts, guest access and the    *)
(* opening.  One state space holds them side by side: focus says which of  *)
(* them runs, and the others keep their first state.                       *)
(***************************************************************************)
EXTENDS GuestMoney, CheckinFunding, BookingSettlement, StaffIdentity, GuestAccess, Onboarding, TLC
CONSTANTS a1, a2, e1
VARIABLE focus

MCEmailOf == (a1 :> e1) @@ (a2 :> e1)

\* Refunds and worker processes are interchangeable.
MCSymmetry == Permutations(Refunds) \cup Permutations(Provisioners)

MCInit ==
    /\ GuestMoneyInit /\ FundingInit /\ SettlementInit /\ StaffInit /\ AccessInit /\ OnboardingInit
    /\ focus \in {"money", "funding", "payouts", "staff", "access", "opening"}
    /\ focus # "funding" => required = CHOOSE n \in Requirements : TRUE

Runs(component) == focus = component /\ UNCHANGED focus

MCNext ==
    \/ /\ Runs("money") /\ GuestMoneyNext
       /\ UNCHANGED <<fundingVars, settlementVars, staffVars, accessVars, onboardingVars>>
    \/ /\ Runs("funding") /\ FundingNext
       /\ UNCHANGED <<guestMoneyVars, settlementVars, staffVars, accessVars, onboardingVars>>
    \/ /\ Runs("payouts") /\ SettlementNext
       /\ UNCHANGED <<guestMoneyVars, fundingVars, staffVars, accessVars, onboardingVars>>
    \/ /\ Runs("staff") /\ StaffNext
       /\ UNCHANGED <<guestMoneyVars, fundingVars, settlementVars, accessVars, onboardingVars>>
    \/ /\ Runs("access") /\ AccessNext
       /\ UNCHANGED <<guestMoneyVars, fundingVars, settlementVars, staffVars, onboardingVars>>
    \/ /\ Runs("opening") /\ OnboardingNext
       /\ UNCHANGED <<guestMoneyVars, fundingVars, settlementVars, staffVars, accessVars>>

MCSpec ==
    MCInit /\ [][MCNext]_<<guestMoneyVars, fundingVars, settlementVars, staffVars, accessVars,
                           onboardingVars, focus>>

-----------------------------------------------------------------------------
\* Type correctness of the records of all six.
HotelTypeOK ==
    /\ GuestMoneyTypeOK /\ FundingTypeOK /\ SettlementTypeOK
    /\ StaffTypeOK /\ AccessTypeOK /\ OnboardingTypeOK

\* Links, sessions and codes open what they were made for and nothing after it
\* ended: a membership, a password, a stay, a QR.
SecretsEndInTime == LinksFitTheirPurpose /\ OldSecretsAreDead /\ AccessIsBounded
=============================================================================
