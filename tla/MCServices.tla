----------------------------- MODULE MCServices -----------------------------
(***************************************************************************)
(* The services beside a stay: meals, the opening and the renewal of a     *)
(* subscription, staff mail and reminders.  They share no record, so one   *)
(* state space holds them side by side: focus says which of them runs, and *)
(* the others keep their first state.  No fair action is enabled in those. *)
(***************************************************************************)
EXTENDS RestaurantOrder, Onboarding, Renewal, StaffMail, OperationSms, TLC
CONSTANTS a1, a2, e1
VARIABLE focus

MCEmailOf == (a1 :> e1) @@ (a2 :> e1)

MCInit ==
    /\ RestaurantInit /\ OnboardingInit /\ RenewalInit /\ MailInit /\ SmsInit
    /\ focus \in {"meals", "onboarding", "renewal", "mail", "reminder"}

MCNext ==
    /\ UNCHANGED focus
    /\ \/ /\ focus = "meals" /\ RestaurantNext
          /\ UNCHANGED <<onboardingVars, renewalVars, mailVars, smsVars>>
       \/ /\ focus = "onboarding" /\ OnboardingNext
          /\ UNCHANGED <<restaurantVars, renewalVars, mailVars, smsVars>>
       \/ /\ focus = "renewal" /\ RenewalNext
          /\ UNCHANGED <<restaurantVars, onboardingVars, mailVars, smsVars>>
       \/ /\ focus = "mail" /\ MailNext
          /\ UNCHANGED <<restaurantVars, onboardingVars, renewalVars, smsVars>>
       \/ /\ focus = "reminder" /\ SmsNext
          /\ UNCHANGED <<restaurantVars, onboardingVars, renewalVars, mailVars>>

MCVars == <<restaurantVars, onboardingVars, renewalVars, mailVars, smsVars, focus>>

\* One tick reconciles applications, then renewals, then runs the jobs and applies the
\* packages that are due; the first unknown invoice of either ends it.
TickPasses == ~InvoiceUnknown /\ ~ChargeUnknown

TickFairness ==
    /\ \A a \in Applications : WF_onboardingVars(TickPasses /\ PassOverJob(a))
    /\ WF_renewalVars(TickPasses /\ ApplyDue)
    /\ \A r \in RenewalIds : WF_renewalVars(TickPasses /\ ApplyCapturedCharge(r))

MCSpec ==
    /\ MCInit /\ [][MCNext]_MCVars
    /\ RestaurantFairness /\ OnboardingFairness /\ RenewalFairness /\ MailFairness /\ SmsFairness
    /\ TickFairness

-----------------------------------------------------------------------------
\* Type correctness of the records and processes of all five.
ServicesTypeOK ==
    RestaurantTypeOK /\ OnboardingTypeOK /\ RenewalTypeOK /\ MailTypeOK /\ SmsTypeOK

\* What is final stays final, however late an answer, a capture, a lapsed lease
\* or a second worker comes: meals, paid applications, terms and letters.
WhatIsFinalStays == MealOverIsFinal /\ PaidStaysPaid /\ PackageFollowsTerm /\ MailEndsOnce

\* As long as no invoice is unknown to its provider, the tick brings the platform's paid
\* work on, whatever crashed, failed or expired before: captures of applications and of
\* renewals reach their rows, a paid upgrade is in use once its time has come, and no
\* application stays PROVISIONING after its worker died.  (Captures and applied renewals
\* are final: []<> says the same as ~>.)
TickServesPaid ==
    /\ []<>(InvoiceUnknown \/ CapturesSeen)
    /\ []<>(~TickPasses \/ RenewalsServed)
    /\ \A a \in Applications : []<>(~TickPasses \/ app[a] # "PROVISIONING")

\* What was begun is settled, also after crashes: a captured meal, a letter and a
\* reminder by workers of their own, the platform's paid work by the tick.
NothingWaitsForever ==
    PaidMealIsCaptured /\ MailIsSettled /\ SendingEnds /\ TickServesPaid
=============================================================================
