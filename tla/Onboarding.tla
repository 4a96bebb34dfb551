----------------------------- MODULE Onboarding -----------------------------
(***************************************************************************)
(* How a paid application becomes a hotel: the invoice that is asked for   *)
(* between two transactions, the queries about it, the job that provisions *)
(* the hotel under a lease, the proofs of the account and of the owner     *)
(* the hotel is bound to, and the activation of its administrator.         *)
(*                                                                         *)
(* All applications name the same owner; their e-mails may differ.  A      *)
(* transaction locks the e-mail, the owner and the application it writes:  *)
(* it is one step.  What is between two transactions (a call of the bank,  *)
(* an SMS, a provisioning) is not, and a crash may end it there.           *)
(***************************************************************************)
EXTENDS Naturals, FiniteSets

CONSTANTS
    Applications,   \* onboarding_application
    EmailOf,        \* the e-mail each application names
    MaxInvoices,    \* bound: invoices asked for, of all applications together
    Provisioners,   \* worker processes
    MaxTries,       \* automatic attempts of a job (5 in the code)
    Nobody          \* no worker, no owner, no application

ASSUME OnboardingAssumption ==
    /\ MaxInvoices \in Nat
    /\ MaxTries \in Nat \ {0}
    /\ Nobody \notin Provisioners \cup Applications \cup {EmailOf[a] : a \in Applications}

Invoices == 1 .. MaxInvoices
Emails == {EmailOf[a] : a \in Applications}

Unpaid == {"DRAFT", "OWNER_VERIFICATION_REQUIRED", "PAYMENT_UNCERTAIN", "PENDING_PAYMENT",
           "PAYMENT_FAILED"}
Waiting == {"PAID_PENDING_PROVISIONING", "PROVISIONING", "PROVISIONING_FAILED"}
Open == {"PENDING", "UNCERTAIN"}
\* FAILED stands for FAILED and EXPIRED, which the code treats alike.
BankStates == {"PENDING", "FAILED", "SUCCEEDED"}

VARIABLES
    app,           \* onboarding_application.state
    phoned,        \* phone_verified_at is set
    proved,        \* proof_account_id names the account of the e-mail
    vouched,       \* onboarding_owner_proof: NONE, ASKED or PROVED
    paidBy,        \* paid_attempt_id
    billed,        \* onboarding_attempt.application_id
    attempt,       \* onboarding_attempt.state
    calls,         \* the request that waits for create_invoice: NO, BEFORE or AFTER
    bankInvoice,   \* the provider's state of an invoice
    answer,        \* the answer a reconcile holds, not yet applied
    account,       \* staff_account: NONE, PENDING (not verified) or ACTIVE
    owner,         \* subscription_owner.account_id
    job,           \* onboarding_job
    runs           \* what each worker process runs

applicationVars == <<app, phoned, proved, vouched, paidBy>>
invoiceVars == <<billed, attempt, calls, bankInvoice, answer>>
identityVars == <<account, owner>>
provisionVars == <<job, runs>>
onboardingVars == <<applicationVars, invoiceVars, identityVars, provisionVars>>

NoInvoice == 0
NoJob == [state |-> "NONE", tries |-> 0, due |-> TRUE, lease |-> Nobody, live |-> FALSE]

OnboardingTypeOK ==
    /\ app \in [Applications -> Unpaid \cup Waiting \cup
                   {"PAID_OWNER_VERIFICATION_REQUIRED", "PROVISIONED"}]
    /\ {phoned, proved} \subseteq [Applications -> BOOLEAN]
    /\ vouched \in [Applications -> {"NONE", "ASKED", "PROVED"}]
    /\ paidBy \in [Applications -> Invoices \cup {NoInvoice}]
    /\ billed \in [Invoices -> Applications \cup {Nobody}]
    /\ attempt \in [Invoices -> {"NONE", "PENDING", "UNCERTAIN", "FAILED", "PAID",
                                 "SUPERSEDED", "RECONCILE"}]
    /\ calls \in [Invoices -> {"NO", "BEFORE", "AFTER"}]
    /\ {bankInvoice, answer} \subseteq [Invoices -> {"NONE"} \cup BankStates]
    /\ account \in [Emails -> {"NONE", "PENDING", "ACTIVE"}]
    /\ owner \in Emails \cup {Nobody}
    /\ job \in [Applications -> [state : {"NONE", "OPEN", "DONE"}, tries : 0 .. MaxTries,
                                 due : BOOLEAN, lease : Provisioners \cup {Nobody}, live : BOOLEAN]]
    /\ runs \in [Provisioners -> Applications \cup {Nobody}]

OnboardingInit ==
    /\ app = [a \in Applications |-> "DRAFT"]
    /\ phoned = [a \in Applications |-> FALSE]
    /\ proved = [a \in Applications |-> FALSE]
    /\ vouched = [a \in Applications |-> "NONE"]
    /\ paidBy = [a \in Applications |-> NoInvoice]
    /\ billed = [i \in Invoices |-> Nobody]
    /\ attempt = [i \in Invoices |-> "NONE"]
    /\ calls = [i \in Invoices |-> "NO"]
    /\ bankInvoice = [i \in Invoices |-> "NONE"]
    /\ answer = [i \in Invoices |-> "NONE"]
    /\ account = [e \in Emails |-> "NONE"]
    /\ owner = Nobody
    /\ job = [a \in Applications |-> NoJob]
    /\ runs = [w \in Provisioners |-> Nobody]

Paid(a) == paidBy[a] # NoInvoice
InvoicesOf(a) == {i \in Invoices : billed[i] = a}

-----------------------------------------------------------------------------
(* Who the applicant proves to be.                                         *)

\* The code of the last challenge; a newer challenge refuses an older code.
VerifyPhone(a) ==
    /\ ~Paid(a) /\ ~phoned[a]
    /\ phoned' = [phoned EXCEPT ![a] = TRUE]
    /\ UNCHANGED <<app, proved, vouched, paidBy, invoiceVars, identityVars, provisionVars>>

\* An existing e-mail must be its own account, verified; an existing owner must
\* be that account or have answered from its registered phone.
AccountProved(a) == account[EmailOf[a]] # "NONE" => proved[a] /\ account[EmailOf[a]] = "ACTIVE"

Proof(a) ==
    /\ AccountProved(a)
    /\ \/ owner = Nobody
       \/ proved[a] /\ owner = EmailOf[a]
       \/ vouched[a] = "PROVED"

\* The account logs in: a paid application that waited for a proof is queued
\* again, whether or not the proof is complete.
ProveAccount(a) ==
    /\ account[EmailOf[a]] = "ACTIVE"
    /\ proved' = [proved EXCEPT ![a] = TRUE]
    /\ app' = [app EXCEPT ![a] = IF Paid(a) /\ @ = "PAID_OWNER_VERIFICATION_REQUIRED"
                                 THEN "PAID_PENDING_PROVISIONING" ELSE @]
    /\ UNCHANGED <<phoned, vouched, paidBy, invoiceVars, identityVars, provisionVars>>

RequestOwner(a) ==
    /\ app[a] # "PROVISIONED" /\ owner # Nobody
    /\ vouched' = [vouched EXCEPT ![a] = "ASKED"]
    /\ UNCHANGED <<app, phoned, proved, paidBy, invoiceVars, identityVars, provisionVars>>

VerifyOwner(a) ==
    /\ vouched[a] # "NONE"
    /\ vouched' = [vouched EXCEPT ![a] = "PROVED"]
    /\ app' = [app EXCEPT ![a] =
          IF Paid(a) /\ @ = "PAID_OWNER_VERIFICATION_REQUIRED" /\ AccountProved(a)
          THEN "PAID_PENDING_PROVISIONING" ELSE @]
    /\ UNCHANGED <<phoned, proved, paidBy, invoiceVars, identityVars, provisionVars>>

-----------------------------------------------------------------------------
(* Invoice and capture.                                                    *)

\* Mutant: an invoice whose creation is uncertain does not hold back another.
OpenIfKnown(a) == \E i \in InvoicesOf(a) : attempt[i] = "PENDING"

HasOpenInvoice(a) == \E i \in InvoicesOf(a) : attempt[i] \in Open

\* First transaction: an open invoice is returned, never doubled.
RequestInvoice(a) ==
    /\ ~Paid(a) /\ phoned[a]
    /\ \/ /\ ~Proof(a)
          /\ app' = [app EXCEPT ![a] = "OWNER_VERIFICATION_REQUIRED"]
          /\ UNCHANGED <<billed, attempt, calls>>
       \/ /\ Proof(a) /\ ~HasOpenInvoice(a)
          /\ \E i \in Invoices :
                /\ \A j \in Invoices : attempt[j] = "NONE" <=> j >= i
                /\ billed' = [billed EXCEPT ![i] = a]
                /\ attempt' = [attempt EXCEPT ![i] = "UNCERTAIN"]
                /\ calls' = [calls EXCEPT ![i] = "BEFORE"]
          /\ app' = [app EXCEPT ![a] = "PAYMENT_UNCERTAIN"]
    /\ UNCHANGED <<phoned, proved, vouched, paidBy, bankInvoice, answer, identityVars, provisionVars>>

\* The provider keys an invoice by the attempt.
CreateInvoice(i) ==
    /\ calls[i] = "BEFORE"
    /\ calls' = [calls EXCEPT ![i] = "AFTER"]
    /\ bankInvoice' = [bankInvoice EXCEPT ![i] = IF @ = "NONE" THEN "PENDING" ELSE @]
    /\ UNCHANGED <<applicationVars, billed, attempt, answer, identityVars, provisionVars>>

\* Second transaction; the payment may have been seen before it.
StoreInvoice(i) ==
    LET a == billed[i] IN
    /\ calls[i] = "AFTER"
    /\ calls' = [calls EXCEPT ![i] = "NO"]
    /\ attempt' = [attempt EXCEPT ![i] = IF @ = "UNCERTAIN" THEN "PENDING" ELSE @]
    /\ app' = [app EXCEPT ![a] = IF Paid(a) THEN @ ELSE "PENDING_PAYMENT"]
    /\ UNCHANGED <<phoned, proved, vouched, paidBy, billed, bankInvoice, answer, identityVars, provisionVars>>

\* The request ends where it stands and its answer is lost.
RequestCrashes(i) ==
    /\ calls[i] # "NO"
    /\ calls' = [calls EXCEPT ![i] = "NO"]
    /\ UNCHANGED <<applicationVars, billed, attempt, bankInvoice, answer, identityVars, provisionVars>>

\* What is captured stays captured; everything else may change, even back.
InvoiceChanges(i) ==
    /\ bankInvoice[i] \notin {"NONE", "SUCCEEDED"}
    /\ bankInvoice' \in {[bankInvoice EXCEPT ![i] = s] : s \in BankStates \ {bankInvoice[i]}}
    /\ UNCHANGED <<applicationVars, billed, attempt, calls, answer, identityVars, provisionVars>>

\* Mutant: an invoice that failed is settled.
AskAboutOpen(i) ==
    /\ attempt[i] \in Open \cup {"SUPERSEDED"} /\ answer[i] = "NONE"
    /\ bankInvoice[i] \in {"FAILED", "SUCCEEDED"}
    /\ answer' = [answer EXCEPT ![i] = bankInvoice[i]]
    /\ UNCHANGED <<applicationVars, billed, attempt, calls, bankInvoice, identityVars, provisionVars>>

\* The development tick asks about everything that is not settled, the platform by hand
\* about one invoice; PENDING changes nothing.  About an invoice it does not know the
\* provider answers with an error, which ends the tick there (InvoiceUnknown): the
\* rest of it has to wait for one that meets no such invoice.
AskAboutInvoice(i) ==
    /\ attempt[i] \notin {"NONE", "PAID", "RECONCILE"} /\ answer[i] = "NONE"
    /\ bankInvoice[i] \in {"FAILED", "SUCCEEDED"}
    /\ answer' = [answer EXCEPT ![i] = bankInvoice[i]]
    /\ UNCHANGED <<applicationVars, billed, attempt, calls, bankInvoice, identityVars, provisionVars>>

\* Nobody asks about a capture twice: it is settled, or kept for reconciliation.
Captured(i) == IF Paid(billed[i]) THEN "RECONCILE" ELSE "PAID"

ApplyPaid(i) ==
    LET a == billed[i] IN
    /\ attempt' = [j \in Invoices |->
          IF j = i THEN Captured(i)
          ELSE IF ~Paid(a) /\ j \in InvoicesOf(a) /\ attempt[j] \in Open THEN "SUPERSEDED"
          ELSE attempt[j]]
    /\ IF Paid(a) THEN UNCHANGED <<app, paidBy, job>>
       ELSE /\ app' = [app EXCEPT ![a] = "PAID_PENDING_PROVISIONING"]
            /\ paidBy' = [paidBy EXCEPT ![a] = i]
            /\ job' = [job EXCEPT ![a] = IF @ = NoJob THEN [@ EXCEPT !.state = "OPEN"] ELSE @]

\* Mutant: the failure of any invoice is the failure of the application.
ApplyLostAnyway(i) ==
    /\ attempt' = [attempt EXCEPT ![i] = answer[i]]
    /\ app' = [app EXCEPT ![billed[i]] = "PAYMENT_FAILED"]
    /\ UNCHANGED <<paidBy, job>>

ApplyLost(i) ==
    LET a == billed[i] IN
    /\ attempt' = [attempt EXCEPT ![i] = answer[i]]
    /\ app' = [app EXCEPT ![a] =
          IF Paid(a) \/ \E j \in InvoicesOf(a) \ {i} : attempt[j] \in Open THEN @
          ELSE "PAYMENT_FAILED"]
    /\ UNCHANGED <<paidBy, job>>

\* The answer is applied in a later transaction, perhaps after a newer one.
ApplyHeard(i) ==
    /\ answer[i] # "NONE"
    /\ answer' = [answer EXCEPT ![i] = "NONE"]
    /\ IF attempt[i] \in {"PAID", "RECONCILE"}
       THEN UNCHANGED <<attempt, app, paidBy, job>>
       ELSE IF answer[i] = "SUCCEEDED" THEN ApplyPaid(i) ELSE ApplyLost(i)
    /\ UNCHANGED <<phoned, proved, vouched, billed, calls, bankInvoice, identityVars, runs>>

-----------------------------------------------------------------------------
(* Provisioning.                                                           *)

Held(a) == job[a].lease # Nobody /\ job[a].live

\* A pass first marks what was given up, then takes the jobs that are due.
Takes(a) ==
    /\ job[a].state = "OPEN" /\ job[a].due /\ job[a].tries < MaxTries /\ ~Held(a)
    /\ app[a] \in Waiting

\* Mutant: a job is exhausted only beyond its last attempt.
ExhaustedLater(a) ==
    /\ job[a].state = "OPEN" /\ job[a].tries > MaxTries /\ ~Held(a)
    /\ app[a] = "PROVISIONING"

Exhausted(a) ==
    /\ job[a].state = "OPEN" /\ job[a].tries >= MaxTries /\ ~Held(a)
    /\ app[a] = "PROVISIONING"

GiveUp(a) ==
    /\ Exhausted(a)
    /\ app' = [app EXCEPT ![a] = "PROVISIONING_FAILED"]
    /\ UNCHANGED <<phoned, proved, vouched, paidBy, invoiceVars, identityVars, provisionVars>>

Lease(w, a) ==
    /\ runs[w] = Nobody /\ Takes(a)
    /\ job' = [job EXCEPT ![a].tries = @ + 1, ![a].lease = w, ![a].live = TRUE]
    /\ app' = [app EXCEPT ![a] = "PROVISIONING"]
    /\ runs' = [runs EXCEPT ![w] = a]
    /\ UNCHANGED <<phoned, proved, vouched, paidBy, invoiceVars, identityVars>>

\* Five minutes pass; the worker may still be at work.
LeaseLapses(a) ==
    /\ Held(a)
    /\ job' = [job EXCEPT ![a].live = FALSE]
    /\ UNCHANGED <<applicationVars, invoiceVars, identityVars, runs>>

BackoffEnds(a) ==
    /\ ~job[a].due
    /\ job' = [job EXCEPT ![a].due = TRUE]
    /\ UNCHANGED <<applicationVars, invoiceVars, identityVars, runs>>

\* Mutant: the proof the invoice was given for is trusted.
ProofAtInvoice(a) == TRUE

ProofHolds(a) == Proof(a)

MayFinish(w, a) == job[a].state = "OPEN" /\ job[a].lease = w /\ job[a].live

\* The lease ends with the run it was given for; one that lapsed and was taken
\* over is left alone.
Released(j, w) == IF j.lease = w THEN [j EXCEPT !.lease = Nobody, !.live = FALSE] ELSE j

\* Hotel, administrator, owner, cash book and activation link, in one commit.
Provision(w, a) ==
    /\ runs[w] = a /\ app[a] # "PROVISIONED" /\ MayFinish(w, a) /\ ProofHolds(a)
    /\ account' = [account EXCEPT ![EmailOf[a]] = IF @ = "NONE" THEN "PENDING" ELSE @]
    /\ owner' = IF owner = Nobody THEN EmailOf[a] ELSE owner
    /\ app' = [app EXCEPT ![a] = "PROVISIONED"]
    /\ job' = [job EXCEPT ![a] = [Released(@, w) EXCEPT !.state = "DONE"]]
    /\ runs' = [runs EXCEPT ![w] = Nobody]
    /\ UNCHANGED <<phoned, proved, vouched, paidBy, invoiceVars>>

\* The payment waits for a proof; the attempt it took stays counted.  The lease is
\* given back in a second transaction, before which the process may die.
ProofMissing(w, a) ==
    /\ runs[w] = a /\ app[a] # "PROVISIONED" /\ MayFinish(w, a) /\ ~ProofHolds(a)
    /\ app' = [app EXCEPT ![a] = "PAID_OWNER_VERIFICATION_REQUIRED"]
    /\ job' \in {job, [job EXCEPT ![a] = Released(@, w)]}
    /\ runs' = [runs EXCEPT ![w] = Nobody]
    /\ UNCHANGED <<phoned, proved, vouched, paidBy, invoiceVars, identityVars>>

\* Refused: another run finished the job, or the lease lapsed (an exception
\* that leaves the lease).
RunRefused(w, a) ==
    /\ runs[w] = a
    /\ app[a] = "PROVISIONED" \/ ~MayFinish(w, a)
    /\ job' = [job EXCEPT ![a] = IF app[a] = "PROVISIONED" THEN Released(@, w) ELSE @]
    /\ runs' = [runs EXCEPT ![w] = Nobody]
    /\ UNCHANGED <<applicationVars, invoiceVars, identityVars>>

\* A database error rolls the provisioning back and schedules the next attempt.
RunFails(w, a) ==
    /\ runs[w] = a
    /\ IF job[a].state = "OPEN" /\ job[a].lease = w
       THEN /\ job' = [job EXCEPT ![a] = [Released(@, w) EXCEPT !.due = FALSE]]
            /\ app' = [app EXCEPT ![a] = "PROVISIONING_FAILED"]
       ELSE UNCHANGED <<job, app>>
    /\ runs' = [runs EXCEPT ![w] = Nobody]
    /\ UNCHANGED <<phoned, proved, vouched, paidBy, invoiceVars, identityVars>>

\* The process dies and leaves its lease to lapse.
RunCrashes(w) ==
    /\ runs[w] # Nobody
    /\ runs' = [runs EXCEPT ![w] = Nobody]
    /\ UNCHANGED <<applicationVars, invoiceVars, identityVars, job>>

\* The platform starts the attempts over.
ManualRetry(a) ==
    /\ Paid(a) /\ app[a] = "PROVISIONING_FAILED"
    /\ job' = [job EXCEPT ![a] =
          IF @.state = "OPEN" THEN [@ EXCEPT !.tries = 0, !.due = TRUE, !.lease = Nobody, !.live = FALSE]
          ELSE @]
    /\ UNCHANGED <<applicationVars, invoiceVars, identityVars, runs>>

\* The administrator opens the activation link.
Activate(e) ==
    /\ account[e] = "PENDING"
    /\ account' = [account EXCEPT ![e] = "ACTIVE"]
    /\ UNCHANGED <<applicationVars, invoiceVars, owner, provisionVars>>

-----------------------------------------------------------------------------
Applicant(a) ==
    VerifyPhone(a) \/ ProveAccount(a) \/ RequestOwner(a) \/ VerifyOwner(a) \/ RequestInvoice(a)
InvoiceStep(i) ==
    CreateInvoice(i) \/ StoreInvoice(i) \/ RequestCrashes(i) \/ InvoiceChanges(i)
    \/ AskAboutInvoice(i) \/ ApplyHeard(i)
JobStep(a) == GiveUp(a) \/ LeaseLapses(a) \/ BackoffEnds(a) \/ ManualRetry(a)
RunStep(w, a) ==
    Lease(w, a) \/ Provision(w, a) \/ ProofMissing(w, a) \/ RunRefused(w, a) \/ RunFails(w, a)

OnboardingNext ==
    \/ \E a \in Applications : Applicant(a) \/ JobStep(a)
    \/ \E i \in Invoices : InvoiceStep(i)
    \/ \E w \in Provisioners : RunCrashes(w) \/ \E a \in Applications : RunStep(w, a)
    \/ \E e \in Emails : Activate(e)

\* The provider has no invoice for a row the tick will ask about: the request is
\* before its call, or died there.
InvoiceUnknown ==
    \E i \in Invoices : attempt[i] \notin {"NONE", "PAID", "RECONCILE"} /\ bankInvoice[i] = "NONE"

\* once(): what a pass does about the job of an application.
PassOverJob(a) == GiveUp(a) \/ \E w \in Provisioners : Lease(w, a)

EndOfRun(w, a) ==
    \/ Provision(w, a) \/ ProofMissing(w, a) \/ RunRefused(w, a) \/ RunFails(w, a)
    \/ runs[w] = a /\ RunCrashes(w)

\* The tick runs again and again.  One pass asks about every invoice in the order of
\* the random ids, and the first one that is unknown ends it: nothing is assumed of
\* any other while there is one, since it may come later.  An answer is applied, a run
\* ends and time passes.  The jobs come after the renewals in a pass, so their
\* fairness is stated with the tick (MCServices).  Nothing is assumed of applicants,
\* providers or the platform.
OnboardingFairness ==
    /\ \A i \in Invoices :
          WF_onboardingVars(~InvoiceUnknown /\ AskAboutInvoice(i)) /\ WF_onboardingVars(ApplyHeard(i))
    /\ \A a \in Applications :
          /\ WF_onboardingVars(LeaseLapses(a)) /\ WF_onboardingVars(BackoffEnds(a))
          /\ \A w \in Provisioners : WF_onboardingVars(EndOfRun(w, a))

OnboardingSpec == OnboardingInit /\ [][OnboardingNext]_onboardingVars /\ OnboardingFairness

-----------------------------------------------------------------------------
(* Properties.                                                             *)

\* A capture is never lost: the invoice an application was paid by is PAID and
\* no other is, a second capture is kept apart for reconciliation, and at most
\* one invoice waits for the guest's payment at a time, however answers, stored
\* invoices and crashes interleave.
CaptureIsKept ==
    \A a \in Applications :
        /\ \A i \in InvoicesOf(a) : attempt[i] = "PAID" <=> paidBy[a] = i
        /\ \A i, j \in InvoicesOf(a) : {attempt[i], attempt[j]} \subseteq Open => i = j
        /\ \A i \in InvoicesOf(a) : attempt[i] = "RECONCILE" => Paid(a)

\* A paid application never asks for money again: not because an older answer,
\* a stored invoice or the expiry of another invoice arrives late.
PaidStaysPaid ==
    [][\A a \in Applications : Paid(a) => app'[a] \notin Unpaid /\ paidBy'[a] = paidBy[a]]_onboardingVars

\* Of two hotels that carry the same e-mail or the same owner, the later one was
\* provisioned for somebody who had proved to be that person, although proofs
\* are given, asked again and outdated while jobs run.
HotelsHaveTheirOwner ==
    \A a, b \in Applications :
        a # b /\ {app[a], app[b]} = {"PROVISIONED"} =>
            /\ EmailOf[a] = EmailOf[b] => proved[a] \/ proved[b]
            /\ \/ vouched[a] = "PROVED" \/ vouched[b] = "PROVED"
               \/ proved[a] /\ owner = EmailOf[a]
               \/ proved[b] /\ owner = EmailOf[b]

CapturesSeen ==
    \A i \in Invoices : bankInvoice[i] = "SUCCEEDED" => attempt[i] \in {"PAID", "RECONCILE"}

\* docs/37: after the provider's success the next tick reconciles it and goes on to the
\* provisioning.  So money the provider captured reaches the application, whatever
\* happened to other requests.  (Both are final: []<> says the same as ~>.)
EveryCaptureIsSeen == []<>CapturesSeen

\* A worker, a later pass or the end of a backoff deals with the application.
InReach(a) ==
    \/ \E w \in Provisioners : runs[w] = a
    \/ Held(a) \/ ~job[a].due \/ Takes(a) \/ Exhausted(a)

\* Crashes, lapsed leases and used-up attempts strand no run: an application that
\* shows PROVISIONING is with a worker, or a later pass takes it or gives it up.
RunIsNotStranded == \A a \in Applications : app[a] = "PROVISIONING" => InReach(a)

\* What was paid for is provisioned, for whom it belongs to, or still on its way.
PaidHotelsOpen == CaptureIsKept /\ HotelsHaveTheirOwner /\ RunIsNotStranded

\* docs/36: a job that used up its attempts is visible as PROVISIONING_FAILED and
\* may be retried by the platform; so no paid application waits for a provisioning
\* that no pass will try.
PendingIsInReach == \A a \in Applications : app[a] = "PAID_PENDING_PROVISIONING" => InReach(a)

=============================================================================
