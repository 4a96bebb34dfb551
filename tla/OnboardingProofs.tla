-------------------------- MODULE OnboardingProofs --------------------------
(***************************************************************************)
(* Proofs about the opening of a hotel, for any number of applications,    *)
(* invoices and workers.  Beside the properties themselves the inductive   *)
(* invariant says which invoices may have an answer, and that a job is     *)
(* there for what is paid, open while the hotel is provisioned, and done   *)
(* when it is.                                                             *)
(***************************************************************************)
EXTENDS Onboarding, TLAPS

JobRow == [state : {"NONE", "OPEN", "DONE"}, tries : 0 .. MaxTries, due : BOOLEAN,
           lease : Provisioners \cup {Nobody}, live : BOOLEAN]
AppStates == Unpaid \cup Waiting \cup {"PAID_OWNER_VERIFICATION_REQUIRED", "PROVISIONED"}
AttemptStates == {"NONE", "PENDING", "UNCERTAIN", "FAILED", "PAID", "SUPERSEDED", "RECONCILE"}

ApplicationRecords ==
    /\ app \in [Applications -> AppStates]
    /\ phoned \in [Applications -> BOOLEAN] /\ proved \in [Applications -> BOOLEAN]
    /\ vouched \in [Applications -> {"NONE", "ASKED", "PROVED"}]
    /\ paidBy \in [Applications -> Invoices \cup {NoInvoice}]

InvoiceRecords ==
    /\ billed \in [Invoices -> Applications \cup {Nobody}]
    /\ attempt \in [Invoices -> AttemptStates]
    /\ calls \in [Invoices -> {"NO", "BEFORE", "AFTER"}]
    /\ bankInvoice \in [Invoices -> {"NONE"} \cup BankStates]
    /\ answer \in [Invoices -> {"NONE"} \cup BankStates]

HotelRecords ==
    /\ account \in [Emails -> {"NONE", "PENDING", "ACTIVE"}]
    /\ owner \in Emails \cup {Nobody}
    /\ job \in [Applications -> JobRow]
    /\ runs \in [Provisioners -> Applications \cup {Nobody}]

\* Nothing is asked, answered or captured of an invoice that nobody was billed, and an
\* answer that is kept is one that can be applied.
InvoicesFit ==
    /\ \A i \in Invoices :
          /\ attempt[i] = "NONE" <=> billed[i] = Nobody
          /\ calls[i] # "NO" \/ bankInvoice[i] # "NONE" \/ answer[i] # "NONE" => attempt[i] # "NONE"
          /\ answer[i] # "PENDING"
    /\ \A a \in Applications : paidBy[a] # NoInvoice => billed[paidBy[a]] = a

\* CaptureIsKept, said of each invoice.
CaptureFits ==
    /\ \A i \in Invoices :
          billed[i] # Nobody =>
             /\ attempt[i] = "PAID" <=> paidBy[billed[i]] = i
             /\ attempt[i] = "RECONCILE" => paidBy[billed[i]] # NoInvoice
    /\ \A i, j \in Invoices :
          billed[i] # Nobody /\ billed[i] = billed[j] /\ attempt[i] \in Open /\ attempt[j] \in Open => i = j

\* A job is there for what was paid, is done when the hotel is, and is open while it is
\* provisioned; a hotel has an account and an owner.
JobsFit ==
    \A a \in Applications :
        /\ job[a].state = "NONE" => job[a] = NoJob
        /\ job[a].state # "NONE" => Paid(a)
        /\ Paid(a) => app[a] \notin Unpaid
        /\ app[a] = "PROVISIONING" => job[a].state = "OPEN"
        /\ app[a] = "PROVISIONED" <=> job[a].state = "DONE"
        /\ app[a] = "PROVISIONED" => account[EmailOf[a]] # "NONE" /\ owner # Nobody

OnboardingInv ==
    /\ ApplicationRecords /\ InvoiceRecords /\ HotelRecords
    /\ InvoicesFit /\ CaptureFits /\ JobsFit /\ HotelsHaveTheirOwner

\* What no step does to a paid application.
StaysPaid == \A a \in Applications : Paid(a) => app'[a] \notin Unpaid /\ paidBy'[a] = paidBy[a]

\* No application is paid in the beginning.
LEMMA InitOnboardingInv == OnboardingInit => OnboardingInv
<1> SUFFICES ASSUME OnboardingInit PROVE OnboardingInv
  OBVIOUS
<1>1. ApplicationRecords
  BY DEF OnboardingInit, ApplicationRecords, AppStates, Unpaid
<1>2. InvoiceRecords
  BY DEF OnboardingInit, InvoiceRecords, AttemptStates
<1>3. HotelRecords
  <2>1. NoJob \in JobRow
    BY OnboardingAssumption DEF NoJob, JobRow
  <2> QED
    BY <2>1 DEF OnboardingInit, HotelRecords
<1>4. InvoicesFit
  BY DEF OnboardingInit, InvoicesFit
<1>5. CaptureFits
  BY DEF OnboardingInit, CaptureFits
<1>6. JobsFit
  BY DEF OnboardingInit, JobsFit, NoJob, Paid
<1>7. HotelsHaveTheirOwner
  BY DEF OnboardingInit, HotelsHaveTheirOwner
<1> QED
  BY <1>1, <1>2, <1>3, <1>4, <1>5, <1>6, <1>7 DEF OnboardingInv

-----------------------------------------------------------------------------
(* The applicant and the account.                                          *)

\* Proofs come and go, and a paid application is queued again.
LEMMA ProofsChange ==
    ASSUME OnboardingInv, NEW a \in Applications, NEW s,
           app' = [app EXCEPT ![a] = s],
           \/ s = app[a]
           \/ app[a] = "PAID_OWNER_VERIFICATION_REQUIRED" /\ s = "PAID_PENDING_PROVISIONING",
           phoned' \in [Applications -> BOOLEAN], proved' \in [Applications -> BOOLEAN],
           vouched' \in [Applications -> {"NONE", "ASKED", "PROVED"}],
           \A b \in Applications : proved[b] => proved'[b],
           \A b \in Applications : vouched[b] = "PROVED" /\ app[b] = "PROVISIONED" => vouched'[b] = "PROVED",
           paidBy' = paidBy, billed' = billed, attempt' = attempt, calls' = calls,
           bankInvoice' = bankInvoice, answer' = answer, owner' = owner, job' = job, runs' = runs,
           account' \in [Emails -> {"NONE", "PENDING", "ACTIVE"}],
           \A e \in Emails : account[e] # "NONE" => account'[e] # "NONE"
    PROVE  OnboardingInv' /\ StaysPaid
<1>1. /\ app \in [Applications -> AppStates] /\ app' \in [Applications -> AppStates]
      /\ \A b \in Applications :
            /\ app'[b] = "PROVISIONED" <=> app[b] = "PROVISIONED"
            /\ app'[b] = "PROVISIONING" <=> app[b] = "PROVISIONING"
            /\ app'[b] = app[b] \/ app'[b] = "PAID_PENDING_PROVISIONING"
  BY DEF OnboardingInv, ApplicationRecords, AppStates, Waiting
<1>2. ApplicationRecords'
  BY <1>1 DEF OnboardingInv, ApplicationRecords
<1>3. InvoiceRecords' /\ InvoicesFit' /\ CaptureFits'
  BY DEF OnboardingInv, InvoiceRecords, InvoicesFit, CaptureFits
<1>4. HotelRecords'
  BY DEF OnboardingInv, HotelRecords
<1>5. JobsFit'
  <2>1. \A b \in Applications : EmailOf[b] \in Emails
    BY DEF Emails
  <2> QED
    BY <1>1, <2>1 DEF OnboardingInv, JobsFit, Paid, Unpaid
<1>6. HotelsHaveTheirOwner'
  <2> SUFFICES ASSUME NEW b \in Applications, NEW c \in Applications, b # c,
                      {app'[b], app'[c]} = {"PROVISIONED"}
               PROVE  /\ EmailOf[b] = EmailOf[c] => proved'[b] \/ proved'[c]
                      /\ \/ vouched'[b] = "PROVED" \/ vouched'[c] = "PROVED"
                         \/ proved'[b] /\ owner' = EmailOf[b]
                         \/ proved'[c] /\ owner' = EmailOf[c]
    BY DEF HotelsHaveTheirOwner
  <2>1. app[b] = "PROVISIONED" /\ app[c] = "PROVISIONED"
    BY <1>1
  <2>2. /\ EmailOf[b] = EmailOf[c] => proved[b] \/ proved[c]
        /\ \/ vouched[b] = "PROVED" \/ vouched[c] = "PROVED"
           \/ proved[b] /\ owner = EmailOf[b]
           \/ proved[c] /\ owner = EmailOf[c]
    BY <2>1 DEF OnboardingInv, HotelsHaveTheirOwner
  <2>3. /\ proved[b] => proved'[b]
        /\ proved[c] => proved'[c]
        /\ vouched[b] = "PROVED" => vouched'[b] = "PROVED"
        /\ vouched[c] = "PROVED" => vouched'[c] = "PROVED"
        /\ owner' = owner
    BY <2>1
  <2> QED
    BY <2>2, <2>3
<1>7. StaysPaid
  BY <1>1 DEF OnboardingInv, JobsFit, StaysPaid, Unpaid
<1> QED
  BY <1>2, <1>3, <1>4, <1>5, <1>6, <1>7 DEF OnboardingInv

\* The applicant proves who he is.
LEMMA ApplicantKeeps ==
    ASSUME OnboardingInv, NEW a \in Applications,
           VerifyPhone(a) \/ ProveAccount(a) \/ RequestOwner(a) \/ VerifyOwner(a)
    PROVE  OnboardingInv' /\ StaysPaid
<1>1. PICK s :
        /\ app' = [app EXCEPT ![a] = s]
        /\ \/ s = app[a]
           \/ app[a] = "PAID_OWNER_VERIFICATION_REQUIRED" /\ s = "PAID_PENDING_PROVISIONING"
  <2>1. CASE app' = app
    <3>1. app' = [app EXCEPT ![a] = app[a]]
      BY <2>1 DEF OnboardingInv, ApplicationRecords
    <3> QED
      BY <3>1
  <2>2. CASE ProveAccount(a)
    <3> DEFINE s == IF Paid(a) /\ app[a] = "PAID_OWNER_VERIFICATION_REQUIRED"
                    THEN "PAID_PENDING_PROVISIONING" ELSE app[a]
    <3>1. app' = [app EXCEPT ![a] = s]
      BY <2>2 DEF ProveAccount, OnboardingInv, ApplicationRecords
    <3> QED
      BY <3>1
  <2>3. CASE VerifyOwner(a)
    <3> DEFINE s == IF Paid(a) /\ app[a] = "PAID_OWNER_VERIFICATION_REQUIRED" /\ AccountProved(a)
                    THEN "PAID_PENDING_PROVISIONING" ELSE app[a]
    <3>1. app' = [app EXCEPT ![a] = s]
      BY <2>3 DEF VerifyOwner, OnboardingInv, ApplicationRecords
    <3> QED
      BY <3>1
  <2> QED
    BY <2>1, <2>2, <2>3 DEF VerifyPhone, RequestOwner
<1>2. /\ phoned' \in [Applications -> BOOLEAN] /\ proved' \in [Applications -> BOOLEAN]
      /\ vouched' \in [Applications -> {"NONE", "ASKED", "PROVED"}]
      /\ \A b \in Applications : proved[b] => proved'[b]
      /\ \A b \in Applications : vouched[b] = "PROVED" /\ app[b] = "PROVISIONED" => vouched'[b] = "PROVED"
  BY DEF VerifyPhone, ProveAccount, RequestOwner, VerifyOwner, OnboardingInv, ApplicationRecords
<1>3. /\ paidBy' = paidBy /\ billed' = billed /\ attempt' = attempt /\ calls' = calls
      /\ bankInvoice' = bankInvoice /\ answer' = answer /\ owner' = owner /\ job' = job /\ runs' = runs
      /\ account' = account /\ account \in [Emails -> {"NONE", "PENDING", "ACTIVE"}]
  BY DEF VerifyPhone, ProveAccount, RequestOwner, VerifyOwner, invoiceVars, identityVars, provisionVars,
         OnboardingInv, HotelRecords
<1> QED
  BY <1>1, <1>2, <1>3, ProofsChange

\* The administrator activates the account.
LEMMA ActivateKeeps == ASSUME OnboardingInv, NEW e \in Emails, Activate(e) PROVE OnboardingInv' /\ StaysPaid
<1>1. PICK a \in Applications : TRUE
  BY DEF Emails
<1>2. /\ app' = app /\ phoned' = phoned /\ proved' = proved /\ vouched' = vouched
      /\ paidBy' = paidBy /\ billed' = billed /\ attempt' = attempt /\ calls' = calls
      /\ bankInvoice' = bankInvoice /\ answer' = answer /\ owner' = owner /\ job' = job /\ runs' = runs
      /\ ApplicationRecords
  BY DEF Activate, applicationVars, invoiceVars, provisionVars, OnboardingInv
<1>3. app' = [app EXCEPT ![a] = app[a]]
  BY <1>2 DEF ApplicationRecords
<1>4. /\ account' \in [Emails -> {"NONE", "PENDING", "ACTIVE"}]
      /\ \A d \in Emails : account[d] # "NONE" => account'[d] # "NONE"
  BY DEF Activate, OnboardingInv, HotelRecords
<1> QED
  BY <1>2, <1>3, <1>4, ProofsChange DEF ApplicationRecords

-----------------------------------------------------------------------------
(* The invoices.                                                           *)

\* Calls, the provider's states and the answers change, the attempts do not.
LEMMA BankKeeps ==
    ASSUME OnboardingInv, NEW i \in Invoices,
           CreateInvoice(i) \/ RequestCrashes(i) \/ InvoiceChanges(i) \/ AskAboutInvoice(i)
    PROVE  OnboardingInv' /\ StaysPaid
<1>1. /\ app' = app /\ phoned' = phoned /\ proved' = proved /\ vouched' = vouched /\ paidBy' = paidBy
      /\ billed' = billed /\ attempt' = attempt /\ account' = account /\ owner' = owner
      /\ job' = job /\ runs' = runs
  BY DEF CreateInvoice, RequestCrashes, InvoiceChanges, AskAboutInvoice, applicationVars, identityVars,
         provisionVars
<1>2. /\ calls' \in [Invoices -> {"NO", "BEFORE", "AFTER"}]
      /\ bankInvoice' \in [Invoices -> {"NONE"} \cup BankStates]
      /\ answer' \in [Invoices -> {"NONE"} \cup BankStates]
      /\ \A j \in Invoices :
            /\ calls'[j] # "NO" => calls[j] # "NO"
            /\ bankInvoice'[j] # "NONE" => bankInvoice[j] # "NONE" \/ calls[j] # "NO"
            /\ answer'[j] # "NONE" => answer[j] # "NONE" \/ attempt[j] # "NONE"
            /\ answer'[j] # "PENDING"
  <2>1. CASE CreateInvoice(i)
    <3> DEFINE s == IF bankInvoice[i] = "NONE" THEN "PENDING" ELSE bankInvoice[i]
    <3>1. bankInvoice' = [bankInvoice EXCEPT ![i] = s] /\ s \in {"NONE"} \cup BankStates
      BY <2>1 DEF CreateInvoice, OnboardingInv, InvoiceRecords, BankStates
    <3> HIDE DEF s
    <3> QED
      BY <2>1, <3>1 DEF CreateInvoice, OnboardingInv, InvoiceRecords, InvoicesFit
  <2>2. CASE RequestCrashes(i)
    BY <2>2 DEF RequestCrashes, OnboardingInv, InvoiceRecords, InvoicesFit
  <2>3. CASE InvoiceChanges(i)
    <3>1. PICK s \in BankStates : bankInvoice' = [bankInvoice EXCEPT ![i] = s] /\ bankInvoice[i] # "NONE"
      BY <2>3 DEF InvoiceChanges
    <3> QED
      BY <2>3, <3>1 DEF InvoiceChanges, OnboardingInv, InvoiceRecords, InvoicesFit
  <2>4. CASE AskAboutInvoice(i)
    <3>1. /\ answer' = [answer EXCEPT ![i] = bankInvoice[i]] /\ bankInvoice[i] \in {"FAILED", "SUCCEEDED"}
          /\ attempt[i] # "NONE" /\ calls' = calls /\ bankInvoice' = bankInvoice
      BY <2>4 DEF AskAboutInvoice
    <3> QED
      BY <3>1 DEF OnboardingInv, InvoiceRecords, InvoicesFit, BankStates
  <2> QED
    BY <2>1, <2>2, <2>3, <2>4
<1>3. ApplicationRecords' /\ InvoiceRecords' /\ HotelRecords'
  BY <1>1, <1>2 DEF OnboardingInv, ApplicationRecords, InvoiceRecords, HotelRecords
<1>4. InvoicesFit'
  BY <1>1, <1>2 DEF OnboardingInv, InvoicesFit
<1>5. CaptureFits' /\ HotelsHaveTheirOwner'
  BY <1>1 DEF OnboardingInv, CaptureFits, HotelsHaveTheirOwner
<1>6. JobsFit'
  BY <1>1 DEF OnboardingInv, JobsFit, Paid
<1>7. StaysPaid
  BY <1>1 DEF OnboardingInv, JobsFit, StaysPaid
<1> QED
  BY <1>3, <1>4, <1>5, <1>6, <1>7 DEF OnboardingInv

\* What is not paid for waits for its payment; what is paid stays as it is.
LEMMA UnpaidMoves ==
    ASSUME OnboardingInv, NEW a \in Applications, NEW s,
           app' = [app EXCEPT ![a] = s],
           s = app[a] \/ (~Paid(a) /\ s \in Unpaid),
           phoned' = phoned, proved' = proved, vouched' = vouched, paidBy' = paidBy,
           account' = account, owner' = owner, job' = job, runs' = runs
    PROVE  /\ ApplicationRecords' /\ HotelRecords' /\ JobsFit' /\ HotelsHaveTheirOwner'
           /\ StaysPaid
<1>1. ~Paid(a) => app[a] \notin {"PROVISIONED", "PROVISIONING"}
  BY DEF OnboardingInv, JobsFit
<1>2. /\ app \in [Applications -> AppStates] /\ app' \in [Applications -> AppStates]
      /\ \A b \in Applications :
            /\ app'[b] = "PROVISIONED" <=> app[b] = "PROVISIONED"
            /\ app'[b] = "PROVISIONING" <=> app[b] = "PROVISIONING"
            /\ app'[b] = app[b] \/ ~Paid(b)
  BY <1>1 DEF OnboardingInv, ApplicationRecords, AppStates, Unpaid
<1>3. ApplicationRecords' /\ HotelRecords'
  BY <1>2 DEF OnboardingInv, ApplicationRecords, HotelRecords
<1>4. JobsFit'
  BY <1>2 DEF OnboardingInv, JobsFit, Paid
<1>5. HotelsHaveTheirOwner'
  BY <1>2 DEF OnboardingInv, HotelsHaveTheirOwner
<1>6. StaysPaid
  BY <1>2 DEF OnboardingInv, JobsFit, StaysPaid
<1> QED
  BY <1>3, <1>4, <1>5, <1>6

\* An invoice is asked for: no other one of the application is open.
LEMMA RequestInvoiceKeeps ==
    ASSUME OnboardingInv, NEW a \in Applications, RequestInvoice(a) PROVE OnboardingInv' /\ StaysPaid
<1>1. /\ ~Paid(a) /\ phoned' = phoned /\ proved' = proved /\ vouched' = vouched /\ paidBy' = paidBy
      /\ bankInvoice' = bankInvoice /\ answer' = answer /\ account' = account /\ owner' = owner
      /\ job' = job /\ runs' = runs
  BY DEF RequestInvoice, identityVars, provisionVars
<1>2. PICK s \in Unpaid : app' = [app EXCEPT ![a] = s]
  BY DEF RequestInvoice, Unpaid
<1>3. ApplicationRecords' /\ HotelRecords' /\ JobsFit' /\ HotelsHaveTheirOwner' /\ StaysPaid
  BY <1>1, <1>2, UnpaidMoves
<1>4. CASE billed' = billed /\ attempt' = attempt /\ calls' = calls
  <2>1. InvoiceRecords' /\ InvoicesFit' /\ CaptureFits'
    BY <1>1, <1>4 DEF OnboardingInv, InvoiceRecords, InvoicesFit, CaptureFits
  <2> QED
    BY <1>3, <2>1 DEF OnboardingInv
<1>5. ASSUME NEW i \in Invoices, ~HasOpenInvoice(a),
             \A j \in Invoices : attempt[j] = "NONE" <=> j >= i,
             billed' = [billed EXCEPT ![i] = a],
             attempt' = [attempt EXCEPT ![i] = "UNCERTAIN"],
             calls' = [calls EXCEPT ![i] = "BEFORE"]
      PROVE  InvoiceRecords' /\ InvoicesFit' /\ CaptureFits'
  <2>1. attempt[i] = "NONE" /\ billed[i] = Nobody
    BY <1>5, OnboardingAssumption DEF OnboardingInv, InvoicesFit, Invoices
  <2>2. InvoiceRecords'
    BY <1>1, <1>5 DEF OnboardingInv, InvoiceRecords, AttemptStates
  <2>3. /\ billed'[i] = a /\ attempt'[i] = "UNCERTAIN" /\ a # Nobody
        /\ \A j \in Invoices \ {i} : billed'[j] = billed[j] /\ attempt'[j] = attempt[j] /\ calls'[j] = calls[j]
    BY <1>5, OnboardingAssumption DEF OnboardingInv, InvoiceRecords
  <2>4. \A b \in Applications : paidBy[b] # NoInvoice => paidBy[b] \in Invoices /\ paidBy[b] # i
    BY <2>1, OnboardingAssumption DEF OnboardingInv, ApplicationRecords, InvoicesFit
  <2>5. InvoicesFit'
    BY <1>1, <2>3, <2>4 DEF OnboardingInv, InvoicesFit
  <2>6. \A j \in Invoices : billed[j] = a => attempt[j] \notin Open
    BY <1>5 DEF HasOpenInvoice, InvoicesOf
  <2>7. paidBy[a] # i
    BY <1>1, <2>4, OnboardingAssumption DEF Paid, NoInvoice, Invoices
  <2>8. CaptureFits'
    <3>1. \A j \in Invoices : billed'[j] # Nobody =>
             /\ attempt'[j] = "PAID" <=> paidBy'[billed'[j]] = j
             /\ attempt'[j] = "RECONCILE" => paidBy'[billed'[j]] # NoInvoice
      BY <1>1, <2>3, <2>7 DEF OnboardingInv, CaptureFits
    <3>2. \A j, k \in Invoices :
            billed'[j] # Nobody /\ billed'[j] = billed'[k] /\ attempt'[j] \in Open /\ attempt'[k] \in Open => j = k
      BY <2>3, <2>6 DEF OnboardingInv, CaptureFits
    <3> QED
      BY <3>1, <3>2 DEF CaptureFits
  <2> QED
    BY <2>2, <2>5, <2>8
<1>6. \/ billed' = billed /\ attempt' = attempt /\ calls' = calls
      \/ /\ ~HasOpenInvoice(a)
         /\ \E i \in Invoices :
               /\ \A j \in Invoices : attempt[j] = "NONE" <=> j >= i
               /\ billed' = [billed EXCEPT ![i] = a]
               /\ attempt' = [attempt EXCEPT ![i] = "UNCERTAIN"]
               /\ calls' = [calls EXCEPT ![i] = "BEFORE"]
  BY DEF RequestInvoice
<1> QED
  BY <1>3, <1>4, <1>5, <1>6 DEF OnboardingInv

\* The invoice is stored, perhaps after its payment was seen.
LEMMA StoreInvoiceKeeps ==
    ASSUME OnboardingInv, NEW i \in Invoices, StoreInvoice(i) PROVE OnboardingInv' /\ StaysPaid
<1>1. PICK a \in Applications : a = billed[i]
  BY DEF StoreInvoice, OnboardingInv, InvoiceRecords, InvoicesFit
<1> DEFINE s == IF Paid(a) THEN app[a] ELSE "PENDING_PAYMENT"
           t == IF attempt[i] = "UNCERTAIN" THEN "PENDING" ELSE attempt[i]
<1>2. /\ phoned' = phoned /\ proved' = proved /\ vouched' = vouched /\ paidBy' = paidBy
      /\ bankInvoice' = bankInvoice /\ answer' = answer /\ account' = account /\ owner' = owner
      /\ job' = job /\ runs' = runs /\ billed' = billed /\ calls' = [calls EXCEPT ![i] = "NO"]
      /\ app' = [app EXCEPT ![a] = s] /\ attempt' = [attempt EXCEPT ![i] = t]
  BY <1>1 DEF StoreInvoice, identityVars, provisionVars, OnboardingInv, ApplicationRecords, InvoiceRecords
<1>3. s = app[a] \/ (~Paid(a) /\ s \in Unpaid)
  BY DEF Unpaid
<1>4. /\ t \in AttemptStates /\ (t \in Open <=> attempt[i] \in Open) /\ (t = "PAID" <=> attempt[i] = "PAID")
      /\ (t = "RECONCILE" <=> attempt[i] = "RECONCILE") /\ (t = "NONE" <=> attempt[i] = "NONE")
  BY DEF OnboardingInv, InvoiceRecords, AttemptStates, Open
<1> HIDE DEF s, t
<1>5. ApplicationRecords' /\ HotelRecords' /\ JobsFit' /\ HotelsHaveTheirOwner' /\ StaysPaid
  BY <1>2, <1>3, UnpaidMoves
<1>6. InvoiceRecords'
  BY <1>2, <1>4 DEF OnboardingInv, InvoiceRecords
<1>7. \A j \in Invoices :
        /\ attempt'[j] \in Open <=> attempt[j] \in Open
        /\ attempt'[j] = "PAID" <=> attempt[j] = "PAID"
        /\ attempt'[j] = "RECONCILE" <=> attempt[j] = "RECONCILE"
        /\ attempt'[j] = "NONE" <=> attempt[j] = "NONE"
        /\ calls'[j] # "NO" => calls[j] # "NO"
  BY <1>2, <1>4 DEF OnboardingInv, InvoiceRecords
<1>8. InvoicesFit'
  BY <1>2, <1>7 DEF OnboardingInv, InvoicesFit
<1>9. CaptureFits'
  BY <1>2, <1>7 DEF OnboardingInv, CaptureFits
<1> QED
  BY <1>5, <1>6, <1>8, <1>9 DEF OnboardingInv

-----------------------------------------------------------------------------
(* Answers that are applied, the newest or an old one.                     *)

\* The capture of an application that is not paid: its other invoices are superseded.
LEMMA FirstCaptureKeeps ==
    ASSUME OnboardingInv, NEW i \in Invoices, ApplyHeard(i), ~Paid(billed[i]),
           attempt[i] \notin {"PAID", "RECONCILE"}, answer[i] = "SUCCEEDED"
    PROVE  OnboardingInv' /\ StaysPaid
<1>1. PICK a \in Applications : a = billed[i] /\ a # Nobody /\ ~Paid(a) /\ attempt[i] # "NONE"
  BY OnboardingAssumption DEF OnboardingInv, InvoiceRecords, InvoicesFit
<1>2. /\ phoned' = phoned /\ proved' = proved /\ vouched' = vouched
      /\ bankInvoice' = bankInvoice /\ account' = account /\ owner' = owner
      /\ runs' = runs /\ billed' = billed /\ calls' = calls /\ answer' = [answer EXCEPT ![i] = "NONE"]
  BY DEF ApplyHeard, identityVars
<1>3. /\ app' = [app EXCEPT ![a] = "PAID_PENDING_PROVISIONING"]
      /\ paidBy' = [paidBy EXCEPT ![a] = i]
      /\ job' = [job EXCEPT ![a] = IF job[a] = NoJob THEN [job[a] EXCEPT !.state = "OPEN"] ELSE job[a]]
      /\ attempt' = [j \in Invoices |->
            IF j = i THEN "PAID"
            ELSE IF billed[j] = a /\ attempt[j] \in Open THEN "SUPERSEDED" ELSE attempt[j]]
  BY <1>1 DEF ApplyHeard, ApplyPaid, Captured, InvoicesOf, OnboardingInv, HotelRecords, ApplicationRecords
<1>4. job[a] = NoJob /\ app[a] \notin {"PROVISIONED", "PROVISIONING"}
  BY <1>1 DEF OnboardingInv, JobsFit
<1> DEFINE opened == [NoJob EXCEPT !.state = "OPEN"]
<1>5. job' = [job EXCEPT ![a] = opened] /\ opened \in JobRow /\ opened.state = "OPEN"
  <2>1. opened \in JobRow /\ opened.state = "OPEN"
    <3>1. 0 \in 0 .. MaxTries
      BY OnboardingAssumption
    <3> QED
      BY <3>1 DEF NoJob, JobRow
  <2>2. job' = [job EXCEPT ![a] = opened]
    BY <1>3, <1>4
  <2> QED
    BY <2>1, <2>2
<1> HIDE DEF opened
<1>6. ApplicationRecords'
  BY <1>2, <1>3 DEF OnboardingInv, ApplicationRecords, AppStates, Waiting
<1>7. /\ attempt'[i] = "PAID" /\ i # NoInvoice
      /\ \A j \in Invoices \ {i} : /\ attempt'[j] \in {attempt[j], "SUPERSEDED"}
                                   /\ billed[j] = a => attempt'[j] \notin Open
                                   /\ attempt'[j] = "NONE" <=> attempt[j] = "NONE"
  BY <1>3, OnboardingAssumption DEF NoInvoice, Invoices, Open
<1>8. InvoiceRecords'
  <2>1. \A j \in Invoices : attempt'[j] \in AttemptStates
    BY <1>7 DEF OnboardingInv, InvoiceRecords, AttemptStates
  <2>2. attempt' \in [Invoices -> AttemptStates]
    BY <1>3, <2>1
  <2> QED
    BY <1>2, <2>2 DEF OnboardingInv, InvoiceRecords
<1>9. HotelRecords'
  BY <1>2, <1>5 DEF OnboardingInv, HotelRecords
<1>10. paidBy'[a] = i /\ \A b \in Applications \ {a} : paidBy'[b] = paidBy[b]
  BY <1>3 DEF OnboardingInv, ApplicationRecords
<1>11. InvoicesFit'
  <2>1. \A j \in Invoices :
          /\ attempt'[j] = "NONE" <=> attempt[j] = "NONE"
          /\ answer'[j] # "NONE" => answer[j] # "NONE"
          /\ answer'[j] # "PENDING"
    BY <1>1, <1>2, <1>7 DEF OnboardingInv, InvoiceRecords, InvoicesFit
  <2> QED
    BY <1>1, <1>2, <1>10, <2>1 DEF OnboardingInv, InvoicesFit
<1>12. CaptureFits'
  <2>1. \A j \in Invoices : billed'[j] # Nobody =>
           /\ attempt'[j] = "PAID" <=> paidBy'[billed'[j]] = j
           /\ attempt'[j] = "RECONCILE" => paidBy'[billed'[j]] # NoInvoice
    <3> SUFFICES ASSUME NEW j \in Invoices, billed[j] # Nobody
                 PROVE  /\ attempt'[j] = "PAID" <=> paidBy'[billed[j]] = j
                        /\ attempt'[j] = "RECONCILE" => paidBy'[billed[j]] # NoInvoice
      BY <1>2
    <3>1. billed[j] \in Applications
      BY DEF OnboardingInv, InvoiceRecords
    <3>2. CASE billed[j] = a
      <4>1. attempt[j] # "PAID"
        BY <1>1, <3>2, OnboardingAssumption DEF OnboardingInv, CaptureFits, Paid, NoInvoice, Invoices
      <4> QED
        BY <1>7, <1>10, <3>2, <4>1
    <3>3. CASE billed[j] # a
      <4>1. j # i /\ attempt'[j] = attempt[j]
        BY <1>1, <1>3, <3>3
      <4> QED
        BY <1>10, <3>1, <3>3, <4>1 DEF OnboardingInv, CaptureFits
    <3> QED
      BY <3>2, <3>3
  <2>2. \A j, k \in Invoices :
          billed'[j] # Nobody /\ billed'[j] = billed'[k] /\ attempt'[j] \in Open /\ attempt'[k] \in Open => j = k
    BY <1>2, <1>7 DEF OnboardingInv, CaptureFits, Open
  <2> QED
    BY <2>1, <2>2 DEF CaptureFits
<1>13. JobsFit'
  <2> SUFFICES ASSUME NEW b \in Applications
               PROVE  /\ job'[b].state = "NONE" => job'[b] = NoJob
                      /\ job'[b].state # "NONE" => Paid(b)'
                      /\ Paid(b)' => app'[b] \notin Unpaid
                      /\ app'[b] = "PROVISIONING" => job'[b].state = "OPEN"
                      /\ app'[b] = "PROVISIONED" <=> job'[b].state = "DONE"
                      /\ app'[b] = "PROVISIONED" => account'[EmailOf[b]] # "NONE" /\ owner' # Nobody
    BY DEF JobsFit
  <2>1. CASE b = a
    <3>1. job'[b].state = "OPEN" /\ paidBy'[b] # NoInvoice /\ app'[b] = "PAID_PENDING_PROVISIONING"
      BY <1>3, <1>5, <1>7, <1>10, <2>1 DEF OnboardingInv, HotelRecords, ApplicationRecords
    <3> QED
      BY <3>1 DEF Paid, Unpaid
  <2>2. CASE b # a
    <3>1. job'[b] = job[b] /\ app'[b] = app[b] /\ paidBy'[b] = paidBy[b] /\ account' = account /\ owner' = owner
      BY <1>2, <1>3, <1>5, <1>10, <2>2 DEF OnboardingInv, HotelRecords, ApplicationRecords
    <3> QED
      BY <3>1 DEF OnboardingInv, JobsFit, Paid
  <2> QED
    BY <2>1, <2>2
<1>14. \A b \in Applications : app'[b] = "PROVISIONED" <=> app[b] = "PROVISIONED"
  BY <1>3, <1>4 DEF OnboardingInv, ApplicationRecords
<1>15. HotelsHaveTheirOwner'
  BY <1>2, <1>14 DEF OnboardingInv, HotelsHaveTheirOwner
<1>16. StaysPaid
  <2> SUFFICES ASSUME NEW b \in Applications, Paid(b) PROVE app'[b] \notin Unpaid /\ paidBy'[b] = paidBy[b]
    BY DEF StaysPaid
  <2>1. app'[b] = app[b] /\ paidBy'[b] = paidBy[b]
    BY <1>1, <1>3, <1>10 DEF OnboardingInv, ApplicationRecords
  <2> QED
    BY <2>1 DEF OnboardingInv, JobsFit
<1> QED
  BY <1>6, <1>8, <1>9, <1>11, <1>12, <1>13, <1>15, <1>16 DEF OnboardingInv

\* A second capture is kept for reconciliation, a failure is one of its invoice, and what
\* is settled is left alone.
LEMMA OtherAnswerKeeps ==
    ASSUME OnboardingInv, NEW i \in Invoices, ApplyHeard(i),
           ~(/\ ~Paid(billed[i]) /\ attempt[i] \notin {"PAID", "RECONCILE"} /\ answer[i] = "SUCCEEDED")
    PROVE  OnboardingInv' /\ StaysPaid
<1>1. PICK a \in Applications : a = billed[i] /\ a # Nobody /\ attempt[i] # "NONE"
  BY OnboardingAssumption DEF ApplyHeard, OnboardingInv, InvoiceRecords, InvoicesFit
<1>2. /\ phoned' = phoned /\ proved' = proved /\ vouched' = vouched
      /\ bankInvoice' = bankInvoice /\ account' = account /\ owner' = owner
      /\ runs' = runs /\ billed' = billed /\ calls' = calls /\ answer' = [answer EXCEPT ![i] = "NONE"]
  BY DEF ApplyHeard, identityVars
<1>3. answer[i] \in {"FAILED", "SUCCEEDED"}
  BY DEF ApplyHeard, OnboardingInv, InvoiceRecords, InvoicesFit, BankStates
<1>4. PICK s, t :
        /\ app' = [app EXCEPT ![a] = s] /\ attempt' = [attempt EXCEPT ![i] = t]
        /\ s = app[a] \/ (~Paid(a) /\ s \in Unpaid)
        /\ paidBy' = paidBy /\ job' = job
        /\ \/ t = attempt[i]
           \/ t = "FAILED" /\ attempt[i] \notin {"PAID", "RECONCILE"}
           \/ t = "RECONCILE" /\ Paid(a) /\ attempt[i] \notin {"PAID", "RECONCILE"}
  <2>1. CASE attempt[i] \in {"PAID", "RECONCILE"}
    <3>1. app' = app /\ attempt' = attempt /\ paidBy' = paidBy /\ job' = job
      BY <2>1 DEF ApplyHeard
    <3>2. app' = [app EXCEPT ![a] = app[a]] /\ attempt' = [attempt EXCEPT ![i] = attempt[i]]
      BY <3>1 DEF OnboardingInv, ApplicationRecords, InvoiceRecords
    <3> QED
      BY <3>1, <3>2
  <2>2. CASE attempt[i] \notin {"PAID", "RECONCILE"} /\ answer[i] = "SUCCEEDED"
    <3>1. Paid(a) /\ ApplyPaid(i)
      BY <1>1, <2>2 DEF ApplyHeard
    <3>2. app' = app /\ paidBy' = paidBy /\ job' = job
          /\ attempt' = [j \in Invoices |-> IF j = i THEN "RECONCILE" ELSE attempt[j]]
      BY <1>1, <3>1 DEF ApplyPaid, Captured
    <3>3. app' = [app EXCEPT ![a] = app[a]] /\ attempt' = [attempt EXCEPT ![i] = "RECONCILE"]
      BY <3>2 DEF OnboardingInv, ApplicationRecords, InvoiceRecords
    <3> QED
      BY <2>2, <3>1, <3>2, <3>3
  <2>3. CASE attempt[i] \notin {"PAID", "RECONCILE"} /\ answer[i] = "FAILED"
    <3> DEFINE s == IF Paid(a) \/ \E j \in InvoicesOf(a) \ {i} : attempt[j] \in Open THEN app[a]
                    ELSE "PAYMENT_FAILED"
    <3>1. /\ app' = [app EXCEPT ![a] = s] /\ attempt' = [attempt EXCEPT ![i] = "FAILED"]
          /\ paidBy' = paidBy /\ job' = job
      BY <1>1, <2>3 DEF ApplyHeard, ApplyLost, OnboardingInv, ApplicationRecords
    <3>2. s = app[a] \/ (~Paid(a) /\ s \in Unpaid)
      BY DEF Unpaid
    <3> HIDE DEF s
    <3> QED
      BY <2>3, <3>1, <3>2
  <2> QED
    BY <1>3, <2>1, <2>2, <2>3
<1>5. ApplicationRecords' /\ HotelRecords' /\ JobsFit' /\ HotelsHaveTheirOwner' /\ StaysPaid
  BY <1>2, <1>4, UnpaidMoves
<1>6. t \in AttemptStates /\ t # "NONE" /\ (t \in Open => attempt[i] \in Open)
      /\ (t = "PAID" <=> attempt[i] = "PAID")
      /\ (t = "RECONCILE" => attempt[i] = "RECONCILE" \/ Paid(a))
  BY <1>1, <1>4 DEF OnboardingInv, InvoiceRecords, AttemptStates, Open
<1>7. attempt'[i] = t /\ \A j \in Invoices \ {i} : attempt'[j] = attempt[j]
  BY <1>4 DEF OnboardingInv, InvoiceRecords
<1>8. InvoiceRecords'
  BY <1>2, <1>4, <1>6 DEF OnboardingInv, InvoiceRecords
<1>9. InvoicesFit'
  <2>1. \A j \in Invoices :
          /\ attempt'[j] = "NONE" <=> attempt[j] = "NONE"
          /\ answer'[j] # "NONE" => answer[j] # "NONE"
          /\ answer'[j] # "PENDING"
    BY <1>1, <1>2, <1>6, <1>7 DEF OnboardingInv, InvoiceRecords, InvoicesFit
  <2> QED
    BY <1>2, <1>4, <2>1 DEF OnboardingInv, InvoicesFit
<1>10. CaptureFits'
  <2>1. \A j \in Invoices : billed'[j] # Nobody =>
           /\ attempt'[j] = "PAID" <=> paidBy'[billed'[j]] = j
           /\ attempt'[j] = "RECONCILE" => paidBy'[billed'[j]] # NoInvoice
    BY <1>1, <1>2, <1>4, <1>6, <1>7 DEF OnboardingInv, CaptureFits, Paid
  <2>2. \A j, k \in Invoices :
          billed'[j] # Nobody /\ billed'[j] = billed'[k] /\ attempt'[j] \in Open /\ attempt'[k] \in Open => j = k
    BY <1>2, <1>6, <1>7 DEF OnboardingInv, CaptureFits
  <2> QED
    BY <2>1, <2>2 DEF CaptureFits
<1> QED
  BY <1>5, <1>8, <1>9, <1>10 DEF OnboardingInv

-----------------------------------------------------------------------------
(* The job and its workers.                                                *)

\* The job of a paid application goes on, or only its lease and its times change.
LEMMA JobMoves ==
    ASSUME OnboardingInv, NEW a \in Applications, NEW j \in JobRow, NEW s,
           job' = [job EXCEPT ![a] = j], app' = [app EXCEPT ![a] = s],
           \/ /\ job[a].state = "OPEN" /\ j.state = "OPEN"
              /\ s \in Waiting \cup {"PAID_OWNER_VERIFICATION_REQUIRED"}
           \/ j.state = job[a].state /\ s = app[a],
           job[a] = NoJob => j = NoJob,
           phoned' = phoned, proved' = proved, vouched' = vouched, paidBy' = paidBy,
           billed' = billed, attempt' = attempt, calls' = calls,
           bankInvoice' = bankInvoice, answer' = answer, account' = account, owner' = owner,
           runs' \in [Provisioners -> Applications \cup {Nobody}]
    PROVE  OnboardingInv' /\ StaysPaid
<1>1. /\ app' \in [Applications -> AppStates] /\ job' \in [Applications -> JobRow]
      /\ job'[a] = j /\ app'[a] = s
      /\ \A b \in Applications \ {a} : job'[b] = job[b] /\ app'[b] = app[b]
  BY DEF OnboardingInv, ApplicationRecords, HotelRecords, AppStates, Waiting
<1>2. ApplicationRecords' /\ HotelRecords'
  BY <1>1 DEF OnboardingInv, ApplicationRecords, HotelRecords
<1>3. InvoiceRecords' /\ InvoicesFit' /\ CaptureFits'
  BY DEF OnboardingInv, InvoiceRecords, InvoicesFit, CaptureFits
<1>4. /\ s = "PROVISIONED" <=> j.state = "DONE"
      /\ s = "PROVISIONED" <=> app[a] = "PROVISIONED"
      /\ s = "PROVISIONING" => j.state = "OPEN"
      /\ Paid(a) => s \notin Unpaid
      /\ j.state = "NONE" => j = NoJob
      /\ j.state # "NONE" => Paid(a)
  BY DEF OnboardingInv, JobsFit, Waiting, Unpaid
<1>5. JobsFit'
  BY <1>1, <1>4 DEF OnboardingInv, JobsFit, Paid
<1>6. \A b \in Applications : app'[b] = "PROVISIONED" <=> app[b] = "PROVISIONED"
  BY <1>1, <1>4
<1>7. HotelsHaveTheirOwner'
  BY <1>6 DEF OnboardingInv, HotelsHaveTheirOwner
<1>8. StaysPaid
  BY <1>1, <1>4 DEF OnboardingInv, JobsFit, StaysPaid
<1> QED
  BY <1>2, <1>3, <1>5, <1>7, <1>8 DEF OnboardingInv

\* The fields of a job, also of one whose lease is released.
LEMMA JobKinds ==
    ASSUME OnboardingInv, NEW a \in Applications
    PROVE  /\ job[a] \in JobRow /\ NoJob \in JobRow /\ NoJob.state = "NONE" /\ NoJob.lease = Nobody
           /\ ~NoJob.live /\ NoJob.due
           /\ \A w \in Provisioners :
                 /\ Released(job[a], w) \in JobRow /\ Released(job[a], w).state = job[a].state
                 /\ job[a] = NoJob => Released(job[a], w) = NoJob
<1>1. job[a] \in JobRow
  BY DEF OnboardingInv, HotelRecords
<1>2. NoJob \in JobRow /\ NoJob.state = "NONE" /\ NoJob.lease = Nobody /\ ~NoJob.live /\ NoJob.due
  BY OnboardingAssumption DEF NoJob, JobRow
<1>3. ASSUME NEW w \in Provisioners
      PROVE  /\ Released(job[a], w) \in JobRow /\ Released(job[a], w).state = job[a].state
             /\ job[a] = NoJob => Released(job[a], w) = NoJob
  <2> DEFINE free == [job[a] EXCEPT !.lease = Nobody, !.live = FALSE]
  <2>1. free \in JobRow /\ free.state = job[a].state
    BY <1>1 DEF JobRow
  <2>2. Released(job[a], w) = IF job[a].lease = w THEN free ELSE job[a]
    BY DEF Released
  <2>3. job[a] = NoJob => job[a].lease # w
    BY <1>2, OnboardingAssumption
  <2> HIDE DEF free
  <2> QED
    BY <1>1, <2>1, <2>2, <2>3
<1> QED
  BY <1>1, <1>2, <1>3

\* What happens to a job without a worker of its own.
LEMMA JobStepKeeps ==
    ASSUME OnboardingInv, NEW a \in Applications, JobStep(a) PROVE OnboardingInv' /\ StaysPaid
<1>1. /\ phoned' = phoned /\ proved' = proved /\ vouched' = vouched /\ paidBy' = paidBy
      /\ billed' = billed /\ attempt' = attempt /\ calls' = calls
      /\ bankInvoice' = bankInvoice /\ answer' = answer /\ account' = account /\ owner' = owner
      /\ runs' = runs /\ runs \in [Provisioners -> Applications \cup {Nobody}]
  BY DEF JobStep, GiveUp, LeaseLapses, BackoffEnds, ManualRetry, applicationVars, invoiceVars, identityVars,
         provisionVars, OnboardingInv, HotelRecords
<1>2. job[a] \in JobRow
  BY JobKinds
<1>3. PICK j, s :
        /\ j \in JobRow /\ job' = [job EXCEPT ![a] = j] /\ app' = [app EXCEPT ![a] = s]
        /\ \/ /\ job[a].state = "OPEN" /\ j.state = "OPEN"
              /\ s \in Waiting \cup {"PAID_OWNER_VERIFICATION_REQUIRED"}
           \/ j.state = job[a].state /\ s = app[a]
        /\ job[a] = NoJob => j = NoJob
  <2>1. CASE GiveUp(a)
    <3>1. job' = [job EXCEPT ![a] = job[a]] /\ app' = [app EXCEPT ![a] = "PROVISIONING_FAILED"]
          /\ job[a].state = "OPEN"
      BY <2>1 DEF GiveUp, Exhausted, provisionVars, OnboardingInv, HotelRecords
    <3> QED
      BY <1>2, <3>1 DEF Waiting
  <2>2. CASE LeaseLapses(a)
    <3> DEFINE j == [job[a] EXCEPT !.live = FALSE]
    <3>1. job' = [job EXCEPT ![a] = j] /\ app' = [app EXCEPT ![a] = app[a]] /\ job[a].lease # Nobody
      BY <2>2 DEF LeaseLapses, Held, applicationVars, OnboardingInv, HotelRecords, ApplicationRecords
    <3>2. j \in JobRow /\ j.state = job[a].state
      BY <1>2 DEF JobRow
    <3> HIDE DEF j
    <3> QED
      BY <3>1, <3>2, JobKinds
  <2>3. CASE BackoffEnds(a)
    <3> DEFINE j == [job[a] EXCEPT !.due = TRUE]
    <3>1. job' = [job EXCEPT ![a] = j] /\ app' = [app EXCEPT ![a] = app[a]] /\ ~job[a].due
      BY <2>3 DEF BackoffEnds, applicationVars, OnboardingInv, HotelRecords, ApplicationRecords
    <3>2. j \in JobRow /\ j.state = job[a].state
      BY <1>2 DEF JobRow
    <3> HIDE DEF j
    <3> QED
      BY <3>1, <3>2, JobKinds
  <2>4. CASE ManualRetry(a)
    <3> DEFINE again == [job[a] EXCEPT !.tries = 0, !.due = TRUE, !.lease = Nobody, !.live = FALSE]
               j == IF job[a].state = "OPEN" THEN again ELSE job[a]
    <3>1. job' = [job EXCEPT ![a] = j] /\ app' = [app EXCEPT ![a] = app[a]]
      BY <2>4 DEF ManualRetry, applicationVars, OnboardingInv, HotelRecords, ApplicationRecords
    <3>2. again \in JobRow /\ again.state = job[a].state
      <4>1. 0 \in 0 .. MaxTries
        BY OnboardingAssumption
      <4> QED
        BY <1>2, <4>1 DEF JobRow
    <3> HIDE DEF again
    <3>3. j \in JobRow /\ j.state = job[a].state /\ (job[a] = NoJob => j = NoJob)
      BY <1>2, <3>2, JobKinds
    <3> HIDE DEF j
    <3> QED
      BY <3>1, <3>3
  <2> QED
    BY <2>1, <2>2, <2>3, <2>4 DEF JobStep
<1> QED
  BY <1>1, <1>3, JobMoves

\* A worker takes a job, is refused, finds a proof missing, fails or dies.
LEMMA RunKeeps ==
    ASSUME OnboardingInv, NEW w \in Provisioners, NEW a \in Applications,
           Lease(w, a) \/ ProofMissing(w, a) \/ RunRefused(w, a) \/ RunFails(w, a)
    PROVE  OnboardingInv' /\ StaysPaid
<1>1. /\ phoned' = phoned /\ proved' = proved /\ vouched' = vouched /\ paidBy' = paidBy
      /\ billed' = billed /\ attempt' = attempt /\ calls' = calls
      /\ bankInvoice' = bankInvoice /\ answer' = answer /\ account' = account /\ owner' = owner
      /\ runs' \in [Provisioners -> Applications \cup {Nobody}]
  BY DEF Lease, ProofMissing, RunRefused, RunFails, applicationVars, invoiceVars, identityVars,
         OnboardingInv, HotelRecords
<1>2. job[a] \in JobRow
  BY JobKinds
<1> DEFINE free == Released(job[a], w)
<1>3. free \in JobRow /\ free.state = job[a].state /\ (job[a] = NoJob => free = NoJob)
  BY JobKinds
<1>4. job \in [Applications -> JobRow] /\ app \in [Applications -> AppStates]
  BY DEF OnboardingInv, HotelRecords, ApplicationRecords
<1>5. PICK j, s :
        /\ j \in JobRow /\ job' = [job EXCEPT ![a] = j] /\ app' = [app EXCEPT ![a] = s]
        /\ \/ /\ job[a].state = "OPEN" /\ j.state = "OPEN"
              /\ s \in Waiting \cup {"PAID_OWNER_VERIFICATION_REQUIRED"}
           \/ j.state = job[a].state /\ s = app[a]
        /\ job[a] = NoJob => j = NoJob
  <2>1. CASE Lease(w, a)
    <3> DEFINE j == [job[a] EXCEPT !.tries = job[a].tries + 1, !.lease = w, !.live = TRUE]
    <3>1. job' = [job EXCEPT ![a] = j] /\ app' = [app EXCEPT ![a] = "PROVISIONING"]
          /\ job[a].state = "OPEN" /\ job[a].tries < MaxTries
      BY <1>4, <2>1 DEF Lease, Takes
    <3>2. j \in JobRow /\ j.state = job[a].state
      <4>1. job[a].tries \in 0 .. MaxTries /\ job[a].tries + 1 \in 0 .. MaxTries
        BY <1>2, <3>1, OnboardingAssumption DEF JobRow
      <4> QED
        BY <1>2, <4>1 DEF JobRow
    <3> HIDE DEF j
    <3> QED
      BY <3>1, <3>2, JobKinds DEF Waiting
  <2>2. CASE ProofMissing(w, a)
    <3>1. /\ app' = [app EXCEPT ![a] = "PAID_OWNER_VERIFICATION_REQUIRED"]
          /\ job' \in {job, [job EXCEPT ![a] = free]}
          /\ job[a].state = "OPEN"
      BY <1>4, <2>2 DEF ProofMissing, MayFinish
    <3> HIDE DEF free
    <3>2. CASE job' = job
      <4>1. job' = [job EXCEPT ![a] = job[a]]
        BY <1>4, <3>2
      <4> QED
        BY <1>2, <3>1, <4>1
    <3>3. CASE job' = [job EXCEPT ![a] = free]
      BY <1>3, <3>1, <3>3
    <3> QED
      BY <3>1, <3>2, <3>3
  <2>3. CASE RunRefused(w, a)
    <3> DEFINE j == IF app[a] = "PROVISIONED" THEN free ELSE job[a]
    <3>1. job' = [job EXCEPT ![a] = j] /\ app' = [app EXCEPT ![a] = app[a]]
      BY <1>4, <2>3 DEF RunRefused, applicationVars
    <3> HIDE DEF free
    <3>2. j \in JobRow /\ j.state = job[a].state /\ (job[a] = NoJob => j = NoJob)
      BY <1>2, <1>3
    <3> HIDE DEF j
    <3> QED
      BY <3>1, <3>2
  <2>4. CASE RunFails(w, a)
    <3>1. CASE job[a].state = "OPEN" /\ job[a].lease = w
      <4> DEFINE j == [free EXCEPT !.due = FALSE]
      <4>1. job' = [job EXCEPT ![a] = j] /\ app' = [app EXCEPT ![a] = "PROVISIONING_FAILED"]
        BY <1>4, <2>4, <3>1 DEF RunFails
      <4> HIDE DEF free
      <4>2. j \in JobRow /\ j.state = job[a].state
        BY <1>3 DEF JobRow
      <4> HIDE DEF j
      <4> QED
        BY <3>1, <4>1, <4>2, JobKinds DEF Waiting
    <3>2. CASE ~(job[a].state = "OPEN" /\ job[a].lease = w)
      <4>1. job' = [job EXCEPT ![a] = job[a]] /\ app' = [app EXCEPT ![a] = app[a]]
        BY <1>4, <2>4, <3>2 DEF RunFails
      <4> QED
        BY <1>2, <4>1
    <3> QED
      BY <3>1, <3>2
  <2> QED
    BY <2>1, <2>2, <2>3, <2>4
<1> QED
  BY <1>1, <1>5, JobMoves

\* Hotel, account and owner in one commit: whoever has one already was proved to be it.
LEMMA ProvisionKeeps ==
    ASSUME OnboardingInv, NEW w \in Provisioners, NEW a \in Applications, Provision(w, a)
    PROVE  OnboardingInv' /\ StaysPaid
<1> DEFINE e == EmailOf[a]
           j == [Released(job[a], w) EXCEPT !.state = "DONE"]
           s == IF account[e] = "NONE" THEN "PENDING" ELSE account[e]
<1>1. /\ phoned' = phoned /\ proved' = proved /\ vouched' = vouched /\ paidBy' = paidBy
      /\ billed' = billed /\ attempt' = attempt /\ calls' = calls
      /\ bankInvoice' = bankInvoice /\ answer' = answer
      /\ runs' = [runs EXCEPT ![w] = Nobody]
      /\ owner' = IF owner = Nobody THEN e ELSE owner
  BY DEF Provision, invoiceVars
<1>2. e \in Emails /\ e # Nobody
  BY OnboardingAssumption DEF Emails
<1>3. account' = [account EXCEPT ![e] = s] /\ s \in {"PENDING", "ACTIVE"} /\ (account[e] # "NONE" => s = account[e])
  BY <1>2 DEF Provision, OnboardingInv, HotelRecords
<1>4. job' = [job EXCEPT ![a] = j] /\ app' = [app EXCEPT ![a] = "PROVISIONED"] /\ job[a].state = "OPEN"
      /\ job \in [Applications -> JobRow] /\ app \in [Applications -> AppStates]
      /\ account \in [Emails -> {"NONE", "PENDING", "ACTIVE"}]
  BY DEF Provision, MayFinish, OnboardingInv, HotelRecords, ApplicationRecords
<1>5. j \in JobRow /\ j.state = "DONE"
  <2> DEFINE free == Released(job[a], w)
  <2>1. free \in JobRow
    BY JobKinds
  <2>2. j = [free EXCEPT !.state = "DONE"]
    OBVIOUS
  <2> HIDE DEF free, j
  <2> QED
    BY <2>1, <2>2 DEF JobRow
<1> HIDE DEF e, j, s
<1>6. /\ job'[a] = j /\ app'[a] = "PROVISIONED" /\ account'[e] # "NONE" /\ owner' # Nobody /\ owner' \in Emails
      /\ \A b \in Applications \ {a} : job'[b] = job[b] /\ app'[b] = app[b]
      /\ \A d \in Emails : account[d] # "NONE" => account'[d] # "NONE"
      /\ owner # Nobody => owner' = owner
  BY <1>1, <1>2, <1>3, <1>4 DEF OnboardingInv, HotelRecords
<1>7. ApplicationRecords'
  BY <1>1, <1>4 DEF OnboardingInv, ApplicationRecords, AppStates
<1>8. InvoiceRecords' /\ InvoicesFit' /\ CaptureFits'
  BY <1>1 DEF OnboardingInv, InvoiceRecords, InvoicesFit, CaptureFits
<1>9. HotelRecords'
  BY <1>1, <1>2, <1>3, <1>4, <1>5, <1>6 DEF OnboardingInv, HotelRecords
<1>10. JobsFit'
  <2> SUFFICES ASSUME NEW b \in Applications
               PROVE  /\ job'[b].state = "NONE" => job'[b] = NoJob
                      /\ job'[b].state # "NONE" => Paid(b)'
                      /\ Paid(b)' => app'[b] \notin Unpaid
                      /\ app'[b] = "PROVISIONING" => job'[b].state = "OPEN"
                      /\ app'[b] = "PROVISIONED" <=> job'[b].state = "DONE"
                      /\ app'[b] = "PROVISIONED" => account'[EmailOf[b]] # "NONE" /\ owner' # Nobody
    BY DEF JobsFit
  <2>1. CASE b = a
    <3>1. paidBy'[b] # NoInvoice
      BY <1>1, <1>4, <2>1 DEF OnboardingInv, JobsFit, Paid
    <3> QED
      BY <1>5, <1>6, <2>1, <3>1 DEF Paid, Unpaid, e
  <2>2. CASE b # a
    <3>1. EmailOf[b] \in Emails
      BY DEF Emails
    <3> QED
      BY <1>1, <1>6, <2>2, <3>1 DEF OnboardingInv, JobsFit, Paid
  <2> QED
    BY <2>1, <2>2
<1>11. HotelsHaveTheirOwner'
  <2>1. Proof(a)
    BY DEF Provision, ProofHolds
  <2>2. ASSUME NEW b \in Applications, b # a, app[b] = "PROVISIONED"
        PROVE  /\ EmailOf[b] = e => proved[a]
               /\ vouched[a] = "PROVED" \/ (proved[a] /\ owner = e /\ owner' = owner)
    <3>1. account[EmailOf[b]] # "NONE" /\ owner # Nobody
      BY <2>2 DEF OnboardingInv, JobsFit
    <3>2. EmailOf[b] = e => proved[a]
      BY <2>1, <3>1 DEF Proof, AccountProved, e
    <3>3. vouched[a] = "PROVED" \/ (proved[a] /\ owner = e)
      BY <2>1, <3>1 DEF Proof, e
    <3> QED
      BY <1>6, <3>1, <3>2, <3>3
  <2> SUFFICES ASSUME NEW b \in Applications, NEW c \in Applications, b # c,
                      app'[b] = "PROVISIONED", app'[c] = "PROVISIONED"
               PROVE  /\ EmailOf[b] = EmailOf[c] => proved'[b] \/ proved'[c]
                      /\ \/ vouched'[b] = "PROVED" \/ vouched'[c] = "PROVED"
                         \/ proved'[b] /\ owner' = EmailOf[b]
                         \/ proved'[c] /\ owner' = EmailOf[c]
    <3>1. \A b, c \in Applications : {app'[b], app'[c]} = {"PROVISIONED"}
            => app'[b] = "PROVISIONED" /\ app'[c] = "PROVISIONED"
      OBVIOUS
    <3> QED
      BY <3>1 DEF HotelsHaveTheirOwner
  <2>3. CASE b = a
    <3>1. app[c] = "PROVISIONED"
      BY <1>6, <2>3
    <3> QED
      BY <1>1, <2>2, <2>3, <3>1 DEF e
  <2>4. CASE c = a
    <3>1. app[b] = "PROVISIONED"
      BY <1>6, <2>4
    <3> QED
      BY <1>1, <2>2, <2>4, <3>1 DEF e
  <2>5. CASE b # a /\ c # a
    <3>1. app[b] = "PROVISIONED" /\ app[c] = "PROVISIONED"
      BY <1>6, <2>5
    <3>2. owner # Nobody /\ owner' = owner
      BY <1>6, <3>1 DEF OnboardingInv, JobsFit
    <3>3. {app[b], app[c]} = {"PROVISIONED"}
      BY <3>1
    <3> QED
      BY <1>1, <3>2, <3>3 DEF OnboardingInv, HotelsHaveTheirOwner
  <2> QED
    BY <2>3, <2>4, <2>5
<1>12. StaysPaid
  BY <1>1, <1>6 DEF OnboardingInv, JobsFit, StaysPaid, Unpaid
<1> QED
  BY <1>7, <1>8, <1>9, <1>10, <1>11, <1>12 DEF OnboardingInv

\* Only the runs change.
LEMMA RunsChange ==
    ASSUME OnboardingInv, runs' \in [Provisioners -> Applications \cup {Nobody}],
           app' = app, phoned' = phoned, proved' = proved, vouched' = vouched, paidBy' = paidBy,
           billed' = billed, attempt' = attempt, calls' = calls, bankInvoice' = bankInvoice,
           answer' = answer, account' = account, owner' = owner, job' = job
    PROVE  OnboardingInv' /\ StaysPaid
<1>1. ApplicationRecords' /\ InvoiceRecords' /\ HotelRecords'
  BY DEF OnboardingInv, ApplicationRecords, InvoiceRecords, HotelRecords
<1>2. InvoicesFit' /\ CaptureFits' /\ HotelsHaveTheirOwner'
  BY DEF OnboardingInv, InvoicesFit, CaptureFits, HotelsHaveTheirOwner
<1>3. JobsFit'
  BY DEF OnboardingInv, JobsFit, Paid
<1>4. StaysPaid
  BY DEF OnboardingInv, JobsFit, StaysPaid
<1> QED
  BY <1>1, <1>2, <1>3, <1>4 DEF OnboardingInv

-----------------------------------------------------------------------------
\* Every step keeps the invariant and what is paid.
LEMMA OnboardingStepKeeps ==
    ASSUME OnboardingInv, [OnboardingNext]_onboardingVars
    PROVE  OnboardingInv' /\ StaysPaid
<1>1. CASE UNCHANGED onboardingVars
  <2>1. runs' \in [Provisioners -> Applications \cup {Nobody}]
    BY <1>1 DEF onboardingVars, provisionVars, OnboardingInv, HotelRecords
  <2>2. /\ app' = app /\ phoned' = phoned /\ proved' = proved /\ vouched' = vouched /\ paidBy' = paidBy
        /\ billed' = billed /\ attempt' = attempt /\ calls' = calls /\ bankInvoice' = bankInvoice
        /\ answer' = answer /\ account' = account /\ owner' = owner /\ job' = job
    BY <1>1 DEF onboardingVars, applicationVars, invoiceVars, identityVars, provisionVars
  <2> QED
    BY <2>1, <2>2, RunsChange
<1>2. ASSUME NEW a \in Applications, Applicant(a) PROVE OnboardingInv' /\ StaysPaid
  BY <1>2, ApplicantKeeps, RequestInvoiceKeeps DEF Applicant
<1>3. ASSUME NEW a \in Applications, JobStep(a) PROVE OnboardingInv' /\ StaysPaid
  BY <1>3, JobStepKeeps
<1>4. ASSUME NEW i \in Invoices, InvoiceStep(i) PROVE OnboardingInv' /\ StaysPaid
  <2>1. CASE ApplyHeard(i)
    BY <2>1, FirstCaptureKeeps, OtherAnswerKeeps
  <2>2. CASE ~ApplyHeard(i)
    BY <1>4, <2>2, BankKeeps, StoreInvoiceKeeps DEF InvoiceStep
  <2> QED
    BY <2>1, <2>2
<1>5. ASSUME NEW w \in Provisioners, RunCrashes(w) PROVE OnboardingInv' /\ StaysPaid
  <2>1. runs' \in [Provisioners -> Applications \cup {Nobody}]
    BY <1>5 DEF RunCrashes, OnboardingInv, HotelRecords
  <2>2. /\ app' = app /\ phoned' = phoned /\ proved' = proved /\ vouched' = vouched /\ paidBy' = paidBy
        /\ billed' = billed /\ attempt' = attempt /\ calls' = calls /\ bankInvoice' = bankInvoice
        /\ answer' = answer /\ account' = account /\ owner' = owner /\ job' = job
    BY <1>5 DEF RunCrashes, applicationVars, invoiceVars, identityVars
  <2> QED
    BY <2>1, <2>2, RunsChange
<1>6. ASSUME NEW w \in Provisioners, NEW a \in Applications, RunStep(w, a) PROVE OnboardingInv' /\ StaysPaid
  BY <1>6, RunKeeps, ProvisionKeeps DEF RunStep
<1>7. ASSUME NEW e \in Emails, Activate(e) PROVE OnboardingInv' /\ StaysPaid
  BY <1>7, ActivateKeeps
<1> QED
  BY <1>1, <1>2, <1>3, <1>4, <1>5, <1>6, <1>7 DEF OnboardingNext

\* The invariant holds always.
LEMMA OnboardingInvariance == OnboardingSpec => []OnboardingInv
<1>1. OnboardingInv /\ [OnboardingNext]_onboardingVars => OnboardingInv'
  BY OnboardingStepKeeps
<1> QED
  BY <1>1, InitOnboardingInv, PTL DEF OnboardingSpec

\* It says what OnboardingTypeOK does.
LEMMA OnboardingTypes == OnboardingInv => OnboardingTypeOK
<1> SUFFICES ASSUME OnboardingInv PROVE OnboardingTypeOK
  OBVIOUS
<1>1. {phoned, proved} \subseteq [Applications -> BOOLEAN]
  BY DEF OnboardingInv, ApplicationRecords
<1>2. {bankInvoice, answer} \subseteq [Invoices -> {"NONE"} \cup BankStates]
  BY DEF OnboardingInv, InvoiceRecords
<1> QED
  BY <1>1, <1>2 DEF OnboardingInv, ApplicationRecords, InvoiceRecords, HotelRecords, OnboardingTypeOK,
                    AppStates, AttemptStates, JobRow

\* Applications, invoices, jobs and the account and owner of a hotel are of their kinds.
THEOREM OnboardingIsTyped == OnboardingSpec => []OnboardingTypeOK
<1>1. OnboardingInv => OnboardingTypeOK
  BY OnboardingTypes
<1> QED
  BY <1>1, OnboardingInvariance, PTL

\* An application that is provisioned has a job, so a worker, a later pass or the end of a
\* backoff deals with it.
LEMMA HotelsOpen == OnboardingInv => PaidHotelsOpen
<1> SUFFICES ASSUME OnboardingInv PROVE PaidHotelsOpen
  OBVIOUS
<1>1. CaptureIsKept
  <2> SUFFICES ASSUME NEW a \in Applications
               PROVE  /\ \A i \in InvoicesOf(a) : attempt[i] = "PAID" <=> paidBy[a] = i
                      /\ \A i, j \in InvoicesOf(a) : {attempt[i], attempt[j]} \subseteq Open => i = j
                      /\ \A i \in InvoicesOf(a) : attempt[i] = "RECONCILE" => Paid(a)
    BY DEF CaptureIsKept
  <2>1. a # Nobody
    BY OnboardingAssumption
  <2>2. \A i \in InvoicesOf(a) : i \in Invoices /\ billed[i] = a
    BY DEF InvoicesOf
  <2> QED
    BY <2>1, <2>2 DEF OnboardingInv, CaptureFits, Paid
<1>2. RunIsNotStranded
  <2> SUFFICES ASSUME NEW a \in Applications, app[a] = "PROVISIONING" PROVE InReach(a)
    BY DEF RunIsNotStranded
  <2>1. job[a].state = "OPEN" /\ job[a] \in JobRow
    BY JobKinds DEF OnboardingInv, JobsFit
  <2>2. job[a].tries \in Nat
    BY <2>1, OnboardingAssumption DEF JobRow
  <2>3. job[a].tries < MaxTries \/ job[a].tries >= MaxTries
    BY <2>2, OnboardingAssumption
  <2> QED
    BY <2>1, <2>3 DEF InReach, Takes, Exhausted, Waiting
<1> QED
  BY <1>1, <1>2 DEF OnboardingInv, PaidHotelsOpen

\* What was paid for is kept, belongs to whom it was proved to, and is not stranded.
THEOREM PaidApplicationsOpen == OnboardingSpec => []PaidHotelsOpen
<1>1. OnboardingInv => PaidHotelsOpen
  BY HotelsOpen
<1> QED
  BY <1>1, OnboardingInvariance, PTL

\* A paid application never asks for money again.
THEOREM PaidIsFinal == OnboardingSpec => PaidStaysPaid
<1>1. OnboardingInv /\ [OnboardingNext]_onboardingVars => [StaysPaid]_onboardingVars
  BY OnboardingStepKeeps
<1> QED
  BY <1>1, OnboardingInvariance, PTL DEF OnboardingSpec, PaidStaysPaid, StaysPaid

=============================================================================
