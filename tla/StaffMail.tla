----------------------------- MODULE StaffMail -----------------------------
(***************************************************************************)
(* The mail of invitations and resets: an intent is written with its link, *)
(* leased by a worker, prepared from the present state of the link, handed *)
(* to SMTP outside any transaction, and settled by the worker if it still  *)
(* holds the lease.  Workers may be slow or die at any point.              *)
(*                                                                         *)
(* The link itself is StaffIdentity's; here it is current or not.          *)
(***************************************************************************)
EXTENDS Naturals, FiniteSets

CONSTANTS
    Letters,      \* staff_mail_intent
    Postmen,      \* mail workers
    NoPostman,    \* no worker
    MaxAttempts   \* max_attempts

ASSUME MailAssumption == MaxAttempts \in Nat \ {0} /\ NoPostman \notin Postmen

VARIABLES
    current,    \* the letters whose link is active, fits its member and is not elapsed
    intent,     \* staff_mail_intent: state, attempts, lease and whether it still runs
    resting,    \* the letters whose next_attempt_at lies ahead
    round,      \* what each worker is doing with which letter
    sent        \* how often the transport took the letter

mailVars == <<current, intent, resting, round, sent>>

Idle == [letter |-> "NONE", step |-> "IDLE"]
Steps == {"CLAIMED", "PREPARED", "DELIVERED", "DISCARDED", "RETRY", "DEAD"}
Ended == {"DELIVERED", "DISCARDED", "DEAD"}

MailTypeOK ==
    /\ current \subseteq Letters
    /\ intent \in [Letters -> [state : {"NONE", "WAITING"} \cup Ended, attempts : 0 .. MaxAttempts,
                               lease : Postmen \cup {NoPostman}, runs : BOOLEAN]]
    /\ resting \subseteq Letters
    /\ \A w \in Postmen :
          round[w] = Idle \/ (round[w].letter \in Letters /\ round[w].step \in Steps)
    /\ sent \in [Letters -> 0 .. MaxAttempts]
    /\ \A i \in Letters : sent[i] <= intent[i].attempts
          /\ (intent[i].state = "DELIVERED" => sent[i] >= 1)
          /\ (intent[i].state \in Ended => intent[i].lease = NoPostman)

MailInit ==
    /\ current = {}
    /\ intent = [i \in Letters |-> [state |-> "NONE", attempts |-> 0, lease |-> NoPostman, runs |-> FALSE]]
    /\ resting = {}
    /\ round = [w \in Postmen |-> Idle]
    /\ sent = [i \in Letters |-> 0]

-----------------------------------------------------------------------------
(* The link.                                                               *)

WriteIntent(i) ==
    /\ intent[i].state = "NONE"
    /\ intent' = [intent EXCEPT ![i].state = "WAITING"]
    /\ current' = current \cup {i}
    /\ UNCHANGED <<resting, round, sent>>

\* Superseded, revoked, consumed or elapsed; never current again.
LinkGoes(i) ==
    /\ i \in current
    /\ current' = current \ {i}
    /\ UNCHANGED <<intent, resting, round, sent>>

-----------------------------------------------------------------------------
(* The leases.                                                             *)

LeaseFree(i) == intent[i].lease = NoPostman \/ ~intent[i].runs

\* Mutant: a letter is exhausted only when its last worker settled it.
SpentIfSettled(i) ==
    intent[i].state = "WAITING" /\ intent[i].attempts >= MaxAttempts /\ intent[i].lease = NoPostman

SpentLetter(i) ==
    intent[i].state = "WAITING" /\ intent[i].attempts >= MaxAttempts /\ LeaseFree(i)

Due(i) ==
    /\ intent[i].state = "WAITING" /\ i \notin resting
    /\ LeaseFree(i) /\ intent[i].attempts < MaxAttempts

\* Crashed last attempts become dead letters first; then one letter is leased.
Swept ==
    [i \in Letters |-> IF SpentLetter(i)
        THEN [intent[i] EXCEPT !.state = "DEAD", !.lease = NoPostman, !.runs = FALSE] ELSE intent[i]]

Claim(w) ==
    /\ round[w] = Idle
    /\ \/ \E i \in Letters :
             /\ Due(i)
             /\ intent' = [Swept EXCEPT ![i] =
                   [@ EXCEPT !.lease = w, !.runs = TRUE, !.attempts = intent[i].attempts + 1]]
             /\ round' = [round EXCEPT ![w] = [letter |-> i, step |-> "CLAIMED"]]
       \/ /\ \A i \in Letters : ~Due(i)
          /\ \E i \in Letters : SpentLetter(i)
          /\ intent' = Swept
          /\ UNCHANGED round
    /\ UNCHANGED <<current, resting, sent>>

ClaimLapses(i) ==
    /\ intent[i].runs
    /\ intent' = [intent EXCEPT ![i].runs = FALSE]
    /\ UNCHANGED <<current, resting, round, sent>>

PauseEnds(i) ==
    /\ i \in resting
    /\ resting' = resting \ {i}
    /\ UNCHANGED <<current, intent, round, sent>>

-----------------------------------------------------------------------------
(* One round of a worker.                                                  *)

Turn(w, step) == round' = [round EXCEPT ![w].step = step]

\* A letter whose link is gone, or that was delivered meanwhile, is not written; a
\* letter whose token was made with another key is given up.
Prepare(w) ==
    LET i == round[w].letter IN
    /\ round[w].step = "CLAIMED"
    /\ IF i \in current /\ intent[i].state # "DELIVERED"
       THEN \E step \in {"PREPARED", "DEAD"} : Turn(w, step)
       ELSE Turn(w, "DISCARDED")
    /\ UNCHANGED <<current, intent, resting, sent>>

\* The transport takes the letter, refuses it for good, or fails; a letter it took
\* may be reported as failed.  The attempts are those of the claim.
Transport(w) ==
    LET i == round[w].letter IN
    /\ round[w].step = "PREPARED"
    /\ \E taken \in BOOLEAN, outcome \in {"DELIVERED", "RETRY", "DEAD"} :
          /\ outcome = "DELIVERED" => taken
          /\ sent' = [sent EXCEPT ![i] = IF taken THEN @ + 1 ELSE @]
          /\ Turn(w, outcome)
    /\ UNCHANGED <<current, intent, resting>>

\* Mutant: the worker settles the letter it had, whoever holds the lease.
HeldOnce(w) == TRUE

HoldsLease(w) == intent[round[w].letter].lease = w /\ intent[round[w].letter].runs

Outcome(w) ==
    LET i == round[w].letter IN
    IF round[w].step \in Ended THEN round[w].step
    ELSE IF intent[i].attempts >= MaxAttempts THEN "DEAD" ELSE "WAITING"

Settle(w) ==
    LET i == round[w].letter IN
    /\ round[w].step \in Ended \cup {"RETRY"}
    /\ IF HoldsLease(w)
       THEN /\ intent' = [intent EXCEPT ![i] =
                  [@ EXCEPT !.state = Outcome(w), !.lease = NoPostman, !.runs = FALSE]]
            /\ resting' = resting \cup {i}
       ELSE UNCHANGED <<intent, resting>>
    /\ round' = [round EXCEPT ![w] = Idle]
    /\ UNCHANGED <<current, sent>>

PostmanDies(w) ==
    /\ round[w] # Idle
    /\ round' = [round EXCEPT ![w] = Idle]
    /\ UNCHANGED <<current, intent, resting, sent>>

-----------------------------------------------------------------------------
LetterStep(i) == WriteIntent(i) \/ LinkGoes(i) \/ ClaimLapses(i) \/ PauseEnds(i)

PostmanStep(w) == Claim(w) \/ Prepare(w) \/ Transport(w) \/ Settle(w) \/ PostmanDies(w)

MailNext == (\E i \in Letters : LetterStep(i)) \/ (\E w \in Postmen : PostmanStep(w))

\* The worker is scheduled again and again, leases and pauses are intervals of time;
\* no worker must ever finish a round.
MailFairness ==
    /\ \A i \in Letters : WF_mailVars(ClaimLapses(i)) /\ WF_mailVars(PauseEnds(i))
    /\ \A w \in Postmen :
          /\ WF_mailVars(Claim(w)) /\ WF_mailVars(Prepare(w))
          /\ WF_mailVars(Transport(w)) /\ WF_mailVars(Settle(w))

MailSpec == MailInit /\ [][MailNext]_mailVars /\ MailFairness

-----------------------------------------------------------------------------
(* Properties.                                                             *)

\* However late workers come back with whatever outcome, a letter that was delivered,
\* discarded or given up is never queued again.
MailEndsOnce ==
    [][\A i \in Letters : intent[i].state \in Ended => intent'[i].state = intent[i].state]_mailVars

\* No letter waits forever, not even one whose last worker died.
MailIsSettled == []<>(\A i \in Letters : intent[i].state # "WAITING")

=============================================================================
