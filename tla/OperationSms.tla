---------------------------- MODULE OperationSms ----------------------------
(***************************************************************************)
(* The platform's subscription reminders by SMS.  A delivery is claimed in *)
(* one transaction, sent or looked up outside any, and settled in another; *)
(* a claim that nobody settled becomes UNKNOWN after five minutes and is   *)
(* only looked up from then on.  People cancel, and retry what failed.     *)
(*                                                                         *)
(* One recipient of one draft is modelled: deliveries share no state.      *)
(***************************************************************************)
EXTENDS Naturals, FiniteSets

CONSTANTS
    Carriers,   \* workers that run sms_once
    MaxSends    \* attempts of a delivery, 3 in the code

ASSUME SmsAssumption == MaxSends \in Nat \ {0}

Sends == 1 .. MaxSends

VARIABLES
    draft,       \* operation_sms_draft
    delivery,    \* operation_sms_delivery, and whether updated_at is 5 minutes old
    errand,      \* what each worker read, does and was answered
    message      \* the provider's message of every attempt

smsVars == <<draft, delivery, errand, message>>

Over == {"DELIVERED", "FAILED", "CANCELLED"}
NoErrand == [step |-> "NONE", attempt |-> 0, sends |-> FALSE, answer |-> "NONE"]

Deliveries ==
    [state : {"NONE", "QUEUED", "SENDING", "UNKNOWN", "SENT"} \cup Over,
     attempts : 0 .. MaxSends, old : BOOLEAN]
Errands ==
    [step : {"NONE", "ASKING", "ANSWERED"}, attempt : 0 .. MaxSends, sends : BOOLEAN,
     answer : {"NONE", "SENT", "DELIVERED", "FAILED", "UNKNOWN"}]

SmsTypeOK ==
    /\ draft \in {"NONE", "PREVIEW", "STALE", "SENT"}
    /\ delivery \in Deliveries
    /\ errand \in [Carriers -> Errands]
    /\ message \in [Sends -> {"NONE", "SENT", "DELIVERED", "FAILED"}]

SmsInit ==
    /\ draft = "NONE"
    /\ delivery = [state |-> "NONE", attempts |-> 0, old |-> FALSE]
    /\ errand = [w \in Carriers |-> NoErrand]
    /\ message = [k \in Sends |-> "NONE"]

-----------------------------------------------------------------------------
(* The platform's commands.                                                *)

Preview ==
    /\ draft = "NONE" /\ draft' = "PREVIEW"
    /\ UNCHANGED <<delivery, errand, message>>

\* Ten minutes, a new phone number, another expiry: the preview is not sent.
PreviewGoesStale ==
    /\ draft = "PREVIEW" /\ draft' = "STALE"
    /\ UNCHANGED <<delivery, errand, message>>

\* A draft makes at most one job.
SendDraft ==
    /\ draft = "PREVIEW" /\ draft' = "SENT"
    /\ delivery' = [delivery EXCEPT !.state = "QUEUED"]
    /\ UNCHANGED <<errand, message>>

\* The transitions the table's trigger lets pass.
MayBecome(from, to) ==
    \/ from = "QUEUED" /\ to \in {"SENDING", "CANCELLED"}
    \/ from \in {"SENDING", "UNKNOWN"} /\ to \in {"SENT", "DELIVERED", "FAILED", "UNKNOWN"}
    \/ from = "SENT" /\ to \in {"SENT", "DELIVERED", "FAILED"}
    \/ from = "FAILED" /\ to = "QUEUED"

Written(state, attempts) == [state |-> state, attempts |-> attempts, old |-> FALSE]

Cancel ==
    /\ delivery.state = "QUEUED"
    /\ delivery' = Written("CANCELLED", delivery.attempts)
    /\ UNCHANGED <<draft, errand, message>>

Retry ==
    /\ delivery.state = "FAILED" /\ delivery.attempts < MaxSends
    /\ delivery' = Written("QUEUED", delivery.attempts)
    /\ UNCHANGED <<draft, errand, message>>

-----------------------------------------------------------------------------
(* The worker.                                                             *)

FiveMinutesPass ==
    /\ delivery.state = "SENDING" /\ ~delivery.old
    /\ delivery' = [delivery EXCEPT !.old = TRUE]
    /\ UNCHANGED <<draft, errand, message>>

\* Mutant: a claim whose worker died is never taken up.
NeverInterrupted == FALSE

Interrupted == delivery.state = "SENDING" /\ delivery.old

\* A queued delivery is claimed for the next attempt, an interrupted one is UNKNOWN,
\* and whatever is not queued is only looked up.
TakeUp(w) ==
    /\ errand[w].step = "NONE"
    /\ delivery.state \in {"QUEUED", "UNKNOWN", "SENT"} \/ Interrupted
    /\ LET sends == delivery.state = "QUEUED"
           attempt == delivery.attempts + (IF sends THEN 1 ELSE 0)
       IN
       /\ delivery' = IF sends THEN Written("SENDING", attempt)
                      ELSE IF Interrupted THEN Written("UNKNOWN", attempt) ELSE delivery
       /\ errand' = [errand EXCEPT ![w] =
             [step |-> "ASKING", attempt |-> attempt, sends |-> sends, answer |-> "NONE"]]
    /\ UNCHANGED <<draft, message>>

\* The provider stores one message per attempt; any answer may be lost.
Ask(w) ==
    LET k == errand[w].attempt IN
    /\ errand[w].step = "ASKING"
    /\ \/ UNCHANGED message
       \/ /\ errand[w].sends /\ message[k] = "NONE"
          /\ message' = [message EXCEPT ![k] = "SENT"]
    /\ \E answer \in {"UNKNOWN"} \cup ({message'[k]} \ {"NONE"}) :
          errand' = [errand EXCEPT ![w].step = "ANSWERED", ![w].answer = answer]
    /\ UNCHANGED <<draft, delivery>>

\* Mutant: the answer of an older attempt settles the delivery.
AnswerIsWelcome(w) == delivery.state \notin Over

AnswerFits(w) == delivery.attempts = errand[w].attempt /\ delivery.state \notin Over

\* An uncertain lookup does not take back what is known to be sent, and an answer
\* for an attempt that was queued again fails on the trigger.
SettleAnswer(w) ==
    LET answer == errand[w].answer
        state == IF delivery.state = "SENT" /\ answer = "UNKNOWN" THEN "SENT" ELSE answer
    IN
    /\ errand[w].step = "ANSWERED"
    /\ delivery' = IF AnswerFits(w) /\ MayBecome(delivery.state, state)
                   THEN Written(state, delivery.attempts) ELSE delivery
    /\ errand' = [errand EXCEPT ![w] = NoErrand]
    /\ UNCHANGED <<draft, message>>

CarrierDies(w) ==
    /\ errand[w].step # "NONE"
    /\ errand' = [errand EXCEPT ![w] = NoErrand]
    /\ UNCHANGED <<draft, delivery, message>>

\* The provider delivers a message or gives it up.  That this is for good is assumed of
\* a provider; the mock can be told otherwise.
MessageArrives(k) ==
    /\ message[k] = "SENT"
    /\ \E state \in {"DELIVERED", "FAILED"} : message' = [message EXCEPT ![k] = state]
    /\ UNCHANGED <<draft, delivery, errand>>

-----------------------------------------------------------------------------
CarrierStep(w) == TakeUp(w) \/ Ask(w) \/ SettleAnswer(w) \/ CarrierDies(w)

SmsNext ==
    \/ Preview \/ PreviewGoesStale \/ SendDraft \/ Cancel \/ Retry \/ FiveMinutesPass
    \/ \E w \in Carriers : CarrierStep(w)
    \/ \E k \in Sends : MessageArrives(k)

\* The worker is scheduled again and again and time passes; no errand must ever end.
SmsFairness ==
    WF_smsVars(FiveMinutesPass) /\ \A w \in Carriers :
        WF_smsVars(TakeUp(w)) /\ WF_smsVars(Ask(w)) /\ WF_smsVars(SettleAnswer(w))

SmsSpec == SmsInit /\ [][SmsNext]_smsVars /\ SmsFairness

-----------------------------------------------------------------------------
(* Properties.                                                             *)

\* The hotel never gets two reminders, and none after a cancellation, however late
\* workers send, look up and settle: an attempt reaches the provider only after the
\* provider gave up the attempt before it, and what is recorded as over is over.
OneReminderArrives ==
    /\ \A k \in Sends \ {1} : message[k] # "NONE" => message[k - 1] = "FAILED"
    /\ delivery.state = "CANCELLED" => \A k \in Sends : message[k] \in {"NONE", "FAILED"}
    /\ delivery.state \in {"DELIVERED", "FAILED"} => message[delivery.attempts] = delivery.state

\* A delivery whose worker died is not left SENDING.
SendingEnds == []<>(delivery.state # "SENDING")

=============================================================================
