--------------------------- MODULE BookingPromise ---------------------------
(***************************************************************************)
(* What an online booking promises about a guest's money and the hotel's   *)
(* inventory, whatever the order of payments, expiry, cancellations and    *)
(* refunds: the claim on the category is given up once and never taken     *)
(* back, at most one payment is kept, and every payment that is not kept   *)
(* is owed in full and returned at most once.                              *)
(***************************************************************************)
EXTENDS Integers

CONSTANTS Attempt,   \* the payments that could be made
          NoAttempt, \* not one of them
          Amount     \* the price

VARIABLES
    claim,     \* the unit of inventory: offered, booked, hosted or released
    kept,      \* what the hotel keeps of each payment
    owed,      \* what the guest is owed of each payment
    returned   \* the payments whose owed part the guest got back

vars == <<claim, kept, owed, returned>>

Init ==
    /\ claim = "offered"
    /\ kept = [i \in Attempt |-> 0]
    /\ owed = [i \in Attempt |-> 0]
    /\ returned = [i \in Attempt |-> FALSE]

\* Payments S become known; k, if it is one of them, pays the booking.
Record(S, k) ==
    /\ S # {}
    /\ \A i \in S : kept[i] = 0 /\ owed[i] = 0
    /\ k \in S => claim = "offered"
    /\ kept' = [i \in Attempt |-> IF i = k THEN Amount ELSE kept[i]]
    /\ owed' = [i \in Attempt |-> IF i \in S \ {k} THEN Amount ELSE owed[i]]
    /\ claim' = IF k \in S THEN "booked"
                ELSE IF claim = "offered" THEN "released" ELSE claim
    /\ UNCHANGED returned

\* The offer ends unpaid.
Lapse ==
    /\ claim = "offered"
    /\ claim' = "released"
    /\ UNCHANGED <<kept, owed, returned>>

\* The booking ends before the stay; part r of the payment k is retained.
Cancel(k, r) ==
    /\ claim = "booked"
    /\ kept[k] = Amount
    /\ claim' = "released"
    /\ kept' = [kept EXCEPT ![k] = r]
    /\ owed' = [owed EXCEPT ![k] = Amount - r]
    /\ UNCHANGED returned

Host ==
    /\ claim = "booked"
    /\ claim' = "hosted"
    /\ UNCHANGED <<kept, owed, returned>>

Return(i) ==
    /\ owed[i] > 0
    /\ ~returned[i]
    /\ returned' = [returned EXCEPT ![i] = TRUE]
    /\ UNCHANGED <<claim, kept, owed>>

Next ==
    \/ \E S \in SUBSET Attempt : \E k \in S \cup {NoAttempt} : Record(S, k)
    \/ Lapse
    \/ \E k \in Attempt : \E r \in 0 .. Amount : Cancel(k, r)
    \/ Host
    \/ \E i \in Attempt : Return(i)

Spec == Init /\ [][Next]_vars
=============================================================================
