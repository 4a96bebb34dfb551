----------------------------- MODULE HotelProofs -----------------------------
(***************************************************************************)
(* Proofs about the records of a hotel that share nothing but its name,    *)
(* for any number of them: the deposit before check-in, payouts, the codes *)
(* of guests and the accounts of the staff; at the end they, the opening   *)
(* (OnboardingProofs) and the money of a stay (GuestMoneyProofs) are put   *)
(* together for the state space that holds them side by side.              *)
(***************************************************************************)
EXTENDS MCHotel, GuestMoneyProofs, OnboardingProofs, FiniteSums

-----------------------------------------------------------------------------
(***************************************************************************)
(* Deposits before the check-in. FundingMoneyIsKept is nearly inductive:   *)
(* what the provider was asked to return must be known to be leaving       *)
(* before the provider says so.                                            *)
(***************************************************************************)

\* A return is asked for only once the funding is on its way back.
ReturnsAreUnderWay ==
    \A f \in Fundings : fundReturn[f] # "none" => funding[f].state \in {"REFUNDING", "CANCELLED"}

FundingInv == FundingTypeOK /\ ReturnsAreUnderWay /\ FundingMoneyIsKept

\* No funding exists in the beginning.
LEMMA InitFundingInv == FundingInit => FundingInv
<1> SUFFICES ASSUME FundingInit PROVE FundingInv
  OBVIOUS
<1>1. FundingTypeOK
  BY DEF FundingInit, FundingTypeOK, FundingRows
<1>2. ReturnsAreUnderWay /\ FundingMoneyIsKept
  BY DEF FundingInit, ReturnsAreUnderWay, FundingMoneyIsKept, FundingIs
<1> QED
  BY <1>1, <1>2 DEF FundingInv

-----------------------------------------------------------------------------
(* Steps that change no row.                                               *)

LEMMA ConfigureStep == ASSUME FundingInv, ConfigureDeposit PROVE FundingInv'
<1>1. FundingTypeOK'
  BY DEF FundingInv, FundingTypeOK, ConfigureDeposit, fundProvider, fundReads
<1>2. ReturnsAreUnderWay' /\ FundingMoneyIsKept'
  BY DEF FundingInv, ReturnsAreUnderWay, FundingMoneyIsKept, FundingIs, ConfigureDeposit,
         fundProvider
<1> QED
  BY <1>1, <1>2 DEF FundingInv

\* Reading, asking and capturing never touch a voided invoice.
LEMMA ReadingStep ==
    ASSUME FundingInv, NEW f \in Fundings,
           AskAboutFunding(f) \/ FundingProviderTells(f) \/ FundingCaptured(f)
    PROVE  FundingInv'
<1> USE DEF AskAboutFunding, FundingProviderTells, FundingCaptured, fundProvider, fundReads
<1>1. FundingTypeOK'
  BY DEF FundingInv, FundingTypeOK
<1>2. \A g \in Fundings : fundInvoice[g] = "VOIDED" => fundInvoice'[g] = "VOIDED"
  BY DEF FundingInv, FundingTypeOK
<1>3. UNCHANGED <<funding, fundReturn, arrivals, owed>>
  OBVIOUS
<1>4. ReturnsAreUnderWay' /\ FundingMoneyIsKept'
  BY <1>2, <1>3 DEF FundingInv, ReturnsAreUnderWay, FundingMoneyIsKept, FundingIs
<1> QED
  BY <1>1, <1>4 DEF FundingInv

\* The provider reports a return that was asked for.
LEMMA PaidBackStep == ASSUME FundingInv, NEW f \in Fundings, FundingPaidBack(f) PROVE FundingInv'
<1> USE DEF FundingPaidBack, fundReads
<1>1. FundingTypeOK'
  BY DEF FundingInv, FundingTypeOK
<1>2. UNCHANGED <<funding, fundInvoice, arrivals, owed>>
  OBVIOUS
<1>3. /\ fundReturn[f] = "PENDING"
      /\ \A g \in Fundings \ {f} : fundReturn'[g] = fundReturn[g]
  BY DEF FundingInv, FundingTypeOK
<1>4. ReturnsAreUnderWay' /\ FundingMoneyIsKept'
  BY <1>2, <1>3 DEF FundingInv, ReturnsAreUnderWay, FundingMoneyIsKept, FundingIs
<1> QED
  BY <1>1, <1>4 DEF FundingInv

-----------------------------------------------------------------------------
(* Steps that change the row of one funding.                               *)

\* A row changes its state with its obligation, and no other row does.
LEMMA RowStep ==
    ASSUME FundingInv, NEW f \in Fundings, NEW state,
           FundingBecomes(f, state)
    PROVE  /\ funding'[f].state = state
           /\ \A g \in Fundings \ {f} : funding'[g] = funding[g]
BY DEF FundingInv, FundingTypeOK, FundingRows, FundingBecomes

LEMMA CreateStep == ASSUME FundingInv, NEW f \in Fundings, CreateFunding(f) PROVE FundingInv'
<1> USE DEF CreateFunding, fundProvider, fundReads
<1>1. FundingTypeOK'
  BY DEF FundingInv, FundingTypeOK, FundingRows
<1>2. /\ funding'[f].state \in {"PENDING", "CONFIRMED"}
      /\ \A g \in Fundings \ {f} : funding'[g] = funding[g]
  BY DEF FundingInv, FundingTypeOK
<1>3. UNCHANGED <<fundInvoice, fundReturn, arrivals>> /\ owed' = owed \cup {f}
  OBVIOUS
<1>4. ReturnsAreUnderWay' /\ FundingMoneyIsKept'
  BY <1>2, <1>3 DEF FundingInv, ReturnsAreUnderWay, FundingMoneyIsKept, FundingIs
<1> QED
  BY <1>1, <1>4 DEF FundingInv

LEMMA ConfirmStep ==
    ASSUME FundingInv, NEW f \in Fundings, ConfirmFunding(f) \/ RequestReturn(f) PROVE FundingInv'
<1> USE DEF ConfirmFunding, Confirmable, RequestReturn, fundProvider, fundReads
<1>1. PICK state \in {"CONFIRMED", "REFUNDING"} : FundingBecomes(f, state)
  OBVIOUS
<1>2. FundingTypeOK'
  BY <1>1 DEF FundingInv, FundingTypeOK, FundingRows, FundingBecomes
<1>3. UNCHANGED <<fundInvoice, fundReturn, arrivals, owed>> /\ funding[f].state \in {"PENDING", "CONFIRMED"}
  BY DEF FundingIs
<1>4. ReturnsAreUnderWay' /\ FundingMoneyIsKept'
  BY <1>1, <1>3, RowStep DEF FundingInv, ReturnsAreUnderWay, FundingMoneyIsKept, FundingIs
<1> QED
  BY <1>2, <1>4 DEF FundingInv

\* A cancelled funding leaves a void invoice, also when the transaction rolls back.
LEMMA CancelStep == ASSUME FundingInv, NEW f \in Fundings, CancelFunding(f) PROVE FundingInv'
<1>1. /\ fundInvoice' = [fundInvoice EXCEPT ![f] = "VOIDED"]
      /\ UNCHANGED <<required, fundReturn, awaiting, captured, arrivals>>
      /\ funding[f].state = "PENDING"
  BY DEF CancelFunding, FundingVoided, FundingIs, fundReads
<1>2. \/ FundingBecomes(f, "CANCELLED") /\ owed' = owed \ {f}
      \/ UNCHANGED <<funding, owed>>
  BY DEF CancelFunding
<1>3. FundingTypeOK'
  BY <1>1, <1>2 DEF FundingInv, FundingTypeOK, FundingRows, FundingBecomes
<1>4. fundInvoice'[f] = "VOIDED" /\ \A g \in Fundings \ {f} : fundInvoice'[g] = fundInvoice[g]
  BY <1>1 DEF FundingInv, FundingTypeOK
<1>5. ReturnsAreUnderWay' /\ FundingMoneyIsKept'
  <2>1. CASE FundingBecomes(f, "CANCELLED") /\ owed' = owed \ {f}
    BY <1>1, <1>4, <2>1, RowStep
    DEF FundingInv, ReturnsAreUnderWay, FundingMoneyIsKept, FundingIs
  <2>2. CASE UNCHANGED <<funding, owed>>
    BY <1>1, <1>4, <2>2 DEF FundingInv, ReturnsAreUnderWay, FundingMoneyIsKept, FundingIs
  <2> QED
    BY <1>2, <2>1, <2>2
<1> QED
  BY <1>3, <1>5 DEF FundingInv

\* A check-in uses a confirmed funding, and it is confirmed no more.
LEMMA CheckInStep == ASSUME FundingInv, NEW f \in Fundings, CheckInWith(f) PROVE FundingInv'
<1>1. /\ arrivals' = [arrivals EXCEPT ![f] = @ + 1]
      /\ FundingBecomes(f, "APPLIED") /\ owed' = owed \ {f}
      /\ UNCHANGED <<required, fundInvoice, fundReturn, awaiting, captured>>
      /\ funding[f].state = "CONFIRMED"
  BY DEF CheckInWith, FundsCheckIn, FundingIs, fundProvider, fundReads
<1>2. FundingTypeOK'
  BY <1>1 DEF FundingInv, FundingTypeOK, FundingRows, FundingBecomes
<1>3. arrivals'[f] = 1 /\ \A g \in Fundings \ {f} : arrivals'[g] = arrivals[g]
  BY <1>1 DEF FundingInv, FundingTypeOK, FundingMoneyIsKept, FundingIs
<1>4. ReturnsAreUnderWay' /\ FundingMoneyIsKept'
  BY <1>1, <1>3, RowStep DEF FundingInv, ReturnsAreUnderWay, FundingMoneyIsKept, FundingIs
<1> QED
  BY <1>2, <1>4 DEF FundingInv

\* A return ends only when the provider has paid it back.
LEMMA FinishReturnStep == ASSUME FundingInv, NEW f \in Fundings, FinishReturn(f) PROVE FundingInv'
<1>1. /\ UNCHANGED <<required, fundInvoice, awaiting, captured, arrivals>>
      /\ funding[f].state = "REFUNDING"
  BY DEF FinishReturn, FundingIs, fundReads
<1>2. \/ /\ fundReturn' = [fundReturn EXCEPT ![f] = "SUCCEEDED"]
         /\ FundingBecomes(f, "CANCELLED") /\ owed' = owed \ {f}
      \/ /\ fundReturn' = [fundReturn EXCEPT ![f] = "PENDING"]
         /\ UNCHANGED <<funding, owed>>
  BY DEF FinishReturn
<1>3. FundingTypeOK'
  <2>1. CASE /\ fundReturn' = [fundReturn EXCEPT ![f] = "SUCCEEDED"]
             /\ FundingBecomes(f, "CANCELLED") /\ owed' = owed \ {f}
    BY <1>1, <2>1 DEF FundingInv, FundingTypeOK, FundingRows, FundingBecomes
  <2>2. CASE /\ fundReturn' = [fundReturn EXCEPT ![f] = "PENDING"]
             /\ UNCHANGED <<funding, owed>>
    BY <1>1, <2>2 DEF FundingInv, FundingTypeOK
  <2> QED
    BY <1>2, <2>1, <2>2
<1>4. ReturnsAreUnderWay' /\ FundingMoneyIsKept'
  <2>1. CASE /\ fundReturn' = [fundReturn EXCEPT ![f] = "SUCCEEDED"]
             /\ FundingBecomes(f, "CANCELLED") /\ owed' = owed \ {f}
    <3>1. fundReturn'[f] = "SUCCEEDED" /\ \A g \in Fundings \ {f} : fundReturn'[g] = fundReturn[g]
      BY <2>1 DEF FundingInv, FundingTypeOK
    <3> QED
      BY <1>1, <2>1, <3>1, RowStep
      DEF FundingInv, ReturnsAreUnderWay, FundingMoneyIsKept, FundingIs
  <2>2. CASE /\ fundReturn' = [fundReturn EXCEPT ![f] = "PENDING"]
             /\ UNCHANGED <<funding, owed>>
    <3>1. fundReturn'[f] = "PENDING" /\ \A g \in Fundings \ {f} : fundReturn'[g] = fundReturn[g]
      BY <2>2 DEF FundingInv, FundingTypeOK
    <3> QED
      BY <1>1, <2>2, <3>1 DEF FundingInv, ReturnsAreUnderWay, FundingMoneyIsKept, FundingIs
  <2> QED
    BY <1>2, <2>1, <2>2
<1> QED
  BY <1>3, <1>4 DEF FundingInv

LEMMA FundingStep == ASSUME FundingInv, [FundingNext]_fundingVars PROVE FundingInv'
<1>1. CASE UNCHANGED fundingVars
  BY <1>1 DEF fundingVars, fundProvider, fundReads, FundingInv, FundingTypeOK,
              ReturnsAreUnderWay, FundingMoneyIsKept, FundingIs
<1>2. CASE FundingNext
  BY <1>2, ConfigureStep, ReadingStep, PaidBackStep, CreateStep, ConfirmStep, CancelStep,
     CheckInStep, FinishReturnStep DEF FundingNext
<1> QED
  BY <1>1, <1>2

-----------------------------------------------------------------------------
LEMMA FundingInvariance == FundingSpec => []FundingInv
  BY InitFundingInv, FundingStep, PTL DEF FundingSpec

\* Types of the fundings and of what the provider keeps.
THEOREM FundingTypes == FundingSpec => []FundingTypeOK
<1>1. FundingInv => FundingTypeOK
  BY DEF FundingInv
<1> QED
  BY <1>1, FundingInvariance, PTL

\* Whatever reconciliations, cancellations and returns interleave, a deposit taken
\* before the check-in serves one stay, or is returned, or is still the desk's
\* (CheckinFunding.load and apply, cancel, finish_return).
THEOREM FundingServesOnce == FundingSpec => []FundingMoneyIsKept
<1>1. FundingInv => FundingMoneyIsKept
  BY DEF FundingInv
<1> QED
  BY <1>1, FundingInvariance, PTL

-----------------------------------------------------------------------------
(***************************************************************************)
(* Codes of the guests. The codes of a behaviour need not be finitely      *)
(* many: those that count against the places are.                          *)
(***************************************************************************)

\* What counts against the places is finite, and a QR that is not blocked has
\* seen fewer wrong codes than block it.
AccessCounts ==
    /\ IsFiniteSet(Counted)
    /\ qr.blocked = "NO" => qr.failures < MaxFailures

AccessInv == AccessTypeOK /\ AccessCounts /\ AccessIsBounded

\* A code that opens something counts against the places.
Opens(c) == ticket[c].state \in {"CODE", "SESSION"}

-----------------------------------------------------------------------------
(* What the steps do to the tickets.                                       *)

\* Nothing is issued in the beginning.
LEMMA InitAccessInv == AccessInit => AccessInv
<1> SUFFICES ASSUME AccessInit PROVE AccessInv
  OBVIOUS
<1>1. AccessTypeOK
  <2>1. stayHere \in RoomStays /\ qr \in RoomQrs /\ NoTicket \in Tickets
    BY AccessAssumption DEF AccessInit, RoomStays, RoomQrs, Tickets, NoTicket
  <2> QED
    BY <2>1 DEF AccessInit, AccessTypeOK
<1>2. \A c \in Codes : ticket[c].state = "NONE"
  BY DEF AccessInit, NoTicket
<1>3. Counted = {}
  BY <1>2 DEF Counted
<1>4. IsFiniteSet(Counted) /\ Cardinality(Counted) = 0
  BY <1>3, FS_EmptySet
<1>5. AccessCounts
  BY <1>4, AccessAssumption DEF AccessCounts, AccessInit
<1>6. AccessIsBounded
  BY <1>2, <1>4, AccessAssumption DEF AccessIsBounded
<1> QED
  BY <1>1, <1>5, <1>6 DEF AccessInv

\* Tickets that are revoked keep their stay, the others keep everything.
LEMMA RevokedTickets ==
    ASSUME AccessInv, NEW S, ticket' = Revoking(S)
    PROVE  /\ ticket' \in [Codes -> Tickets]
           /\ \A c \in Codes : ~(c \in S) => ticket'[c] = ticket[c]
           /\ \A c \in Codes : c \in S => ticket'[c].state = "REVOKED"
<1>1. \A c \in Codes : ticket[c] \in Tickets
  BY DEF AccessInv, AccessTypeOK
<1>2. \A c \in Codes : [ticket[c] EXCEPT !.state = "REVOKED"] \in Tickets
  BY <1>1 DEF Tickets
<1>3. \A c \in Codes :
         ticket'[c] = IF c \in S THEN [ticket[c] EXCEPT !.state = "REVOKED"] ELSE ticket[c]
  BY DEF Revoking
<1>4. \A c \in Codes : c \in S => ticket'[c].state = "REVOKED"
  BY <1>1, <1>3 DEF Tickets
<1> QED
  BY <1>1, <1>2, <1>3, <1>4 DEF Revoking

\* A new code is one of those that opened nothing before.
LEMMA NewTicket ==
    ASSUME AccessInv, NEW stay \in 0 .. LastStay, NewCode(stay)
    PROVE  \E c \in Codes :
             /\ ticket' \in [Codes -> Tickets] /\ ~Opens(c)
             /\ ticket'[c].state = "CODE" /\ ticket'[c].stay = stay
             /\ \A d \in Codes \ {c} : ticket'[d] = ticket[d]
<1>1. PICK c \in Codes :
         /\ ticket[c] = NoTicket
         /\ ticket' = [ticket EXCEPT ![c] = [state |-> "CODE", stay |-> stay, qr |-> 0]]
  BY DEF NewCode
<1>2. [state |-> "CODE", stay |-> stay, qr |-> 0] \in Tickets
  BY AccessAssumption DEF Tickets
<1>3. ticket'[c] = [state |-> "CODE", stay |-> stay, qr |-> 0]
  BY <1>1 DEF AccessInv, AccessTypeOK
<1>4. ticket' \in [Codes -> Tickets]
  BY <1>1, <1>2 DEF AccessInv, AccessTypeOK
<1>5. ~Opens(c)
  BY <1>1 DEF Opens, NoTicket
<1>6. \A d \in Codes \ {c} : ticket'[d] = ticket[d]
  BY <1>1 DEF AccessInv, AccessTypeOK
<1> QED
  BY <1>3, <1>4, <1>5, <1>6

\* Steps that open nothing new keep within the places.
LEMMA FewerCount ==
    ASSUME AccessInv, stayHere'.number = stayHere.number,
           \A c \in Codes : Opens(c)' => Opens(c) /\ ticket'[c].stay = ticket[c].stay
    PROVE  IsFiniteSet(Counted)' /\ (Cardinality(Counted) <= Places)'
<1>1. Counted' \subseteq Counted
  BY DEF Counted, OfStay, Opens
<1>2. IsFiniteSet(Counted') /\ Cardinality(Counted') <= Cardinality(Counted)
  BY <1>1, FS_Subset DEF AccessInv, AccessCounts
<1>3. Cardinality(Counted) \in Nat /\ Cardinality(Counted') \in Nat
  BY <1>2, FS_CardinalityType DEF AccessInv, AccessCounts
<1> QED
  BY <1>2, <1>3, AccessAssumption DEF AccessInv, AccessIsBounded

-----------------------------------------------------------------------------
(* The desk.                                                               *)

\* At a check-in nothing opens but the first code: what was open went with the
\* stay before.
LEMMA EnterStep == ASSUME AccessInv, EnterStay PROVE AccessInv'
<1>1. /\ stayHere' = [number |-> stayHere.number + 1, active |-> TRUE]
      /\ ~stayHere.active /\ stayHere.number < LastStay /\ UNCHANGED qr
      /\ NewCode(stayHere.number + 1)
  BY DEF EnterStay
<1>2. stayHere.number + 1 \in 0 .. LastStay
  BY <1>1, AccessAssumption DEF AccessInv, AccessTypeOK, RoomStays
<1>3. PICK c \in Codes :
         /\ ticket' \in [Codes -> Tickets] /\ ~Opens(c)
         /\ ticket'[c].state = "CODE" /\ ticket'[c].stay = stayHere.number + 1
         /\ \A d \in Codes \ {c} : ticket'[d] = ticket[d]
  BY <1>1, <1>2, NewTicket
<1>4. \A d \in Codes : ~Opens(d)
  BY <1>1 DEF AccessInv, AccessIsBounded, Opens
<1>5. stayHere'.active /\ stayHere'.number = stayHere.number + 1
  BY <1>1
<1>6. Counted' = {c}
  BY <1>3, <1>4, <1>5 DEF Counted, OfStay, Opens
<1>7. IsFiniteSet(Counted)' /\ (Cardinality(Counted) <= Places)'
  BY <1>6, FS_Singleton, AccessAssumption
<1>8. AccessTypeOK'
  <2>1. stayHere' \in RoomStays
    BY <1>1, <1>2 DEF RoomStays
  <2> QED
    BY <1>1, <1>3, <2>1 DEF AccessInv, AccessTypeOK
<1>9. AccessCounts' /\ AccessIsBounded'
  BY <1>1, <1>3, <1>4, <1>5, <1>7 DEF AccessInv, AccessCounts, AccessIsBounded, Opens, OfStay
<1> QED
  BY <1>8, <1>9 DEF AccessInv

\* A code is issued only while a place is free.
LEMMA IssueStep == ASSUME AccessInv, IssueCode PROVE AccessInv'
<1>1. stayHere.active /\ HasPlace /\ UNCHANGED <<stayHere, qr>> /\ NewCode(stayHere.number)
  BY DEF IssueCode
<1>2. PICK c \in Codes :
         /\ ticket' \in [Codes -> Tickets] /\ ~Opens(c)
         /\ ticket'[c].state = "CODE" /\ ticket'[c].stay = stayHere.number
         /\ \A d \in Codes \ {c} : ticket'[d] = ticket[d]
  <2>1. stayHere.number \in 0 .. LastStay
    BY DEF AccessInv, AccessTypeOK, RoomStays
  <2> QED
    BY <1>1, <2>1, NewTicket
<1>3. Counted' = Counted \cup {c} /\ c \notin Counted
  BY <1>1, <1>2 DEF Counted, OfStay, Opens
<1>4. /\ IsFiniteSet(Counted') /\ Cardinality(Counted') = Cardinality(Counted) + 1
      /\ Cardinality(Counted) \in Nat
  BY <1>3, FS_AddElement, FS_CardinalityType DEF AccessInv, AccessCounts
<1>5. AccessTypeOK'
  BY <1>1, <1>2 DEF AccessInv, AccessTypeOK
<1>6. AccessCounts' /\ AccessIsBounded'
  BY <1>1, <1>2, <1>4, AccessAssumption
  DEF AccessInv, AccessCounts, AccessIsBounded, HasPlace, OfStay
<1> QED
  BY <1>5, <1>6 DEF AccessInv

\* Revoking opens nothing; whoever changes the stay or the QR revokes all that opens.
LEMMA RevokingStep ==
    ASSUME AccessInv, NEW S, ticket' = Revoking(S),
           stayHere' \in RoomStays, stayHere'.number = stayHere.number,
           qr' \in RoomQrs, qr'.blocked = "NO" => qr'.failures < MaxFailures,
           UNCHANGED <<stayHere, qr>> \/ \A c \in Codes : Opens(c) => c \in S
    PROVE  AccessInv'
<1>1. /\ ticket' \in [Codes -> Tickets]
      /\ \A c \in Codes : ~(c \in S) => ticket'[c] = ticket[c]
      /\ \A c \in Codes : c \in S => ticket'[c].state = "REVOKED"
  BY RevokedTickets
<1>2. \A c \in Codes : Opens(c)' => Opens(c) /\ ticket'[c] = ticket[c] /\ ~(c \in S)
  BY <1>1 DEF Opens
<1>3. IsFiniteSet(Counted)' /\ (Cardinality(Counted) <= Places)'
  BY <1>2, FewerCount
<1>4. AccessIsBounded'
  BY <1>2, <1>3 DEF AccessInv, AccessIsBounded, Opens, OfStay
<1> QED
  BY <1>1, <1>3, <1>4 DEF AccessInv, AccessTypeOK, AccessCounts

\* A guest who leaves has nothing left.
LEMMA LeaveStep == ASSUME AccessInv, LeaveStay PROVE AccessInv'
<1>1. /\ ticket' = Revoking({c \in Unrevoked : OfStay(c)})
      /\ stayHere' = [stayHere EXCEPT !.active = FALSE] /\ UNCHANGED qr
  BY DEF LeaveStay
<1>2. stayHere' \in RoomStays /\ stayHere'.number = stayHere.number
  BY <1>1 DEF AccessInv, AccessTypeOK, RoomStays
<1>3. qr' \in RoomQrs /\ (qr'.blocked = "NO" => qr'.failures < MaxFailures)
  BY <1>1 DEF AccessInv, AccessTypeOK, AccessCounts
<1>4. \A c \in Codes : Opens(c) => c \in {d \in Unrevoked : OfStay(d)}
  BY DEF Unrevoked, Opens, AccessInv, AccessIsBounded
<1> QED
  BY <1>1, <1>2, <1>3, <1>4, RevokingStep

\* A rotation leaves nobody anything.
LEMMA RotateStep == ASSUME AccessInv, RotateQr PROVE AccessInv'
<1>1. /\ ticket' = Revoking(Unrevoked) /\ UNCHANGED stayHere
      /\ qr' = [revision |-> qr.revision + 1, failures |-> 0, blocked |-> "NO"]
  BY DEF RotateQr, RotationRevokes
<1>2. qr.revision + 1 \in 0 .. LastQr
  BY AccessAssumption DEF RotateQr, AccessInv, AccessTypeOK, RoomQrs
<1>3. qr' \in RoomQrs /\ qr'.failures < MaxFailures
  BY <1>1, <1>2, AccessAssumption DEF RoomQrs
<1>4. \A c \in Codes : Opens(c) => c \in Unrevoked
  BY DEF Unrevoked, Opens
<1> QED
  BY <1>1, <1>3, <1>4, RevokingStep DEF AccessInv, AccessTypeOK

\* The desk shuts out a guest or a device.
LEMMA ShutOutStep ==
    ASSUME AccessInv, RevokeAccess \/ \E c \in Codes : RevokeDevice(c) PROVE AccessInv'
<1>1. (\E S : ticket' = Revoking(S)) /\ UNCHANGED <<stayHere, qr>>
  BY DEF RevokeAccess, RevokeDevice
<1> QED
  BY <1>1, RevokingStep DEF AccessInv, AccessTypeOK, AccessCounts

-----------------------------------------------------------------------------
(* The guests and the time.                                                *)

\* A code that elapses opens nothing any more.
LEMMA CodeElapsesStep == ASSUME AccessInv, NEW c \in Codes, CodeElapses(c) PROVE AccessInv'
<1>1. ticket' = [ticket EXCEPT ![c].state = "ELAPSED"] /\ UNCHANGED <<stayHere, qr>>
  BY DEF CodeElapses
<1>2. /\ ticket'[c].state = "ELAPSED" /\ ticket' \in [Codes -> Tickets]
      /\ \A d \in Codes \ {c} : ticket'[d] = ticket[d]
  BY <1>1 DEF AccessInv, AccessTypeOK, Tickets
<1>3. \A d \in Codes : Opens(d)' => Opens(d) /\ ticket'[d] = ticket[d]
  BY <1>2 DEF Opens
<1>4. IsFiniteSet(Counted)' /\ (Cardinality(Counted) <= Places)'
  BY <1>1, <1>3, FewerCount
<1> QED
  BY <1>1, <1>2, <1>3, <1>4
  DEF AccessInv, AccessTypeOK, AccessCounts, AccessIsBounded, Opens, OfStay

\* A redeemed code keeps its place and opens what the present QR opens.
LEMMA RedeemStep == ASSUME AccessInv, NEW c \in Codes, Redeem(c) PROVE AccessInv'
<1>1. /\ ticket' = [ticket EXCEPT ![c].state = "SESSION", ![c].qr = qr.revision]
      /\ qr' = [qr EXCEPT !.failures = 0, !.blocked = "NO"] /\ UNCHANGED stayHere
      /\ stayHere.active /\ ticket[c].stay = stayHere.number /\ ticket[c].state = "CODE"
  BY DEF Redeem, MayTry, OfStay
<1>2. /\ qr' \in RoomQrs /\ qr'.revision = qr.revision
      /\ qr'.failures < MaxFailures
  <2>1. qr' = [revision |-> qr.revision, failures |-> 0, blocked |-> "NO"]
    BY <1>1 DEF AccessInv, AccessTypeOK, RoomQrs
  <2>2. qr.revision \in 0 .. LastQr
    BY DEF AccessInv, AccessTypeOK, RoomQrs
  <2> QED
    BY <2>1, <2>2, AccessAssumption DEF RoomQrs
<1>3. ticket[c] \in Tickets /\ qr.revision \in 0 .. LastQr
  BY DEF AccessInv, AccessTypeOK, RoomQrs
<1>4. /\ ticket'[c].state = "SESSION" /\ ticket'[c].qr = qr.revision
      /\ ticket'[c].stay = ticket[c].stay
      /\ \A d \in Codes \ {c} : ticket'[d] = ticket[d]
      /\ ticket' \in [Codes -> Tickets]
  BY <1>1, <1>3 DEF AccessInv, AccessTypeOK, Tickets
<1>5. IsFiniteSet(Counted)' /\ (Cardinality(Counted) <= Places)'
  BY <1>1, <1>4, FewerCount DEF Opens
<1> QED
  BY <1>1, <1>2, <1>4, <1>5
  DEF AccessInv, AccessTypeOK, AccessCounts, AccessIsBounded, OfStay

\* A wrong code blocks the QR at the limit and not before.
LEMMA TryingStep == ASSUME AccessInv, WrongCode \/ BlockEnds PROVE AccessInv'
<1>1. UNCHANGED <<stayHere, ticket>>
  BY DEF WrongCode, BlockEnds
<1>2. /\ qr' \in RoomQrs /\ qr'.revision = qr.revision
      /\ qr'.blocked = "NO" => qr'.failures < MaxFailures
  <2> DEFINE failures == (IF qr.blocked = "NO" THEN qr.failures ELSE 0) + 1
  <2>1. CASE WrongCode
    <3>1. qr' = [qr EXCEPT !.failures = failures,
                    !.blocked = IF failures >= MaxFailures THEN "AHEAD" ELSE "NO"]
      BY <2>1 DEF WrongCode
    <3>2. failures \in 0 .. MaxFailures
      BY AccessAssumption DEF AccessInv, AccessTypeOK, AccessCounts, RoomQrs
    <3> HIDE DEF failures
    <3>3. qr' = [revision |-> qr.revision, failures |-> failures,
                 blocked |-> IF failures >= MaxFailures THEN "AHEAD" ELSE "NO"]
      BY <3>1 DEF AccessInv, AccessTypeOK, RoomQrs
    <3>4. qr.revision \in 0 .. LastQr
      BY DEF AccessInv, AccessTypeOK, RoomQrs
    <3> QED
      BY <3>2, <3>3, <3>4, AccessAssumption DEF RoomQrs
  <2>2. CASE BlockEnds
    BY <2>2 DEF BlockEnds, AccessInv, AccessTypeOK, RoomQrs
  <2> QED
    BY <2>1, <2>2
<1>3. Counted' = Counted
  BY <1>1 DEF Counted, OfStay
<1> QED
  BY <1>1, <1>2, <1>3 DEF AccessInv, AccessTypeOK, AccessCounts, AccessIsBounded, OfStay

LEMMA AccessStep == ASSUME AccessInv, [AccessNext]_accessVars PROVE AccessInv'
<1>1. CASE UNCHANGED accessVars
  <2>1. Counted' = Counted
    BY <1>1 DEF accessVars, Counted, OfStay
  <2> QED
    BY <1>1, <2>1 DEF accessVars, AccessInv, AccessTypeOK, AccessCounts, AccessIsBounded, OfStay
<1>2. CASE AccessNext
  BY <1>2, EnterStep, IssueStep, LeaveStep, RotateStep, ShutOutStep, CodeElapsesStep, RedeemStep,
     TryingStep DEF AccessNext
<1> QED
  BY <1>1, <1>2

-----------------------------------------------------------------------------
LEMMA AccessInvariance == AccessSpec => []AccessInv
  BY InitAccessInv, AccessStep, PTL DEF AccessSpec

\* Types of the QR, the stay and the codes; wrong codes never exceed their limit.
THEOREM AccessTypes == AccessSpec => []AccessTypeOK
<1>1. AccessInv => AccessTypeOK
  BY DEF AccessInv
<1> QED
  BY <1>1, AccessInvariance, PTL

\* Whatever codes were issued, redeemed late, rotated away or revoked before, only
\* the guests of the present stay have access, through the present QR, and there are
\* never more of them than places (GuestAccess.issue, redeem, rotate, revoke).
THEOREM OnlyGuestsHaveAccess == AccessSpec => []AccessIsBounded
<1>1. AccessInv => AccessIsBounded
  BY DEF AccessInv
<1> QED
  BY <1>1, AccessInvariance, PTL

-----------------------------------------------------------------------------
(***************************************************************************)
(* Staff accounts. The code compares epochs and revisions only; the        *)
(* inductive invariant says that these comparisons tell old secrets from   *)
(* present ones.                                                           *)
(***************************************************************************)

\* A secret of the present epoch was made under the present password.
SecretsAreOrdered ==
    /\ person.password <= person.epoch
    /\ \A l \in Links : link[l].purpose # "NONE" =>
          /\ link[l].epoch <= person.epoch
          /\ link[l].epoch = person.epoch => link[l].password = person.password
    /\ \A s \in Sessions : session[s].realm # "NONE" =>
          /\ session[s].epoch <= person.epoch
          /\ session[s].epoch = person.epoch => session[s].password = person.password

\* An account is invited at revision 0 first, and resets follow a verification.
RowsFit ==
    /\ \A k \in Realms : member[k].status = "NONE" => member[k].revision = 0
    /\ \A l \in Links : link[l].purpose = "RESET" => person.verified

StaffInv == StaffTypeOK /\ SecretsAreOrdered /\ RowsFit /\ LinksFitTheirPurpose

-----------------------------------------------------------------------------
(* What a step may do to each of the records.                              *)

PersonGoesOn ==
    /\ person' \in Persons /\ person'.password <= person'.epoch
    /\ person.epoch <= person'.epoch
    /\ person'.epoch = person.epoch => person'.password = person.password
    /\ person.verified => person'.verified

SameLink(l) ==
    /\ link'[l].purpose = link[l].purpose /\ link'[l].revision = link[l].revision
    /\ link'[l].epoch = link[l].epoch /\ link'[l].password = link[l].password
    /\ link'[l].reset = link[l].reset

\* No link becomes active.
LinksFade ==
    /\ link' \in [Links -> LinkRows \cup {NoLink}]
    /\ \A l \in Links : SameLink(l) /\ (link'[l].state = "ACTIVE" => link[l].state = "ACTIVE")

\* Link n becomes the active one of its purpose.
Issued(n, purpose, revision, q) ==
    /\ link' \in [Links -> LinkRows \cup {NoLink}]
    /\ link'[n].purpose = purpose /\ link'[n].revision = revision
    /\ link'[n].epoch = person.epoch /\ link'[n].password = person.password
    /\ link'[n].reset = q
    /\ \A l \in Links \ {n} :
          SameLink(l) /\ (link'[l].state = "ACTIVE" => link[l].state = "ACTIVE"
                                                       /\ link[l].purpose # purpose)

SessionsGoOn ==
    /\ session' \in [Sessions -> SessionRows \cup {NoSession}]
    /\ \A s \in Sessions :
          \/ /\ session'[s].realm = session[s].realm
             /\ session'[s].epoch = session[s].epoch
             /\ session'[s].password = session[s].password
          \/ session'[s].epoch = person'.epoch /\ session'[s].password = person'.password

\* No request is taken up.
ResetsGoOn ==
    /\ reset' \in [Resets -> {"NONE", "QUEUED", "PROCESSED"}]
    /\ \A q \in Resets : /\ reset[q] = "QUEUED" => reset'[q] = "QUEUED"
                         /\ reset'[q] = "PROCESSED" => reset[q] = "PROCESSED"

MembersFit ==
    /\ member' \in [Realms -> Memberships] /\ author' \in [Realms -> BOOLEAN]
    /\ \A k \in Realms : member'[k].status = "NONE" => member'[k].revision = 0

-----------------------------------------------------------------------------
(* Which actions have which of these effects.                              *)

LEMMA InitStaffInv == StaffInit => StaffInv
<1> SUFFICES ASSUME StaffInit PROVE StaffInv
  OBVIOUS
<1>1. \A l \in Links : link[l] = NoLink
  BY DEF StaffInit
<1>2. \A s \in Sessions : session[s] = NoSession
  BY DEF StaffInit
<1>3. \A p \in Realms \cup {"RESET"} : ActiveLinks(p) = {}
  BY <1>1 DEF ActiveLinks, NoLink, Realms
<1>4. StaffTypeOK
  <2>1. person \in Persons
    BY StaffAssumption DEF StaffInit, Persons
  <2>2. member \in [Realms -> Memberships]
    <3>1. [status |-> "NONE", revision |-> 0] \in Memberships
      BY StaffAssumption DEF Memberships
    <3> QED
      BY <3>1 DEF StaffInit
  <2> QED
    BY <1>3, <2>1, <2>2 DEF StaffInit, StaffTypeOK
<1>5. SecretsAreOrdered
  BY <1>1, <1>2 DEF SecretsAreOrdered, StaffInit, NoLink, NoSession
<1>6. RowsFit
  BY <1>1 DEF RowsFit, StaffInit, NoLink
<1>7. LinksFitTheirPurpose
  BY <1>3 DEF LinksFitTheirPurpose
<1> QED
  BY <1>4, <1>5, <1>6, <1>7 DEF StaffInv

\* The rows have the fields the proofs look at.
LEMMA RowFields ==
    ASSUME StaffInv
    PROVE  /\ person.epoch \in Nat /\ person.password \in Nat
           /\ \A l \in Links : /\ link[l].epoch \in Nat /\ link[l].password \in Nat
                               /\ link[l].reset \in Nat /\ link[l].revision \in Nat
           /\ \A s \in Sessions : session[s].epoch \in Nat /\ session[s].password \in Nat
<1> USE StaffAssumption
<1>1. person.epoch \in Nat /\ person.password \in Nat
  BY DEF StaffInv, StaffTypeOK, Persons
<1>2. \A l \in Links : link[l] \in LinkRows \/ link[l] = NoLink
  BY DEF StaffInv, StaffTypeOK
<1>3. \A l \in Links : /\ link[l].epoch \in Nat /\ link[l].password \in Nat
                       /\ link[l].reset \in Nat /\ link[l].revision \in Nat
  BY <1>2 DEF LinkRows, NoLink
<1>4. \A s \in Sessions : session[s] \in SessionRows \/ session[s] = NoSession
  BY DEF StaffInv, StaffTypeOK
<1>5. \A s \in Sessions : session[s].epoch \in Nat /\ session[s].password \in Nat
  BY <1>4 DEF SessionRows, NoSession
<1> QED
  BY <1>1, <1>3, <1>5

LEMMA SamePersonGoesOn == ASSUME StaffInv, UNCHANGED person PROVE PersonGoesOn
  BY RowFields DEF PersonGoesOn, StaffInv, StaffTypeOK, SecretsAreOrdered

\* Any new epoch leaves the secrets of the older ones behind.
LEMMA NewEpoch ==
    ASSUME StaffInv, NEW v \in BOOLEAN, NEW p \in {person.password, person.password + 1},
           person' = [verified |-> v, epoch |-> person.epoch + 1, password |-> p],
           person.epoch < MaxEpoch, person.verified => v
    PROVE  PersonGoesOn /\ person'.epoch > person.epoch
<1>1. person.epoch \in 0 .. MaxEpoch /\ person.password \in 0 .. MaxEpoch
  BY DEF StaffInv, StaffTypeOK, Persons
<1>2. person.password <= person.epoch /\ MaxEpoch \in Nat
  BY StaffAssumption DEF StaffInv, SecretsAreOrdered
<1>3. person' \in Persons
  BY <1>1, <1>2 DEF Persons
<1> QED
  BY <1>1, <1>2, <1>3 DEF PersonGoesOn

LEMMA NewPassword ==
    ASSUME StaffInv, ChooseNewPassword
    PROVE  PersonGoesOn /\ person'.verified
<1>1. person.password \in Nat
  BY RowFields
<1>2. person.password + 1 # person.password
  BY <1>1
<1>3. /\ person.epoch < MaxEpoch
      /\ person' = [verified |-> TRUE, epoch |-> person.epoch + 1,
                    password |-> person.password + 1]
  BY <1>2, Zenon DEF ChooseNewPassword, EpochAfter
<1> QED
  BY <1>3, NewEpoch

LEMMA SameLinksFade == ASSUME StaffInv, UNCHANGED link PROVE LinksFade
  BY DEF LinksFade, SameLink, StaffInv, StaffTypeOK

LEMMA RetiredFade ==
    ASSUME StaffInv, NEW p, NEW state \in {"SUPERSEDED", "REVOKED"}, link' = Retired(p, state)
    PROVE  LinksFade /\ ActiveLinks(p)' = {}
<1>1. \A l \in Links : link'[l] = IF l \in ActiveLinks(p) THEN [link[l] EXCEPT !.state = state]
                                                          ELSE link[l]
  BY DEF Retired
<1>2. \A l \in Links : link[l] \in LinkRows \/ link[l] = NoLink
  BY DEF StaffInv, StaffTypeOK
<1>3. \A l \in ActiveLinks(p) : l \in Links /\ link[l] \in LinkRows /\ link[l].purpose = p
  BY <1>2 DEF ActiveLinks, NoLink
<1>4. \A l \in ActiveLinks(p) :
         link'[l] \in LinkRows /\ SameLink(l) /\ link'[l].state # "ACTIVE"
  <2> SUFFICES ASSUME NEW l \in ActiveLinks(p)
               PROVE  link'[l] \in LinkRows /\ SameLink(l) /\ link'[l].state # "ACTIVE"
    OBVIOUS
  <2>1. link'[l] = [link[l] EXCEPT !.state = state] /\ link[l] \in LinkRows
    BY <1>1, <1>3
  <2> QED
    BY <2>1 DEF LinkRows, SameLink
<1>5. \A l \in Links : l \notin ActiveLinks(p) => link'[l] = link[l]
  BY <1>1
<1>6. link' \in [Links -> LinkRows \cup {NoLink}]
  BY <1>2, <1>4, <1>5 DEF Retired
<1>7. \A l \in Links : SameLink(l) /\ (link'[l].state = "ACTIVE" => link[l].state = "ACTIVE")
  BY <1>4, <1>5 DEF SameLink
<1>8. ActiveLinks(p)' = {}
  BY <1>4, <1>5, <1>7 DEF ActiveLinks, SameLink
<1> QED
  BY <1>6, <1>7, <1>8 DEF LinksFade

\* One link changes its state, or elapses.
LEMMA OneLinkFades ==
    ASSUME StaffInv, NEW l \in Links, link[l].state = "ACTIVE",
           \/ link' = [link EXCEPT ![l].state = "ACCEPTED"]
           \/ link' = [link EXCEPT ![l].elapsed = TRUE]
    PROVE  /\ LinksFade
           /\ link' = [link EXCEPT ![l].state = "ACCEPTED"] => link'[l].state # "ACTIVE"
<1>1. link[l] \in LinkRows
  BY DEF StaffInv, StaffTypeOK, NoLink
<1>2. /\ link'[l] \in LinkRows /\ SameLink(l)
      /\ link'[l].state = "ACTIVE" => link[l].state = "ACTIVE"
      /\ link' = [link EXCEPT ![l].state = "ACCEPTED"] => link'[l].state # "ACTIVE"
  <2>1. CASE link' = [link EXCEPT ![l].state = "ACCEPTED"]
    <3>1. link'[l] = [link[l] EXCEPT !.state = "ACCEPTED"]
      BY <2>1 DEF StaffInv, StaffTypeOK
    <3> QED
      BY <1>1, <3>1 DEF LinkRows, SameLink
  <2>2. CASE link' = [link EXCEPT ![l].elapsed = TRUE] /\ link' # [link EXCEPT ![l].state = "ACCEPTED"]
    <3>1. link'[l] = [link[l] EXCEPT !.elapsed = TRUE]
      BY <2>2 DEF StaffInv, StaffTypeOK
    <3> QED
      BY <1>1, <2>2, <3>1 DEF LinkRows, SameLink
  <2> QED
    BY <2>1, <2>2
<1>3. \A m \in Links \ {l} : link'[m] = link[m]
  BY DEF StaffInv, StaffTypeOK
<1>4. DOMAIN link' = Links /\ link' = [m \in Links |-> link'[m]]
  BY DEF StaffInv, StaffTypeOK
<1>5. link' \in [Links -> LinkRows \cup {NoLink}]
  BY <1>2, <1>3, <1>4 DEF StaffInv, StaffTypeOK
<1> QED
  BY <1>2, <1>3, <1>5 DEF LinksFade, SameLink

LEMMA IssuedLink ==
    ASSUME StaffInv, NEW p \in Realms \cup {"RESET"}, NEW revision \in 0 .. MaxRevision,
           NEW q \in 0 .. MaxResets, Issue(p, revision, q)
    PROVE  \E n \in Links : Issued(n, p, revision, q)
<1> DEFINE Old == Retired(p, "SUPERSEDED")
           Row == [purpose |-> p, revision |-> revision, epoch |-> person.epoch,
                   state |-> "ACTIVE", elapsed |-> FALSE, password |-> person.password,
                   reset |-> q]
<1>1. PICK n \in Links : link' = [Old EXCEPT ![n] = Row]
  BY DEF Issue
<1>2. Row \in LinkRows
  BY DEF StaffInv, StaffTypeOK, Persons, LinkRows
<1>3. \A l \in Links : link[l] \in LinkRows \/ link[l] = NoLink
  BY DEF StaffInv, StaffTypeOK
<1>4. \A l \in Links : Old[l] = IF l \in ActiveLinks(p) THEN [link[l] EXCEPT !.state = "SUPERSEDED"]
                                                        ELSE link[l]
  BY DEF Retired
<1>5. DOMAIN Old = Links
  BY DEF Retired
<1>6. link'[n] = Row /\ \A l \in Links \ {n} : link'[l] = Old[l]
  BY <1>1, <1>5
<1>7. DOMAIN link' = Links /\ link' = [l \in Links |-> link'[l]]
  BY <1>1, <1>5
<1>8. \A l \in Links :
         /\ Old[l] \in LinkRows \cup {NoLink}
         /\ Old[l].purpose = link[l].purpose /\ Old[l].revision = link[l].revision
         /\ Old[l].epoch = link[l].epoch /\ Old[l].password = link[l].password
         /\ Old[l].reset = link[l].reset
         /\ Old[l].state = "ACTIVE" => link[l].state = "ACTIVE" /\ link[l].purpose # p
  <2> SUFFICES ASSUME NEW l \in Links
               PROVE  /\ Old[l] \in LinkRows \cup {NoLink}
                      /\ Old[l].purpose = link[l].purpose /\ Old[l].revision = link[l].revision
                      /\ Old[l].epoch = link[l].epoch /\ Old[l].password = link[l].password
                      /\ Old[l].reset = link[l].reset
                      /\ Old[l].state = "ACTIVE" =>
                            link[l].state = "ACTIVE" /\ link[l].purpose # p
    OBVIOUS
  <2>1. CASE l \in ActiveLinks(p)
    <3>1. link[l] \in LinkRows
      BY <1>3, <2>1 DEF ActiveLinks, NoLink
    <3>2. Old[l] = [link[l] EXCEPT !.state = "SUPERSEDED"]
      BY <1>4, <2>1
    <3> QED
      BY <3>1, <3>2 DEF LinkRows
  <2>2. CASE l \notin ActiveLinks(p)
    <3>1. Old[l] = link[l]
      BY <1>4, <2>2
    <3> QED
      BY <1>3, <2>2, <3>1 DEF ActiveLinks
  <2> QED
    BY <2>1, <2>2
<1> HIDE DEF Old
<1>9. link' \in [Links -> LinkRows \cup {NoLink}]
  <2> HIDE DEF Row
  <2> QED
    BY <1>2, <1>6, <1>7, <1>8
<1>10. \A l \in Links \ {n} :
          SameLink(l) /\ (link'[l].state = "ACTIVE" => /\ link[l].state = "ACTIVE"
                                                       /\ link[l].purpose # p)
  BY <1>6, <1>8 DEF SameLink
<1>11. /\ link'[n].purpose = p /\ link'[n].revision = revision
       /\ link'[n].epoch = person.epoch /\ link'[n].password = person.password
       /\ link'[n].reset = q
  BY <1>6
<1> QED
  BY <1>9, <1>10, <1>11 DEF Issued

LEMMA SameSessionsGoOn == ASSUME StaffInv, UNCHANGED session PROVE SessionsGoOn
  BY DEF SessionsGoOn, StaffInv, StaffTypeOK

\* Sessions that end stay the sessions they were.
LEMMA EndedSessionsGoOn ==
    ASSUME StaffInv, NEW S,
           session' = [s \in Sessions |-> IF s \in S THEN [session[s] EXCEPT !.over = TRUE]
                                                     ELSE session[s]]
    PROVE  SessionsGoOn
<1> SUFFICES ASSUME NEW s \in Sessions
             PROVE  /\ session'[s] \in SessionRows \cup {NoSession}
                    /\ session'[s].realm = session[s].realm
                    /\ session'[s].epoch = session[s].epoch
                    /\ session'[s].password = session[s].password
  BY DEF SessionsGoOn
<1>1. session[s] \in SessionRows \/ session[s] = NoSession
  BY DEF StaffInv, StaffTypeOK
<1>2. CASE s \in S
  <2>1. session'[s] = [session[s] EXCEPT !.over = TRUE]
    BY <1>2
  <2>2. CASE session[s] \in SessionRows
    BY <2>1, <2>2 DEF SessionRows
  <2>3. CASE session[s] = NoSession
    <3>1. \A x \in [realm : {"NONE"}, revision : {0}, epoch : {0}, over : {TRUE}, password : {0}] :
             [x EXCEPT !.over = TRUE] = x
      OBVIOUS
    <3>2. NoSession \in
             [realm : {"NONE"}, revision : {0}, epoch : {0}, over : {TRUE}, password : {0}]
      BY DEF NoSession
    <3> QED
      BY <2>1, <2>3, <3>1, <3>2
  <2> QED
    BY <1>1, <2>2, <2>3
<1>3. CASE s \notin S
  BY <1>1, <1>3
<1> QED
  BY <1>2, <1>3

LEMMA EndingRealmGoesOn == ASSUME StaffInv, NEW k, session' = SessionsEnded(k) PROVE SessionsGoOn
<1> DEFINE S == {s \in Sessions : session[s].realm = k}
<1>1. session' = [s \in Sessions |-> IF s \in S THEN [session[s] EXCEPT !.over = TRUE]
                                                ELSE session[s]]
  BY DEF SessionsEnded
<1> HIDE DEF S
<1> QED
  BY <1>1, EndedSessionsGoOn

LEMMA SameMembersFit ==
    ASSUME StaffInv, UNCHANGED member, author' \in [Realms -> BOOLEAN]
    PROVE  MembersFit
  BY DEF MembersFit, StaffInv, StaffTypeOK, RowsFit

LEMMA SameResetsGoOn == ASSUME StaffInv, UNCHANGED reset PROVE ResetsGoOn
  BY DEF ResetsGoOn, StaffInv, StaffTypeOK

\* A membership that changes is a new revision of itself.
LEMMA RevisedFits ==
    ASSUME StaffInv, NEW k \in Realms, CanRevise(k),
           NEW status \in {"PENDING", "ACTIVE", "SUSPENDED", "TERMINATED"},
           member' = Revised(k, status), author' \in [Realms -> BOOLEAN]
    PROVE  /\ MembersFit
           /\ member'[k] = [status |-> status, revision |-> member[k].revision + 1]
           /\ member[k].revision + 1 \in 0 .. MaxRevision
           /\ \A j \in Realms \ {k} : member'[j] = member[j]
<1>1. member \in [Realms -> Memberships] /\ member[k].revision \in 0 .. MaxRevision
  BY DEF StaffInv, StaffTypeOK, Memberships
<1>2. member[k].revision + 1 \in 0 .. MaxRevision
  BY <1>1, StaffAssumption DEF CanRevise
<1>3. [status |-> status, revision |-> member[k].revision + 1] \in Memberships
  BY <1>2 DEF Memberships
<1>4. /\ member' = [member EXCEPT ![k] = [status |-> status, revision |-> member[k].revision + 1]]
  BY <1>1 DEF Revised
<1>5. /\ member'[k] = [status |-> status, revision |-> member[k].revision + 1]
      /\ \A j \in Realms \ {k} : member'[j] = member[j]
      /\ member' \in [Realms -> Memberships]
  BY <1>1, <1>3, <1>4
<1>6. \A j \in Realms : member'[j].status = "NONE" => member'[j].revision = 0
  BY <1>5 DEF StaffInv, RowsFit
<1> QED
  BY <1>2, <1>5, <1>6 DEF MembersFit

-----------------------------------------------------------------------------
(* What steps with these effects keep.                                     *)

\* No secret becomes younger than it is.
LEMMA SecretsStayOrdered ==
    ASSUME StaffInv, PersonGoesOn, SessionsGoOn,
           \A l \in Links :
              \/ SameLink(l)
              \/ UNCHANGED person /\ link'[l].epoch = person.epoch
                                  /\ link'[l].password = person.password
    PROVE  SecretsAreOrdered'
<1> USE RowFields
<1>1. person'.epoch \in Nat /\ person'.password \in Nat
  BY StaffAssumption DEF PersonGoesOn, Persons
<1>2. ASSUME NEW l \in Links, link'[l].purpose # "NONE"
      PROVE  /\ link'[l].epoch <= person'.epoch
             /\ link'[l].epoch = person'.epoch => link'[l].password = person'.password
  <2>1. CASE SameLink(l)
    <3>1. /\ link'[l].epoch = link[l].epoch /\ link'[l].password = link[l].password
          /\ link[l].purpose # "NONE"
      BY <1>2, <2>1 DEF SameLink
    <3>2. link[l].epoch <= person.epoch
          /\ (link[l].epoch = person.epoch => link[l].password = person.password)
      BY <3>1 DEF StaffInv, SecretsAreOrdered
    <3> QED
      BY <1>1, <3>1, <3>2 DEF PersonGoesOn
  <2>2. CASE UNCHANGED person /\ link'[l].epoch = person.epoch
                              /\ link'[l].password = person.password
    BY <2>2
  <2> QED
    BY <2>1, <2>2
<1>3. ASSUME NEW s \in Sessions, session'[s].realm # "NONE"
      PROVE  /\ session'[s].epoch <= person'.epoch
             /\ session'[s].epoch = person'.epoch => session'[s].password = person'.password
  <2>1. CASE session'[s].epoch = person'.epoch /\ session'[s].password = person'.password
    BY <1>1, <2>1
  <2>2. CASE /\ session'[s].realm = session[s].realm
             /\ session'[s].epoch = session[s].epoch
             /\ session'[s].password = session[s].password
    <3>1. session[s].epoch <= person.epoch
          /\ (session[s].epoch = person.epoch => session[s].password = person.password)
      BY <1>3, <2>2 DEF StaffInv, SecretsAreOrdered
    <3> QED
      BY <1>1, <2>2, <3>1 DEF PersonGoesOn
  <2> QED
    BY <2>1, <2>2 DEF SessionsGoOn
<1> QED
  BY <1>2, <1>3 DEF SecretsAreOrdered, PersonGoesOn

\* When links only fade, a membership with a living invitation must not change.
LEMMA FadeKeeps ==
    ASSUME StaffInv, PersonGoesOn, LinksFade, SessionsGoOn, ResetsGoOn, MembersFit,
           \A k \in Realms : member'[k] = member[k] \/ ActiveLinks(k)' = {}
    PROVE  StaffInv'
<1>1. \A p \in Realms \cup {"RESET"} : ActiveLinks(p)' \subseteq ActiveLinks(p)
  BY DEF LinksFade, SameLink, ActiveLinks
<1>2. StaffTypeOK'
  <2>1. \A p \in Realms \cup {"RESET"} : \A l, m \in ActiveLinks(p)' : l = m
    BY <1>1 DEF StaffInv, StaffTypeOK
  <2> QED
    BY <2>1 DEF StaffTypeOK, PersonGoesOn, LinksFade, SessionsGoOn, ResetsGoOn, MembersFit
<1>3. SecretsAreOrdered'
  BY SecretsStayOrdered DEF LinksFade
<1>4. RowsFit'
  BY DEF RowsFit, StaffInv, MembersFit, LinksFade, SameLink, PersonGoesOn
<1>5. ASSUME NEW k \in Realms, NEW l \in ActiveLinks(k)'
      PROVE  member'[k] = [status |-> "PENDING", revision |-> link'[l].revision]
  <2>1. l \in ActiveLinks(k) /\ member'[k] = member[k]
    BY <1>1, <1>5
  <2>2. link'[l].revision = link[l].revision
    BY <2>1 DEF LinksFade, SameLink, ActiveLinks
  <2> QED
    BY <2>1, <2>2 DEF StaffInv, LinksFitTheirPurpose
<1>6. ASSUME NEW l \in ActiveLinks("RESET")', NEW q \in Resets,
             q > link'[l].reset, reset'[q] = "PROCESSED"
      PROVE  \E m \in Resets : m > q /\ reset'[m] = "QUEUED"
  <2>1. l \in ActiveLinks("RESET") /\ link'[l].reset = link[l].reset
    BY <1>1, <1>6 DEF LinksFade, SameLink, ActiveLinks
  <2>2. q > link[l].reset /\ reset[q] = "PROCESSED"
    BY <1>6, <2>1 DEF ResetsGoOn
  <2>3. PICK m \in Resets : m > q /\ reset[m] = "QUEUED"
    BY <2>1, <2>2 DEF StaffInv, LinksFitTheirPurpose
  <2> QED
    BY <2>3 DEF ResetsGoOn
<1> QED
  BY <1>2, <1>3, <1>4, <1>5, <1>6 DEF StaffInv, LinksFitTheirPurpose

\* The new link is the only active one of its purpose.
LEMMA IssueKeeps ==
    ASSUME StaffInv, UNCHANGED person, SessionsGoOn, MembersFit,
           reset' \in [Resets -> {"NONE", "QUEUED", "PROCESSED"}],
           NEW p \in Realms \cup {"RESET"}, NEW n \in Links, NEW revision, NEW q,
           Issued(n, p, revision, q), p = "RESET" => person.verified,
           LinksFitTheirPurpose'
    PROVE  StaffInv'
<1>1. ActiveLinks(p)' \subseteq {n}
  BY DEF Issued, SameLink, ActiveLinks
<1>2. \A j \in Realms \cup {"RESET"} : j # p => ActiveLinks(j)' \subseteq ActiveLinks(j)
  BY DEF Issued, SameLink, ActiveLinks
<1>3. StaffTypeOK'
  <2>1. \A j \in Realms \cup {"RESET"} : \A l, m \in ActiveLinks(j)' : l = m
    BY <1>1, <1>2 DEF StaffInv, StaffTypeOK
  <2> QED
    BY <2>1 DEF StaffTypeOK, StaffInv, Issued, SessionsGoOn, MembersFit
<1>4. SecretsAreOrdered'
  BY SamePersonGoesOn, SecretsStayOrdered DEF Issued
<1>5. RowsFit'
  BY DEF RowsFit, StaffInv, MembersFit, Issued, SameLink
<1> QED
  BY <1>3, <1>4, <1>5 DEF StaffInv

\* An invitation carries the revision that the command leaves.
LEMMA InvitationKeeps ==
    ASSUME StaffInv, UNCHANGED <<person, reset>>, SessionsGoOn, MembersFit,
           NEW k \in Realms, NEW n \in Links, NEW revision, Issued(n, k, revision, 0),
           member'[k] = [status |-> "PENDING", revision |-> revision],
           \A j \in Realms \ {k} : member'[j] = member[j]
    PROVE  StaffInv'
<1>1. ActiveLinks(k)' \subseteq {n} /\ link'[n].revision = revision
  BY DEF Issued, SameLink, ActiveLinks
<1>2. \A j \in Realms \cup {"RESET"} : j # k => ActiveLinks(j)' \subseteq ActiveLinks(j)
  BY DEF Issued, SameLink, ActiveLinks
<1>3. \A j \in Realms \cup {"RESET"} : j # k => \A l \in ActiveLinks(j)' : l \in Links /\ SameLink(l)
  BY DEF Issued, ActiveLinks
<1>4. ASSUME NEW j \in Realms, NEW l \in ActiveLinks(j)'
      PROVE  member'[j] = [status |-> "PENDING", revision |-> link'[l].revision]
  <2>1. CASE j = k
    BY <1>1, <1>4, <2>1
  <2>2. CASE j # k
    BY <1>2, <1>3, <1>4, <2>2 DEF StaffInv, LinksFitTheirPurpose, SameLink
  <2> QED
    BY <2>1, <2>2
<1>5. ASSUME NEW l \in ActiveLinks("RESET")', NEW q \in Resets,
             q > link'[l].reset, reset'[q] = "PROCESSED"
      PROVE  \E m \in Resets : m > q /\ reset'[m] = "QUEUED"
  <2>1. k # "RESET"
    BY DEF Realms
  <2>2. l \in ActiveLinks("RESET") /\ link'[l].reset = link[l].reset
    BY <1>2, <1>3, <1>5, <2>1 DEF SameLink
  <2> QED
    BY <1>5, <2>2 DEF StaffInv, LinksFitTheirPurpose
<1>6. LinksFitTheirPurpose'
  BY <1>4, <1>5 DEF LinksFitTheirPurpose
<1>7. k # "RESET" /\ reset' \in [Resets -> {"NONE", "QUEUED", "PROCESSED"}]
  BY DEF Realms, StaffInv, StaffTypeOK
<1> QED
  BY <1>6, <1>7, IssueKeeps

-----------------------------------------------------------------------------
(* The actions.                                                            *)

LEMMA InviteStep == ASSUME StaffInv, NEW k \in Realms, Invite(k) PROVE StaffInv'
<1>1. /\ member[k].status = "NONE" /\ UNCHANGED <<person, reset, session>>
      /\ member' = [member EXCEPT ![k].status = "PENDING"]
      /\ author' = [author EXCEPT ![k] = TRUE] /\ Issue(k, 0, 0)
  BY DEF Invite
<1>2. member \in [Realms -> Memberships] /\ author' \in [Realms -> BOOLEAN]
  BY <1>1 DEF StaffInv, StaffTypeOK
<1>3. member[k].revision = 0 /\ member[k] \in Memberships
  BY <1>1, <1>2 DEF StaffInv, RowsFit
<1>4. member'[k] = [status |-> "PENDING", revision |-> 0]
  <2>1. member'[k] = [member[k] EXCEPT !.status = "PENDING"]
    BY <1>1, <1>2
  <2> QED
    BY <1>3, <2>1 DEF Memberships
<1>5. \A j \in Realms \ {k} : member'[j] = member[j]
  BY <1>1, <1>2
<1>6. MembersFit
  <2>1. [status |-> "PENDING", revision |-> 0] \in Memberships
    BY StaffAssumption DEF Memberships
  <2>2. member' \in [Realms -> Memberships]
    BY <1>1, <1>2, <1>4, <1>5, <2>1
  <2> QED
    BY <1>2, <1>4, <1>5, <2>2 DEF MembersFit, StaffInv, RowsFit
<1>7. PICK n \in Links : Issued(n, k, 0, 0)
  <2>1. 0 \in 0 .. MaxRevision /\ 0 \in 0 .. MaxResets
    BY StaffAssumption
  <2> QED
    BY <1>1, <2>1, IssuedLink
<1> QED
  BY <1>1, <1>4, <1>5, <1>6, <1>7, SameSessionsGoOn, InvitationKeeps

\* Resend and RecoverInvite differ in their guards only.
LEMMA ReinviteStep ==
    ASSUME StaffInv, NEW k \in Realms, Resend(k) \/ RecoverInvite(k)
    PROVE  StaffInv'
<1>1. /\ CanRevise(k) /\ member' = Revised(k, "PENDING")
      /\ Issue(k, member[k].revision + 1, 0) /\ session' = SessionsEnded(k)
      /\ author' = [author EXCEPT ![k] = TRUE] /\ UNCHANGED <<person, reset>>
  BY DEF Resend, RecoverInvite
<1>2. author' \in [Realms -> BOOLEAN]
  BY <1>1 DEF StaffInv, StaffTypeOK
<1>3. /\ MembersFit
      /\ member'[k] = [status |-> "PENDING", revision |-> member[k].revision + 1]
      /\ member[k].revision + 1 \in 0 .. MaxRevision
      /\ \A j \in Realms \ {k} : member'[j] = member[j]
  BY <1>1, <1>2, RevisedFits
<1>4. PICK n \in Links : Issued(n, k, member[k].revision + 1, 0)
  <2>1. 0 \in 0 .. MaxResets
    BY StaffAssumption
  <2> QED
    BY <1>1, <1>3, <2>1, IssuedLink
<1> QED
  BY <1>1, <1>3, <1>4, EndingRealmGoesOn, InvitationKeeps

\* A command that revokes the invitation of the membership it changes.
LEMMA RevokingCommand ==
    ASSUME StaffInv, NEW k \in Realms, CanRevise(k),
           NEW status \in {"PENDING", "ACTIVE", "SUSPENDED", "TERMINATED"},
           member' = Revised(k, status), link' = Retired(k, "REVOKED"),
           session' = SessionsEnded(k), UNCHANGED <<person, author, reset>>
    PROVE  StaffInv'
<1>1. MembersFit /\ \A j \in Realms \ {k} : member'[j] = member[j]
  <2>1. author' \in [Realms -> BOOLEAN]
    BY DEF StaffInv, StaffTypeOK
  <2> QED
    BY <2>1, RevisedFits
<1>2. LinksFade /\ ActiveLinks(k)' = {}
  BY RetiredFade
<1>3. \A j \in Realms : member'[j] = member[j] \/ ActiveLinks(j)' = {}
  BY <1>1, <1>2
<1> QED
  BY <1>1, <1>2, <1>3, SamePersonGoesOn, EndingRealmGoesOn, SameResetsGoOn, FadeKeeps

LEMMA RevokeStep == ASSUME StaffInv, NEW k \in Realms, RevokeInvite(k) PROVE StaffInv'
  BY RevokingCommand DEF RevokeInvite

LEMMA ChangeStep == ASSUME StaffInv, NEW k \in Realms, ChangeMember(k) PROVE StaffInv'
<1>1. PICK status \in MemberChanges(k) :
         /\ member' = Revised(k, status) /\ link' = Retired(k, "REVOKED")
  BY DEF ChangeMember, LinksAfter
<1>2. CanRevise(k) /\ session' = SessionsEnded(k) /\ UNCHANGED <<person, author, reset>>
  BY DEF ChangeMember
<1>3. status \in {"PENDING", "ACTIVE", "SUSPENDED", "TERMINATED"}
  <2>1. member[k].status \in {"PENDING", "ACTIVE", "SUSPENDED", "TERMINATED"}
    BY DEF ChangeMember, StaffInv, StaffTypeOK, Memberships
  <2> QED
    BY <2>1, Zenon DEF MemberChanges
<1> QED
  BY <1>1, <1>2, <1>3, RevokingCommand

LEMMA AuthorStep == ASSUME StaffInv, NEW k \in Realms, AuthorChanges(k) PROVE StaffInv'
<1>1. author' \in [Realms -> BOOLEAN] /\ UNCHANGED <<person, member, link, reset, session>>
  BY DEF AuthorChanges, StaffInv, StaffTypeOK
<1>2. MembersFit
  BY <1>1, SameMembersFit
<1> QED
  BY <1>1, <1>2, SamePersonGoesOn, SameLinksFade, SameSessionsGoOn, SameResetsGoOn, FadeKeeps

\* Nothing but the account, its links and its sessions changes.
LEMMA SecretsChange ==
    ASSUME StaffInv, UNCHANGED <<member, author>>, PersonGoesOn, LinksFade, SessionsGoOn,
           ResetsGoOn
    PROVE  StaffInv'
<1>1. MembersFit
  BY SameMembersFit DEF StaffInv, StaffTypeOK
<1> QED
  BY <1>1, FadeKeeps

LEMMA ElapseStep == ASSUME StaffInv, NEW l \in Links, LinkElapses(l) PROVE StaffInv'
<1>1. /\ link' = [link EXCEPT ![l].elapsed = TRUE] /\ link[l].state = "ACTIVE"
      /\ UNCHANGED <<person, member, author, reset, session>>
  BY DEF LinkElapses
<1>2. LinksFade
  BY <1>1, OneLinkFades
<1> QED
  BY <1>1, <1>2, SamePersonGoesOn, SameSessionsGoOn, SameResetsGoOn, SecretsChange

\* The invitation that is accepted was the only one of its membership.
LEMMA AcceptStep == ASSUME StaffInv, NEW l \in Links, Accept(l) PROVE StaffInv'
<1> DEFINE k == link[l].purpose
<1>1. /\ k \in Realms /\ link[l].state = "ACTIVE" /\ CanRevise(k)
      /\ member' = Revised(k, "ACTIVE") /\ link' = [link EXCEPT ![l].state = "ACCEPTED"]
      /\ UNCHANGED <<author, reset, session>>
  BY DEF Accept, InviteHolds
<1>2. PersonGoesOn
  <2>1. UNCHANGED person \/ ChooseNewPassword
    BY DEF Accept
  <2> QED
    BY <2>1, SamePersonGoesOn, NewPassword
<1>3. LinksFade /\ link'[l].state # "ACTIVE"
  BY <1>1, OneLinkFades
<1>4. ActiveLinks(k)' = {}
  <2>1. l \in ActiveLinks(k) /\ k \in Realms \cup {"RESET"}
    BY <1>1 DEF ActiveLinks
  <2>2. \A m \in ActiveLinks(k) : m = l
    BY <2>1 DEF StaffInv, StaffTypeOK
  <2>3. \A m \in Links : link'[m].purpose = k /\ link'[m].state = "ACTIVE" => m = l
    BY <1>3, <2>2 DEF LinksFade, SameLink, ActiveLinks
  <2> HIDE DEF k
  <2>4. k' = k
    BY <1>3 DEF k, LinksFade, SameLink
  <2> QED
    BY <1>3, <2>3, <2>4 DEF ActiveLinks
<1>5. MembersFit /\ \A j \in Realms \ {k} : member'[j] = member[j]
  <2>1. author' \in [Realms -> BOOLEAN]
    BY <1>1 DEF StaffInv, StaffTypeOK
  <2> HIDE DEF k
  <2> QED
    BY <1>1, <2>1, RevisedFits
<1>6. \A j \in Realms : member'[j] = member[j] \/ ActiveLinks(j)' = {}
  <2> QED
    BY <1>4, <1>5, <1>3 DEF LinksFade, SameLink
<1> QED
  BY <1>1, <1>2, <1>3, <1>5, <1>6, SameSessionsGoOn, SameResetsGoOn, FadeKeeps

LEMMA CompleteStep == ASSUME StaffInv, NEW l \in Links, CompleteReset(l) PROVE StaffInv'
<1>1. /\ ChooseNewPassword /\ link' = [link EXCEPT ![l].state = "ACCEPTED"]
      /\ link[l].state = "ACTIVE" /\ UNCHANGED <<member, author, reset, session>>
  BY DEF CompleteReset, ResetHolds
<1>2. LinksFade
  BY <1>1, OneLinkFades
<1> QED
  BY <1>1, <1>2, NewPassword, SameSessionsGoOn, SameResetsGoOn, SecretsChange

LEMMA RequestStep == ASSUME StaffInv, RequestReset PROVE StaffInv'
<1>1. PICK q \in Resets :
         /\ \A m \in Resets : reset[m] = "NONE" <=> m >= q
         /\ reset' = [reset EXCEPT ![q] = "QUEUED"]
  BY DEF RequestReset
<1>2. ResetsGoOn
  <2>1. reset[q] = "NONE"
    BY <1>1 DEF Resets
  <2> QED
    BY <1>1, <2>1 DEF ResetsGoOn, StaffInv, StaffTypeOK
<1>3. UNCHANGED <<person, member, author, link, session>>
  BY DEF RequestReset
<1> QED
  BY <1>2, <1>3, SamePersonGoesOn, SameLinksFade, SameSessionsGoOn, SecretsChange

\* The worker that meets the newest request issues the link.
LEMMA ProcessIssues ==
    ASSUME StaffInv, NEW q \in Resets, ProcessReset(q), person.verified, ~NewerRequest(q)
    PROVE  StaffInv'
<1>1. /\ Issue("RESET", 0, q) /\ reset' = [reset EXCEPT ![q] = "PROCESSED"]
      /\ UNCHANGED <<person, member, author, session>>
  BY DEF ProcessReset
<1>2. PICK n \in Links : Issued(n, "RESET", 0, q)
  <2>1. 0 \in 0 .. MaxRevision /\ q \in 0 .. MaxResets
    BY StaffAssumption DEF Resets
  <2> QED
    BY <1>1, <2>1, IssuedLink
<1>3. ActiveLinks("RESET")' \subseteq {n} /\ link'[n].reset = q
  BY <1>2 DEF Issued, SameLink, ActiveLinks
<1>4. \A k \in Realms : \A l \in ActiveLinks(k)' : l \in ActiveLinks(k) /\ SameLink(l)
  BY <1>2 DEF Issued, SameLink, ActiveLinks, Realms
<1>5. \A m \in Resets : m > q => reset'[m] = "NONE"
  <2>1. \A m \in Resets : m > q => reset[m] = "NONE" /\ m # q
    BY DEF NewerRequest, Resets
  <2> QED
    BY <1>1, <2>1 DEF StaffInv, StaffTypeOK
<1>6. LinksFitTheirPurpose'
  BY <1>1, <1>3, <1>4, <1>5 DEF LinksFitTheirPurpose, StaffInv, SameLink
<1>7. MembersFit
  BY <1>1, SameMembersFit DEF StaffInv, StaffTypeOK
<1>8. reset' \in [Resets -> {"NONE", "QUEUED", "PROCESSED"}]
  BY <1>1 DEF StaffInv, StaffTypeOK
<1> QED
  BY <1>1, <1>2, <1>6, <1>7, <1>8, SameSessionsGoOn, IssueKeeps

\* A worker that meets an overtaken request leaves the link to the newest one.
LEMMA ProcessSkips ==
    ASSUME StaffInv, NEW q \in Resets, ProcessReset(q), ~person.verified \/ NewerRequest(q)
    PROVE  StaffInv'
<1>1. /\ reset[q] = "QUEUED" /\ reset' = [reset EXCEPT ![q] = "PROCESSED"]
      /\ UNCHANGED <<person, member, author, link, session>>
  BY DEF ProcessReset
<1>2. reset' \in [Resets -> {"NONE", "QUEUED", "PROCESSED"}]
      /\ \A m \in Resets : m # q => reset'[m] = reset[m]
  BY <1>1 DEF StaffInv, StaffTypeOK
<1>3. ASSUME NEW l \in ActiveLinks("RESET"), NEW r \in Resets,
             r > link[l].reset, reset'[r] = "PROCESSED"
      PROVE  \E m \in Resets : m > r /\ reset'[m] = "QUEUED"
  <2>1. l \in Links /\ link[l].reset \in Nat /\ q \in Nat /\ r \in Nat
    BY RowFields DEF ActiveLinks, Resets
  <2>2. PICK m \in Resets : m > q /\ reset[m] \in {"QUEUED", "PROCESSED"}
    <3>1. person.verified
      BY DEF ActiveLinks, StaffInv, RowsFit
    <3> QED
      BY <3>1 DEF NewerRequest, StaffInv, StaffTypeOK
  <2>3. q > link[l].reset =>
          \E later \in Resets : later > q /\ reset'[later] = "QUEUED"
    <3> SUFFICES ASSUME q > link[l].reset
                 PROVE  \E later \in Resets : later > q /\ reset'[later] = "QUEUED"
      OBVIOUS
    <3>1. CASE reset[m] = "QUEUED"
      BY <1>2, <2>1, <2>2, <3>1 DEF Resets
    <3>2. CASE reset[m] = "PROCESSED"
      <4>1. m > link[l].reset
        BY <2>1, <2>2 DEF Resets
      <4>2. PICK later \in Resets : later > m /\ reset[later] = "QUEUED"
        BY <3>2, <4>1 DEF StaffInv, LinksFitTheirPurpose
      <4>3. later > q
        BY <2>1, <2>2, <4>2 DEF Resets
      <4>4. later # q
        BY <2>1, <4>3
      <4> QED
        BY <1>2, <4>2, <4>3, <4>4
    <3> QED
      BY <2>2, <3>1, <3>2
  <2>4. CASE r = q
    BY <1>3, <2>3, <2>4
  <2>5. CASE r # q
    <3>1. reset[r] = "PROCESSED"
      BY <1>2, <1>3, <2>5
    <3>2. PICK later \in Resets : later > r /\ reset[later] = "QUEUED"
      BY <1>3, <3>1 DEF StaffInv, LinksFitTheirPurpose
    <3>3. CASE later # q
      BY <1>2, <3>2, <3>3
    <3>4. CASE later = q
      <4>1. q > link[l].reset
        BY <1>3, <2>1, <3>2, <3>4
      <4>2. PICK last \in Resets : last > q /\ reset'[last] = "QUEUED"
        BY <2>3, <4>1
      <4>3. last > r
        BY <2>1, <3>2, <3>4, <4>2 DEF Resets
      <4> QED
        BY <4>2, <4>3
    <3> QED
      BY <3>3, <3>4
  <2> QED
    BY <2>4, <2>5
<1>4. \A p : ActiveLinks(p)' = ActiveLinks(p)
  BY <1>1 DEF ActiveLinks
<1>5. LinksFitTheirPurpose'
  BY <1>1, <1>3, <1>4 DEF StaffInv, LinksFitTheirPurpose
<1>6. StaffTypeOK'
  BY <1>1, <1>2, <1>4 DEF StaffInv, StaffTypeOK
<1>7. SecretsAreOrdered' /\ RowsFit'
  BY <1>1 DEF StaffInv, SecretsAreOrdered, RowsFit
<1> QED
  BY <1>5, <1>6, <1>7 DEF StaffInv

LEMMA LoginStep == ASSUME StaffInv, NEW k \in Realms, Login(k) PROVE StaffInv'
<1>1. PICK s \in Sessions, rehashed \in {0, 1} :
         /\ person.verified /\ person.epoch + rehashed <= MaxEpoch
         /\ person' = [person EXCEPT !.epoch = @ + rehashed]
         /\ session' = [session EXCEPT ![s] =
               [realm |-> k, revision |-> member[k].revision, epoch |-> person.epoch + rehashed,
                over |-> FALSE, password |-> person.password]]
         /\ UNCHANGED <<member, author, link, reset>>
  BY DEF Login
<1>2. /\ person \in Persons /\ person.epoch \in 0 .. MaxEpoch
      /\ person.password \in 0 .. MaxEpoch /\ person.verified \in BOOLEAN
  BY DEF StaffInv, StaffTypeOK, Persons
<1>3. person' = [verified |-> person.verified, epoch |-> person.epoch + rehashed,
                 password |-> person.password]
  BY <1>1, <1>2 DEF Persons
<1>4. PersonGoesOn
  <2>1. person.epoch + rehashed \in 0 .. MaxEpoch /\ person.epoch <= person.epoch + rehashed
    BY <1>1, <1>2, StaffAssumption
  <2>2. person' \in Persons
    BY <1>2, <1>3, <2>1 DEF Persons
  <2>3. person.password <= person.epoch
    BY DEF StaffInv, SecretsAreOrdered
  <2> QED
    BY <1>2, <1>3, <2>1, <2>2, <2>3 DEF PersonGoesOn
<1>5. SessionsGoOn
  <2> DEFINE Row == [realm |-> k, revision |-> member[k].revision,
                     epoch |-> person.epoch + rehashed, over |-> FALSE,
                     password |-> person.password]
  <2>1. member[k].revision \in 0 .. MaxRevision
    BY DEF StaffInv, StaffTypeOK, Memberships
  <2>2. person.epoch + rehashed \in 0 .. MaxEpoch
    BY <1>1, <1>2, StaffAssumption
  <2>3. Row \in SessionRows /\ Row.epoch = person'.epoch /\ Row.password = person'.password
    BY <1>2, <1>3, <2>1, <2>2 DEF SessionRows
  <2>4. session' = [session EXCEPT ![s] = Row]
    BY <1>1
  <2> HIDE DEF Row
  <2> QED
    BY <2>3, <2>4 DEF SessionsGoOn, StaffInv, StaffTypeOK
<1> QED
  BY <1>1, <1>4, <1>5, SameLinksFade, SameResetsGoOn, SecretsChange

LEMMA SessionEndStep == ASSUME StaffInv, NEW s \in Sessions, SessionEnds(s) PROVE StaffInv'
<1>1. /\ session' = [session EXCEPT ![s].over = TRUE]
      /\ UNCHANGED <<person, member, author, link, reset>>
  BY DEF SessionEnds
<1>2. session' = [t \in Sessions |-> IF t \in {s} THEN [session[t] EXCEPT !.over = TRUE]
                                                  ELSE session[t]]
  BY <1>1 DEF StaffInv, StaffTypeOK
<1> QED
  BY <1>1, <1>2, EndedSessionsGoOn, SamePersonGoesOn, SameLinksFade, SameResetsGoOn,
     SecretsChange

LEMMA LogoutAllStep == ASSUME StaffInv, NEW s \in Sessions, LogoutAll(s) PROVE StaffInv'
<1>1. /\ person' = [person EXCEPT !.epoch = @ + 1] /\ person.epoch < MaxEpoch
      /\ UNCHANGED <<member, author, link, reset, session>>
  BY DEF LogoutAll
<1>2. person \in Persons /\ person.verified \in BOOLEAN
  BY DEF StaffInv, StaffTypeOK, Persons
<1>3. person' = [verified |-> person.verified, epoch |-> person.epoch + 1,
                 password |-> person.password]
  BY <1>1, <1>2 DEF Persons
<1>4. PersonGoesOn
  BY <1>1, <1>2, <1>3, NewEpoch
<1> QED
  BY <1>1, <1>4, SameLinksFade, SameSessionsGoOn, SameResetsGoOn, SecretsChange

LEMMA ChangePasswordStep ==
    ASSUME StaffInv, NEW s \in Sessions, ChangePassword(s) PROVE StaffInv'
<1>1. ChooseNewPassword /\ UNCHANGED <<member, author, link, reset, session>>
  BY DEF ChangePassword
<1> QED
  BY <1>1, NewPassword, SameLinksFade, SameSessionsGoOn, SameResetsGoOn, SecretsChange

LEMMA StaffStep == StaffInv /\ [StaffNext]_staffVars => StaffInv'
<1> SUFFICES ASSUME StaffInv, [StaffNext]_staffVars PROVE StaffInv'
  OBVIOUS
<1>1. CASE UNCHANGED staffVars
  <2>1. UNCHANGED <<person, member, author, link, reset, session>>
    BY <1>1 DEF staffVars
  <2> QED
    BY <2>1, SamePersonGoesOn, SameLinksFade, SameSessionsGoOn, SameResetsGoOn, SecretsChange
<1>2. ASSUME NEW k \in Realms, MemberStep(k) PROVE StaffInv'
  BY <1>2, InviteStep, ReinviteStep, RevokeStep, ChangeStep, AuthorStep, LoginStep
  DEF MemberStep
<1>3. ASSUME NEW l \in Links, LinkStep(l) PROVE StaffInv'
  BY <1>3, ElapseStep, AcceptStep, CompleteStep DEF LinkStep
<1>4. ASSUME NEW s \in Sessions, SessionStep(s) PROVE StaffInv'
  BY <1>4, SessionEndStep, LogoutAllStep, ChangePasswordStep DEF SessionStep
<1>5. ASSUME NEW q \in Resets, ProcessReset(q) PROVE StaffInv'
  BY <1>5, ProcessIssues, ProcessSkips
<1> QED
  BY <1>1, <1>2, <1>3, <1>4, <1>5, RequestStep DEF StaffNext

LEMMA StaffInvariance == StaffSpec => []StaffInv
  BY InitStaffInv, StaffStep, PTL DEF StaffSpec

-----------------------------------------------------------------------------
(* The theorems.                                                           *)

\* The account, its memberships, links, requests and sessions are rows of the
\* tables, and at most one link of a purpose is active: the unique index of
\* staff_link is never in the way of a command.
THEOREM StaffTypes == StaffSpec => []StaffTypeOK
<1>1. StaffInv => StaffTypeOK
  BY DEF StaffInv
<1> QED
  BY <1>1, StaffInvariance, PTL

\* In every order of commands, acceptances and workers, a living invitation is
\* one of the present revision of its membership, and a living reset link one of
\* the latest request that was processed.
THEOREM LivingLinksFit == StaffSpec => []LinksFitTheirPurpose
<1>1. StaffInv => LinksFitTheirPurpose
  BY DEF StaffInv
<1> QED
  BY <1>1, StaffInvariance, PTL

\* A usable session and a living reset link are of the present password.
LEMMA OldSecretsDie == StaffInv => OldSecretsAreDead
<1> SUFFICES ASSUME StaffInv PROVE OldSecretsAreDead
  OBVIOUS
<1>1. ASSUME NEW s \in Sessions, session[s] # NoSession, Usable(s)
      PROVE  session[s].password = person.password
  <2>1. session[s].realm # "NONE"
    BY <1>1 DEF StaffInv, StaffTypeOK, SessionRows, Realms
  <2> QED
    BY <1>1, <2>1 DEF Usable, StaffInv, SecretsAreOrdered
<1>2. ASSUME NEW l \in Links, ResetHolds(l) PROVE link[l].password = person.password
  BY <1>2 DEF ResetHolds, StaffInv, SecretsAreOrdered
<1> QED
  BY <1>1, <1>2 DEF OldSecretsAreDead

\* The epochs that the code compares are as good as comparing passwords: what
\* was opened or issued under an older password is not accepted.
THEOREM NewPasswordEndsOldSecrets == StaffSpec => []OldSecretsAreDead
BY OldSecretsDie, StaffInvariance, PTL

-----------------------------------------------------------------------------
(***************************************************************************)
(* Payouts. Every payable is in one batch that is not void, and of the     *)
(* attempts to pay a batch all but the last have failed at the bank; the   *)
(* ledger holds the payable of the last assessment, whichever amounts the  *)
(* commission was taken from.                                              *)
(***************************************************************************)

\* A booking that was not assessed has no corrections, and the ledger follows
\* the assessments.
LedgerFits ==
    /\ \A h \in Holds : settlement[h].net = -1 => adjustment[h] = <<>>
    /\ LedgerFollowsAssessment

\* A payable is in one batch that is not void, and a batch that is not made has
\* no attempts.
BatchesApart ==
    /\ \A b, c \in Batches :
          ~batch[b].void /\ ~batch[c].void /\ b # c => batch[b].lines \cap batch[c].lines = {}
    /\ \A b \in Batches : ~Made(b) => ~batch[b].void /\ attempts[b] = 0

\* Of the attempts to pay a batch all but the last have failed at the bank, and
\* the bank knows of no other; what the platform wrote down is what the bank did.
AttemptsInOrder ==
    \A b \in Batches, k \in Payouts :
        /\ bank[b][k] # "none" => k <= attempts[b]
        /\ k < attempts[b] => result[b][k] = "FAILED"
        /\ result[b][k] = "FAILED" => bank[b][k] = "FAILED"

PayoutsFit == BatchesApart /\ AttemptsInOrder /\ VoidedCannotPay

SettlementInv == SettlementTypeOK /\ LedgerFits /\ PayoutsFit

-----------------------------------------------------------------------------
(* Amounts.                                                                *)

\* A commission is a part of the amount.
LEMMA CommissionIsAPart ==
    ASSUME NEW kept \in Nat
    PROVE  CommissionOf(kept) \in 0 .. kept /\ PayableOf(kept) \in 0 .. kept
<1>1. Rate \in 0 .. 10000
  BY SettlementAssumption
<1> DEFINE base == kept * Rate
<1>2. base \in Nat /\ base <= kept * 10000
  BY <1>1
<1> HIDE DEF base
<1> DEFINE part == (base + 5000) \div 10000
<1>3. part \in 0 .. kept
  <2>1. part \in Int /\ 10000 * part <= base + 5000 /\ base + 5000 < 10000 * part + 10000
    BY <1>2
  <2> HIDE DEF part
  <2> QED
    BY <1>2, <2>1
<1>4. CommissionOf(kept) = part
  BY DEF CommissionOf, base
<1> HIDE DEF part
<1> QED
  BY <1>3, <1>4 DEF PayableOf

\* A commission of at most half moves with every second unit at most.
LEMMA PayableIsNearlyExact ==
    ASSUME NEW x \in Nat, NEW y \in Nat, Rate <= 5000, PayableOf(x) = PayableOf(y), x <= y
    PROVE  y - x \in {0, 1}
<1> DEFINE bx == x * Rate
           by == y * Rate
           d == y - x
<1>1. Rate \in 0 .. 5000 /\ d \in Nat
  BY SettlementAssumption
<1>2. bx \in Nat /\ by \in Nat /\ by - bx = d * Rate /\ d * Rate <= d * 5000
  <2>1. bx \in Nat /\ by \in Nat
    BY <1>1
  <2>2. by - bx = d * Rate
    BY <1>1
  <2>3. d * Rate <= d * 5000
    <3> HIDE DEF d
    <3> QED
      BY <1>1
  <2> QED
    BY <2>1, <2>2, <2>3
<1>3. x - ((bx + 5000) \div 10000) = y - ((by + 5000) \div 10000)
  BY DEF PayableOf, CommissionOf
<1>4. y = x + d
  OBVIOUS
<1> DEFINE cx == (bx + 5000) \div 10000
           cy == (by + 5000) \div 10000
           slope == d * Rate
<1> HIDE DEF bx, by, d
<1>5. /\ cx \in Int /\ bx + 5000 < 10000 * cx + 10000
      /\ cy \in Int /\ 10000 * cy <= by + 5000
  BY <1>2
<1>6. slope \in Int /\ by - bx = slope /\ slope <= d * 5000
  BY <1>1, <1>2
<1>7. x - cx = y - cy
  BY <1>3
<1> HIDE DEF cx, cy, slope
<1>8. cy - cx = d
  BY <1>1, <1>4, <1>5, <1>7
<1>9. 10000 * d < 10000 + 5000 * d
  BY <1>1, <1>2, <1>5, <1>6, <1>8
<1>10. d \in {0, 1}
  BY <1>1, <1>9
<1> QED
  BY <1>1, <1>4, <1>10

\* A correction adds up with those before it.
LEMMA CorrectionsAddUp ==
    ASSUME NEW s \in Seq(Int)
    PROVE  /\ SumFunction(s) \in Int
           /\ \A d \in Int : SumFunction(Append(s, d)) = SumFunction(s) + d
<1> DEFINE S == 1 .. Len(s)
           e == Len(s) + 1
<1>1. IsFiniteSet(S) /\ DOMAIN s = S /\ e \notin S /\ \A i \in S : s[i] \in Int
  BY FS_Interval
<1>2. SumFunction(s) = SumFunctionOnSet(s, S)
  BY <1>1 DEF SumFunction
<1>3. SumFunctionOnSet(s, S) \in Int
  <2> HIDE DEF S
  <2> QED
    BY <1>1, SumType
<1>4. ASSUME NEW d \in Int PROVE SumFunction(Append(s, d)) = SumFunction(s) + d
  <2> DEFINE t == Append(s, d)
  <2>1. DOMAIN t = S \cup {e} /\ t[e] = d /\ \A i \in S : t[i] = s[i]
    OBVIOUS
  <2>2. SumFunction(t) = SumFunctionOnSet(t, S \cup {e})
    BY <2>1 DEF SumFunction
  <2> HIDE DEF S, e, t
  <2>3. SumFunctionOnSet(t, S \cup {e}) = SumFunctionOnSet(s, S) + t[e]
    BY <1>1, <2>1, SumEnters
  <2>4. SumFunction(t) = SumFunction(s) + d
    BY <1>2, <2>1, <2>2, <2>3
  <2> QED
    BY <2>4 DEF t
<1> QED
  BY <1>2, <1>3, <1>4

-----------------------------------------------------------------------------
(* Init and the steps that leave the payables or the batches alone.        *)

\* Nothing has ended, been assessed or been paid in the beginning.
LEMMA InitSettlementInv == SettlementInit => SettlementInv
<1> SUFFICES ASSUME SettlementInit PROVE SettlementInv
  OBVIOUS
<1>1. SettlementTypeOK
  <2>1. 0 \in 0 .. Price /\ -1 \in -1 .. Price /\ 0 \in 0 .. MaxPayouts
        /\ 0 <= MaxRevisions /\ 0 <= MaxAdjustments
    BY SettlementAssumption
  <2>2. credit \in [Holds -> [recorded : BOOLEAN, disputed : BOOLEAN, chargeback : 0 .. Price]]
    BY <2>1 DEF SettlementInit
  <2>3. settlement \in [Holds -> [net : -1 .. Price, matured : BOOLEAN]]
    BY <2>1 DEF SettlementInit
  <2>4. batch \in [Batches -> BatchRows]
    BY <2>1 DEF SettlementInit, BatchRows
  <2>5. /\ adjustment \in [Holds -> Seq((-Price .. Price) \ {0})]
        /\ \A h \in Holds : Len(adjustment[h]) <= MaxAdjustments
        /\ beneficiary \in Seq(Accounts) /\ Len(beneficiary) <= MaxRevisions
    BY <2>1 DEF SettlementInit
  <2>6. /\ attempts \in [Batches -> 0 .. MaxPayouts]
        /\ result \in [Batches -> [Payouts -> {"none", "FAILED", "SUCCEEDED"}]]
        /\ bank \in [Batches -> [Payouts -> {"none", "PENDING", "FAILED", "SUCCEEDED"}]]
    BY <2>1 DEF SettlementInit
  <2>7. /\ outcome \in [Holds -> Retentions \cup {-1}] /\ unresolved \in [Holds -> BOOLEAN]
        /\ commission \in [Holds -> 0 .. Price] /\ assessed \in [Holds -> 0 .. Price]
        /\ active \in Accounts \cup {NoAccount}
    BY <2>1 DEF SettlementInit
  <2> QED
    BY <2>2, <2>3, <2>4, <2>5, <2>6, <2>7 DEF SettlementTypeOK
<1>2. \A h \in Holds : settlement[h].net = -1 /\ adjustment[h] = <<>>
  BY DEF SettlementInit
<1>3. LedgerFits
  BY <1>2 DEF LedgerFits, LedgerFollowsAssessment
<1>4. \A b \in Batches : batch[b].lines = {} /\ batch[b].void = FALSE /\ attempts[b] = 0
  BY DEF SettlementInit
<1>5. \A b \in Batches, k \in Payouts : bank[b][k] = "none" /\ result[b][k] = "none" /\ ~(k < attempts[b])
  BY <1>4 DEF SettlementInit, Payouts
<1>6. PayoutsFit
  BY <1>4, <1>5 DEF PayoutsFit, BatchesApart, AttemptsInOrder, VoidedCannotPay, Made
<1> QED
  BY <1>1, <1>3, <1>6 DEF SettlementInv

\* Only an assessment changes the ledger.
LEMMA SameLedger ==
    ASSUME LedgerFits, UNCHANGED adjustment, UNCHANGED commission, UNCHANGED assessed,
           \A h \in Holds : settlement'[h].net = settlement[h].net
    PROVE  LedgerFits'
<1>1. \A h \in Holds : Effective(h)' = Effective(h)
  BY DEF Effective
<1> QED
  BY <1>1 DEF LedgerFits, LedgerFollowsAssessment

\* Only the platform and the bank change a batch.
LEMMA SamePayouts == ASSUME PayoutsFit, UNCHANGED <<batch, payments>> PROVE PayoutsFit'
  BY DEF PayoutsFit, BatchesApart, AttemptsInOrder, VoidedCannotPay, Made, payments

\* The booking, the payers' bank, the account and the beneficiary.
LEMMA EvidenceStep ==
    ASSUME SettlementInv,
           \/ \E h \in Holds : BookingEnds(h) \/ ChangeUnresolved(h) \/ RecordCredit(h) \/ Dispute(h)
           \/ BankVerifiesAccount
           \/ \E a \in Accounts : RegisterBeneficiary(a)
    PROVE  SettlementInv'
<1> USE DEF payable, payees, payments, bookings
<1>1. UNCHANGED payable /\ UNCHANGED <<batch, payments>>
  BY DEF BookingEnds, ChangeUnresolved, RecordCredit, Dispute, BankVerifiesAccount, RegisterBeneficiary
<1>2. LedgerFits' /\ PayoutsFit'
  BY <1>1, SameLedger, SamePayouts DEF SettlementInv
<1>3. /\ outcome' \in [Holds -> Retentions \cup {-1}]
      /\ unresolved' \in [Holds -> BOOLEAN]
  BY DEF SettlementInv, SettlementTypeOK, BookingEnds, ChangeUnresolved, RecordCredit, Dispute,
         BankVerifiesAccount, RegisterBeneficiary
<1>4. credit' \in [Holds -> [recorded : BOOLEAN, disputed : BOOLEAN, chargeback : 0 .. Price]]
  <2>1. credit \in [Holds -> [recorded : BOOLEAN, disputed : BOOLEAN, chargeback : 0 .. Price]]
    BY DEF SettlementInv, SettlementTypeOK
  <2>2. ASSUME NEW h \in Holds, RecordCredit(h)
        PROVE credit' \in [Holds -> [recorded : BOOLEAN, disputed : BOOLEAN, chargeback : 0 .. Price]]
    BY <2>1, <2>2 DEF RecordCredit
  <2>3. ASSUME NEW h \in Holds, Dispute(h)
        PROVE credit' \in [Holds -> [recorded : BOOLEAN, disputed : BOOLEAN, chargeback : 0 .. Price]]
    <3>1. PICK opened \in BOOLEAN, amount \in Chargebacks :
             credit' = [credit EXCEPT ![h].disputed = opened, ![h].chargeback = amount]
      BY <2>3 DEF Dispute
    <3>2. amount \in 0 .. Price
      BY SettlementAssumption
    <3> QED
      BY <2>1, <3>1, <3>2
  <2> QED
    BY <2>1, <2>2, <2>3 DEF BookingEnds, ChangeUnresolved, BankVerifiesAccount, RegisterBeneficiary
<1>5. active' \in Accounts \cup {NoAccount}
  <2>1. active \in Accounts \cup {NoAccount}
    BY DEF SettlementInv, SettlementTypeOK
  <2>2. active' = active \/ active' \in Accounts \cup {NoAccount}
    BY DEF BookingEnds, ChangeUnresolved, RecordCredit, Dispute, BankVerifiesAccount, RegisterBeneficiary
  <2> QED
    BY <2>1, <2>2
<1>6. beneficiary' \in Seq(Accounts) /\ Len(beneficiary') <= MaxRevisions
  <2>1. beneficiary \in Seq(Accounts) /\ Len(beneficiary) <= MaxRevisions /\ MaxRevisions \in Nat
    <3>1. beneficiary \in Seq(Accounts) /\ Len(beneficiary) <= MaxRevisions
      BY DEF SettlementInv, SettlementTypeOK
    <3>2. MaxRevisions \in Nat
      BY SettlementAssumption
    <3> QED
      BY <3>1, <3>2
  <2>2. ASSUME NEW a \in Accounts, RegisterBeneficiary(a)
        PROVE beneficiary' \in Seq(Accounts) /\ Len(beneficiary') <= MaxRevisions
    BY <2>1, <2>2 DEF RegisterBeneficiary
  <2>3. BankVerifiesAccount => beneficiary' = beneficiary
    BY DEF BankVerifiesAccount
  <2>4. \A g \in Holds : BookingEnds(g) \/ ChangeUnresolved(g) \/ RecordCredit(g) \/ Dispute(g) =>
                             beneficiary' = beneficiary
    BY DEF BookingEnds, ChangeUnresolved, RecordCredit, Dispute
  <2> QED
    BY <2>1, <2>2, <2>3, <2>4
<1>7. SettlementTypeOK'
  BY <1>1, <1>3, <1>4, <1>5, <1>6 DEF SettlementInv, SettlementTypeOK
<1> QED
  BY <1>2, <1>7 DEF SettlementInv

\* The day after the first assessment comes.
LEMMA MatureStep == ASSUME SettlementInv, NEW h \in Holds, Mature(h) PROVE SettlementInv'
<1> USE DEF payments, payees, bookings
<1>1. /\ settlement' = [settlement EXCEPT ![h].matured = TRUE]
      /\ UNCHANGED <<bookings, adjustment, commission, assessed, payees, batch, payments>>
  BY DEF Mature
<1>2. settlement' \in [Holds -> [net : -1 .. Price, matured : BOOLEAN]]
      /\ \A g \in Holds : settlement'[g].net = settlement[g].net
  <2> DEFINE old == settlement[h]
             row == [old EXCEPT !.matured = TRUE]
  <2>1. settlement \in [Holds -> [net : -1 .. Price, matured : BOOLEAN]]
    BY DEF SettlementInv, SettlementTypeOK
  <2>2. old \in [net : -1 .. Price, matured : BOOLEAN] /\ settlement' = [settlement EXCEPT ![h] = row]
    BY <1>1, <2>1
  <2> HIDE DEF old
  <2>3. row \in [net : -1 .. Price, matured : BOOLEAN] /\ row.net = old.net
    BY <2>2
  <2> HIDE DEF row
  <2> QED
    BY <2>1, <2>2, <2>3 DEF old
<1>3. LedgerFits' /\ PayoutsFit'
  BY <1>1, <1>2, SameLedger, SamePayouts DEF SettlementInv
<1>4. SettlementTypeOK'
  BY <1>1, <1>2 DEF SettlementInv, SettlementTypeOK
<1> QED
  BY <1>3, <1>4 DEF SettlementInv

-----------------------------------------------------------------------------
(* The assessment.                                                         *)

\* What is assessed is a part of the price.
LEMMA AssessedAmounts ==
    ASSUME SettlementInv, NEW h \in Holds, Assessable(h)
    PROVE  /\ KeptOf(h) \in 0 .. Price /\ CommissionOf(KeptOf(h)) \in 0 .. Price
           /\ NetOf(h) \in 0 .. Price /\ CommissionOf(KeptOf(h)) + NetOf(h) = KeptOf(h)
<1>1. outcome[h] \in 0 .. Price /\ credit[h].chargeback \in 0 .. Price /\ Price \in Nat
  <2>1. outcome[h] \in Retentions /\ credit[h].chargeback \in 0 .. Price
    BY DEF SettlementInv, SettlementTypeOK, Assessable, Terminal
  <2>2. Retentions \subseteq 0 .. Price /\ Price \in Nat
    BY SettlementAssumption
  <2> QED
    BY <2>1, <2>2
<1>2. KeptOf(h) \in 0 .. Price /\ KeptOf(h) \in Nat
  BY <1>1 DEF KeptOf, Assessable
<1>3. CommissionOf(KeptOf(h)) \in 0 .. KeptOf(h) /\ PayableOf(KeptOf(h)) \in 0 .. KeptOf(h)
  BY <1>2, CommissionIsAPart
<1> QED
  BY <1>1, <1>2, <1>3 DEF NetOf, PayableOf

\* A booking that was not assessed owes nothing, any other what was assessed.
LEMMA EffectiveAmount ==
    ASSUME SettlementInv, NEW h \in Holds
    PROVE  /\ adjustment[h] \in Seq(Int) /\ settlement[h].net \in Int
           /\ SumFunction(adjustment[h]) \in Int /\ Effective(h) \in Int
           /\ settlement[h].net # -1 => Effective(h) \in 0 .. Price
           /\ SumFunction(<<>>) = 0
<1>1. adjustment[h] \in Seq(Int) /\ settlement[h].net \in Int
  <2>1. adjustment[h] \in Seq((-Price .. Price) \ {0})
    BY DEF SettlementInv, SettlementTypeOK
  <2>2. Price \in Nat
    BY SettlementAssumption
  <2>3. (-Price .. Price) \ {0} \subseteq Int
    BY <2>2
  <2>4. settlement[h].net \in -1 .. Price
    BY DEF SettlementInv, SettlementTypeOK
  <2>5. adjustment[h] \in Seq(Int)
    BY <2>1, <2>3
  <2> QED
    BY <2>2, <2>4, <2>5
<1>2. SumFunction(adjustment[h]) \in Int
  BY <1>1, CorrectionsAddUp
<1>3. SumFunction(<<>>) = 0
  <2>1. DOMAIN <<>> = {}
    OBVIOUS
  <2> QED
    BY <2>1, SumEmpty DEF SumFunction
<1>4. settlement[h].net # -1 => Effective(h) \in 0 .. Price
  <2> SUFFICES ASSUME settlement[h].net # -1 PROVE Effective(h) \in 0 .. Price
    OBVIOUS
  <2>1. Effective(h) = PayableOf(assessed[h])
    BY DEF SettlementInv, LedgerFits, LedgerFollowsAssessment, AddsUpTo
  <2>3. assessed \in [Holds -> 0 .. Price]
    BY DEF SettlementInv, SettlementTypeOK
  <2>2. assessed[h] \in 0 .. Price /\ Price \in Nat
    BY <2>3, SettlementAssumption
  <2>4. PayableOf(assessed[h]) \in 0 .. assessed[h]
    BY <2>2, CommissionIsAPart
  <2> QED
    BY <2>1, <2>2, <2>4
<1> QED
  BY <1>1, <1>2, <1>3, <1>4 DEF Effective

\* What adds up to one amount adds up to every other of the same payable.
LEMMA SameOwed ==
    ASSUME NEW earned \in Nat, NEW left \in Nat, NEW before, AddsUpTo(earned, left, before),
           NEW kept \in 0 .. Price, PayableOf(kept) = left
    PROVE  AddsUpTo(earned, left, kept)
<1> DEFINE x == earned + left
<1>1. x \in Nat /\ kept \in Nat /\ PayableOf(x) = PayableOf(kept)
  BY SettlementAssumption DEF AddsUpTo
<1> HIDE DEF x
<1>2. Rate <= 5000 => x - kept \in {-1, 0, 1}
  <2> SUFFICES ASSUME Rate <= 5000 PROVE x - kept \in {-1, 0, 1}
    OBVIOUS
  <2>1. CASE x <= kept
    <3>1. kept - x \in {0, 1}
      BY <1>1, <2>1, PayableIsNearlyExact
    <3> QED
      BY <1>1, <3>1
  <2>2. CASE kept <= x
    <3>1. x - kept \in {0, 1}
      BY <1>1, <2>2, PayableIsNearlyExact
    <3> QED
      BY <1>1, <3>1
  <2> QED
    BY <1>1, <2>1, <2>2
<1>3. Rate <= 5000 => earned + left - kept \in {-1, 0, 1}
  BY <1>2 DEF x
<1> QED
  BY <1>3 DEF AddsUpTo

\* A ledger that follows the last assessment, whichever booking was assessed.
LEMMA LedgerFollows ==
    ASSUME SettlementInv, NEW h \in Holds, Assessable(h),
           \A g \in Holds \ {h} : /\ settlement'[g] = settlement[g] /\ adjustment'[g] = adjustment[g]
                                  /\ commission'[g] = commission[g] /\ assessed'[g] = assessed[g],
           settlement'[h].net # -1, Effective(h)' = NetOf(h), assessed'[h] = KeptOf(h),
           \/ commission'[h] = CommissionOf(KeptOf(h))
           \/ settlement[h].net # -1 /\ Effective(h) = NetOf(h) /\ commission'[h] = commission[h]
    PROVE  LedgerFits'
<1>1. /\ KeptOf(h) \in 0 .. Price /\ CommissionOf(KeptOf(h)) \in 0 .. Price
      /\ NetOf(h) \in 0 .. Price /\ CommissionOf(KeptOf(h)) + NetOf(h) = KeptOf(h)
  BY AssessedAmounts
<1>2. \A g \in Holds \ {h} : Effective(g)' = Effective(g)
  BY DEF Effective
<1>3. AddsUpTo(commission'[h], Effective(h)', assessed'[h])
  <2>1. CASE commission'[h] = CommissionOf(KeptOf(h))
    <3>1. AddsUpTo(CommissionOf(KeptOf(h)), NetOf(h), KeptOf(h))
      BY <1>1, SettlementAssumption DEF AddsUpTo, NetOf
    <3> QED
      BY <2>1, <3>1
  <2>2. CASE settlement[h].net # -1 /\ Effective(h) = NetOf(h) /\ commission'[h] = commission[h]
    <3>1. AddsUpTo(commission[h], NetOf(h), assessed[h])
      BY <2>2 DEF SettlementInv, LedgerFits, LedgerFollowsAssessment
    <3>2. commission[h] \in Nat /\ Price \in Nat
      <4>1. commission \in [Holds -> 0 .. Price]
        BY DEF SettlementInv, SettlementTypeOK
      <4>2. commission[h] \in 0 .. Price
        BY <4>1
      <4> HIDE DEF SettlementInv
      <4> QED
        BY <4>2, SettlementAssumption
    <3>3. AddsUpTo(commission[h], NetOf(h), KeptOf(h))
      BY <1>1, <3>1, <3>2, SameOwed DEF NetOf
    <3> QED
      BY <2>2, <3>3
  <2> QED
    BY <2>1, <2>2
<1>4. ASSUME NEW g \in Holds, settlement'[g].net # -1
      PROVE  AddsUpTo(commission'[g], Effective(g)', assessed'[g])
  <2>1. CASE g = h
    BY <1>3, <2>1
  <2>2. CASE g # h
    <3>1. settlement[g].net # -1 /\ Effective(g)' = Effective(g) /\ commission'[g] = commission[g]
          /\ assessed'[g] = assessed[g]
      BY <1>2, <1>4, <2>2
    <3>2. AddsUpTo(commission[g], Effective(g), assessed[g])
      BY <3>1 DEF SettlementInv, LedgerFits, LedgerFollowsAssessment
    <3> QED
      BY <3>1, <3>2
  <2> QED
    BY <2>1, <2>2
<1>6. LedgerFollowsAssessment'
  BY <1>4 DEF LedgerFollowsAssessment
<1>7. \A g \in Holds : settlement'[g].net = -1 => adjustment'[g] = <<>>
  BY DEF SettlementInv, LedgerFits
<1> QED
  BY <1>6, <1>7 DEF LedgerFits

LEMMA AssessStep == ASSUME SettlementInv, NEW h \in Holds, Assess(h) PROVE SettlementInv'
<1> USE DEF payments, payees, bookings
<1>1. /\ Assessable(h) /\ assessed' = [assessed EXCEPT ![h] = KeptOf(h)]
      /\ FirstAssessment(h) \/ Correction(h) \/ NothingNew(h)
      /\ UNCHANGED <<bookings, payees, batch, payments>>
  BY DEF Assess
<1>2. /\ KeptOf(h) \in 0 .. Price /\ CommissionOf(KeptOf(h)) \in 0 .. Price
      /\ NetOf(h) \in 0 .. Price /\ Price \in Nat
  <2>1. Price \in Nat
    BY SettlementAssumption
  <2> QED
    BY <1>1, <2>1, AssessedAmounts
<1>3. /\ adjustment[h] \in Seq(Int) /\ settlement[h].net \in Int
      /\ SumFunction(adjustment[h]) \in Int /\ Effective(h) \in Int
      /\ settlement[h].net # -1 => Effective(h) \in 0 .. Price
      /\ SumFunction(<<>>) = 0
  BY EffectiveAmount
<1>4. /\ settlement \in [Holds -> [net : -1 .. Price, matured : BOOLEAN]]
      /\ adjustment \in [Holds -> Seq((-Price .. Price) \ {0})]
      /\ \A g \in Holds : Len(adjustment[g]) <= MaxAdjustments
      /\ commission \in [Holds -> 0 .. Price] /\ assessed \in [Holds -> 0 .. Price]
  BY DEF SettlementInv, SettlementTypeOK
<1>5. assessed' \in [Holds -> 0 .. Price] /\ assessed'[h] = KeptOf(h)
      /\ \A g \in Holds \ {h} : assessed'[g] = assessed[g]
  BY <1>1, <1>2, <1>4
<1>6. PayoutsFit'
  BY <1>1, SamePayouts DEF SettlementInv
<1>7. CASE FirstAssessment(h)
  <2>1. /\ settlement' = [settlement EXCEPT ![h].net = NetOf(h)] /\ settlement[h].net = -1
        /\ commission' = [commission EXCEPT ![h] = CommissionOf(KeptOf(h))] /\ UNCHANGED adjustment
    BY <1>7 DEF FirstAssessment
  <2>2. /\ settlement' \in [Holds -> [net : -1 .. Price, matured : BOOLEAN]]
        /\ settlement'[h].net = NetOf(h) /\ \A g \in Holds \ {h} : settlement'[g] = settlement[g]
    <3>1. NetOf(h) \in -1 .. Price
      BY <1>2
    <3> QED
      BY <1>4, <2>1, <3>1
  <2>3. /\ commission' \in [Holds -> 0 .. Price] /\ commission'[h] = CommissionOf(KeptOf(h))
        /\ \A g \in Holds \ {h} : commission'[g] = commission[g]
    BY <1>2, <1>4, <2>1
  <2>4. Effective(h)' = NetOf(h)
    <3>1. adjustment'[h] = <<>>
      BY <2>1 DEF SettlementInv, LedgerFits
    <3> QED
      BY <1>2, <1>3, <2>2, <3>1 DEF Effective
  <2>5. LedgerFits'
    BY <1>1, <1>2, <1>5, <2>1, <2>2, <2>3, <2>4, LedgerFollows
  <2>6. SettlementTypeOK'
    BY <1>1, <1>5, <2>1, <2>2, <2>3 DEF SettlementInv, SettlementTypeOK
  <2> QED
    BY <1>6, <2>5, <2>6 DEF SettlementInv
<1>8. CASE Correction(h)
  <2> DEFINE d == NetOf(h) - Effective(h)
  <2>1. /\ settlement[h].net # -1 /\ NetOf(h) # Effective(h) /\ Len(adjustment[h]) < MaxAdjustments
        /\ adjustment' = [adjustment EXCEPT ![h] = Append(adjustment[h], d)]
        /\ commission' = [commission EXCEPT ![h] = CommissionOf(KeptOf(h))] /\ UNCHANGED settlement
    BY <1>8 DEF Correction
  <2>2. d \in (-Price .. Price) \ {0} /\ d \in Int
    BY <1>2, <1>3, <2>1
  <2>3. Effective(h) + d = NetOf(h)
    BY <1>2, <1>3
  <2> HIDE DEF d
  <2>4. Append(adjustment[h], d) \in Seq((-Price .. Price) \ {0}) /\ Len(Append(adjustment[h], d)) = Len(adjustment[h]) + 1
    BY <1>4, <2>2
  <2>5. /\ adjustment' \in [Holds -> Seq((-Price .. Price) \ {0})]
        /\ adjustment'[h] = Append(adjustment[h], d)
        /\ \A g \in Holds \ {h} : adjustment'[g] = adjustment[g]
    BY <1>4, <2>1, <2>4
  <2>6. \A g \in Holds : Len(adjustment'[g]) <= MaxAdjustments
    <3>1. Len(adjustment[h]) \in Nat /\ MaxAdjustments \in Nat
      BY <1>3, SettlementAssumption
    <3> QED
      BY <1>4, <2>1, <2>4, <2>5, <3>1
  <2>7. /\ commission' \in [Holds -> 0 .. Price] /\ commission'[h] = CommissionOf(KeptOf(h))
        /\ \A g \in Holds \ {h} : commission'[g] = commission[g]
    BY <1>2, <1>4, <2>1
  <2>8. Effective(h)' = NetOf(h)
    <3>1. SumFunction(adjustment'[h]) = SumFunction(adjustment[h]) + d
      BY <1>3, <2>2, <2>5, CorrectionsAddUp
    <3>2. settlement'[h].net = settlement[h].net
      BY <2>1
    <3>3. settlement[h].net + (SumFunction(adjustment[h]) + d) = NetOf(h)
      BY <1>3, <2>2, <2>3 DEF Effective
    <3> QED
      BY <3>1, <3>2, <3>3 DEF Effective
  <2>9. LedgerFits'
    BY <1>1, <1>5, <2>1, <2>5, <2>7, <2>8, LedgerFollows
  <2>10. SettlementTypeOK'
    BY <1>1, <1>5, <2>1, <2>5, <2>6, <2>7 DEF SettlementInv, SettlementTypeOK
  <2> QED
    BY <1>6, <2>9, <2>10 DEF SettlementInv
<1>9. CASE NothingNew(h)
  <2>1. settlement[h].net # -1 /\ NetOf(h) = Effective(h) /\ UNCHANGED <<settlement, adjustment, commission>>
    BY <1>9 DEF NothingNew
  <2>2. Effective(h)' = NetOf(h)
    BY <2>1 DEF Effective
  <2>3. LedgerFits'
    BY <1>1, <1>5, <2>1, <2>2, LedgerFollows
  <2>4. SettlementTypeOK'
    BY <1>1, <1>5, <2>1 DEF SettlementInv, SettlementTypeOK
  <2> QED
    BY <1>6, <2>3, <2>4 DEF SettlementInv
<1> QED
  BY <1>1, <1>7, <1>8, <1>9

-----------------------------------------------------------------------------
(* The batches and the attempts to pay them.                               *)

\* A step of the batches and the bank.
LEMMA PayoutStepKeeps ==
    ASSUME SettlementInv, UNCHANGED <<bookings, payable, payees>>,
           batch' \in [Batches -> BatchRows], attempts' \in [Batches -> 0 .. MaxPayouts],
           result' \in [Batches -> [Payouts -> {"none", "FAILED", "SUCCEEDED"}]],
           bank' \in [Batches -> [Payouts -> {"none", "PENDING", "FAILED", "SUCCEEDED"}]],
           PayoutsFit'
    PROVE  SettlementInv'
<1>1. LedgerFits'
  BY SameLedger DEF SettlementInv, payable
<1>2. SettlementTypeOK'
  BY DEF SettlementInv, SettlementTypeOK, bookings, payable, payees
<1> QED
  BY <1>1, <1>2 DEF SettlementInv

\* The rows of the batches, their attempts and the bank.
LEMMA PayoutRows ==
    ASSUME SettlementInv
    PROVE  /\ batch \in [Batches -> BatchRows] /\ attempts \in [Batches -> 0 .. MaxPayouts]
           /\ result \in [Batches -> [Payouts -> {"none", "FAILED", "SUCCEEDED"}]]
           /\ bank \in [Batches -> [Payouts -> {"none", "PENDING", "FAILED", "SUCCEEDED"}]]
           /\ MaxPayouts \in Nat /\ MaxBatches \in Nat
<1>1. MaxPayouts \in Nat /\ MaxBatches \in Nat
  BY SettlementAssumption
<1> QED
  BY <1>1 DEF SettlementInv, SettlementTypeOK

\* A batch takes only what is in no batch that is not void.
LEMMA MakeBatchStep == ASSUME SettlementInv, NEW b \in Batches, MakeBatch(b) PROVE SettlementInv'
<1> DEFINE lines == Batchable
           expected == [h \in Holds |-> IF \E s \in Batchable : s[1] = h THEN NetOf(h) ELSE 0]
           Row == [lines |-> lines, expected |-> expected, account |-> active, void |-> FALSE]
<1>1. ~Made(b) /\ batch' = [batch EXCEPT ![b] = Row] /\ UNCHANGED <<bookings, payable, payees, payments>>
  BY DEF MakeBatch
<1>2. /\ batch \in [Batches -> BatchRows] /\ attempts \in [Batches -> 0 .. MaxPayouts]
      /\ result \in [Batches -> [Payouts -> {"none", "FAILED", "SUCCEEDED"}]]
      /\ bank \in [Batches -> [Payouts -> {"none", "PENDING", "FAILED", "SUCCEEDED"}]]
  BY PayoutRows
<1>3. lines \in SUBSET Sources /\ \A s \in lines : Free(s)
  BY DEF Batchable, Due
<1>4. expected \in [Holds -> 0 .. Price]
  <2>1. ASSUME NEW s \in Batchable PROVE s[1] \in Holds /\ Assessable(s[1])
    BY DEF Batchable, Due, Sources
  <2>2. 0 \in 0 .. Price
    BY SettlementAssumption
  <2>3. ASSUME NEW h \in Holds, Assessable(h) PROVE NetOf(h) \in 0 .. Price
    BY <2>3, AssessedAmounts
  <2> QED
    BY <2>1, <2>2, <2>3
<1>5. active \in Accounts \cup {NoAccount}
  BY DEF SettlementInv, SettlementTypeOK
<1> HIDE DEF lines, expected
<1>6. Row \in BatchRows /\ Row.lines = lines /\ Row.void = FALSE
  BY <1>3, <1>4, <1>5 DEF BatchRows
<1> HIDE DEF Row
<1>7. /\ batch' \in [Batches -> BatchRows] /\ batch'[b].lines = lines /\ batch'[b].void = FALSE
      /\ \A c \in Batches \ {b} : batch'[c] = batch[c]
  BY <1>1, <1>2, <1>6
<1>8. UNCHANGED <<attempts, result, bank>>
  BY <1>1 DEF payments
<1>9. BatchesApart'
  <2>1. \A c \in Batches : ~batch[c].void => lines \cap batch[c].lines = {}
    BY <1>3 DEF Free
  <2>2. ASSUME NEW c \in Batches, NEW d \in Batches, ~batch'[c].void, ~batch'[d].void, c # d
        PROVE  batch'[c].lines \cap batch'[d].lines = {}
    <3>1. CASE c = b
      BY <1>7, <2>1, <2>2, <3>1
    <3>2. CASE d = b
      BY <1>7, <2>1, <2>2, <3>2
    <3>3. CASE c # b /\ d # b
      BY <1>7, <2>2, <3>3 DEF SettlementInv, PayoutsFit, BatchesApart
    <3> QED
      BY <3>1, <3>2, <3>3
  <2>3. ASSUME NEW c \in Batches, batch'[c].lines = {} PROVE ~batch'[c].void /\ attempts'[c] = 0
    BY <1>1, <1>7, <1>8, <2>3 DEF SettlementInv, PayoutsFit, BatchesApart, Made
  <2> QED
    BY <2>2, <2>3 DEF BatchesApart, Made
<1>10. AttemptsInOrder'
  BY <1>8 DEF SettlementInv, PayoutsFit, AttemptsInOrder
<1>11. VoidedCannotPay'
  BY <1>7, <1>8 DEF SettlementInv, PayoutsFit, VoidedCannotPay
<1> QED
  BY <1>1, <1>2, <1>7, <1>8, <1>9, <1>10, <1>11, PayoutStepKeeps DEF PayoutsFit

\* The next attempt is made when the last one failed.
LEMMA PayoutStep == ASSUME SettlementInv, NEW b \in Batches, Payout(b) PROVE SettlementInv'
<1>1. /\ Made(b) /\ LastFailed(b) /\ attempts[b] < MaxPayouts
      /\ attempts' = [attempts EXCEPT ![b] = attempts[b] + 1]
      /\ UNCHANGED <<bookings, payable, payees, batch, result, bank>>
  BY DEF Payout
<1>2. /\ batch \in [Batches -> BatchRows] /\ attempts \in [Batches -> 0 .. MaxPayouts]
      /\ result \in [Batches -> [Payouts -> {"none", "FAILED", "SUCCEEDED"}]]
      /\ bank \in [Batches -> [Payouts -> {"none", "PENDING", "FAILED", "SUCCEEDED"}]]
      /\ MaxPayouts \in Nat
  BY PayoutRows
<1>3. attempts[b] \in Nat /\ attempts[b] + 1 \in 0 .. MaxPayouts
  BY <1>1, <1>2
<1>4. /\ attempts' \in [Batches -> 0 .. MaxPayouts] /\ attempts'[b] = attempts[b] + 1
      /\ \A c \in Batches \ {b} : attempts'[c] = attempts[c]
  BY <1>1, <1>2, <1>3
<1>5. BatchesApart'
  BY <1>1, <1>4 DEF SettlementInv, PayoutsFit, BatchesApart, Made
<1>6. ASSUME NEW c \in Batches, NEW k \in Payouts
      PROVE  /\ bank'[c][k] # "none" => k <= attempts'[c]
             /\ k < attempts'[c] => result'[c][k] = "FAILED"
             /\ result'[c][k] = "FAILED" => bank'[c][k] = "FAILED"
  <2>1. k \in Nat /\ k > 0 /\ attempts[c] \in Nat
    BY <1>2 DEF Payouts
  <2>2. /\ bank[c][k] # "none" => k <= attempts[c]
        /\ k < attempts[c] => result[c][k] = "FAILED"
        /\ result[c][k] = "FAILED" => bank[c][k] = "FAILED"
    BY DEF SettlementInv, PayoutsFit, AttemptsInOrder
  <2>3. CASE c # b
    BY <1>1, <1>4, <2>2, <2>3
  <2>4. CASE c = b
    <3>1. k < attempts'[b] => result[b][k] = "FAILED"
      BY <1>1, <1>3, <1>4, <2>1, <2>2, <2>4 DEF LastFailed
    <3>2. bank[b][k] # "none" => k <= attempts'[b]
      BY <1>3, <1>4, <2>1, <2>2, <2>4
    <3> QED
      BY <1>1, <2>2, <2>4, <3>1, <3>2
  <2> QED
    BY <2>3, <2>4
<1>7. AttemptsInOrder'
  BY <1>6 DEF AttemptsInOrder
<1>8. VoidedCannotPay'
  BY <1>1 DEF SettlementInv, PayoutsFit, VoidedCannotPay
<1> QED
  BY <1>1, <1>2, <1>4, <1>5, <1>7, <1>8, PayoutStepKeeps DEF PayoutsFit

\* Steps that change the bank or a result, and no attempt.
LEMMA BankStepKeeps ==
    ASSUME SettlementInv, UNCHANGED <<bookings, payable, payees, attempts>>,
           batch' \in [Batches -> BatchRows],
           result' \in [Batches -> [Payouts -> {"none", "FAILED", "SUCCEEDED"}]],
           bank' \in [Batches -> [Payouts -> {"none", "PENDING", "FAILED", "SUCCEEDED"}]],
           \A b \in Batches :
              /\ batch'[b].lines = batch[b].lines
              /\ batch'[b].void # batch[b].void => Made(b) /\ batch'[b].void,
           \A b \in Batches, k \in Payouts :
              /\ bank[b][k] = "none" /\ bank'[b][k] # "none" => k <= attempts[b]
              /\ bank[b][k] \in {"FAILED", "SUCCEEDED"} => bank'[b][k] = bank[b][k]
              /\ result'[b][k] # result[b][k] => result[b][k] = "none" /\ result'[b][k] = bank'[b][k]
              /\ batch'[b].void => bank'[b][k] \notin {"PENDING", "SUCCEEDED"}
    PROVE  SettlementInv'
<1>1. BatchesApart'
  <2>1. \A b \in Batches : ~batch'[b].void => ~batch[b].void
    <3> TAKE b \in Batches
    <3>1. batch[b].void \in BOOLEAN /\ batch'[b].void \in BOOLEAN
      BY DEF SettlementInv, SettlementTypeOK, BatchRows
    <3>2. CASE batch'[b].void = batch[b].void
      BY <3>2
    <3>3. CASE batch'[b].void # batch[b].void
      BY <3>3
    <3> QED
      BY <3>2, <3>3
  <2>2. ASSUME NEW b \in Batches, batch'[b].lines = {} PROVE ~batch'[b].void /\ attempts'[b] = 0
    <3>1. ~Made(b)
      BY <2>2 DEF Made
    <3>2. ~batch[b].void /\ attempts[b] = 0
      BY <3>1 DEF SettlementInv, PayoutsFit, BatchesApart
    <3>3. batch'[b].void = batch[b].void
      BY <3>1
    <3> QED
      BY <3>2, <3>3
  <2>3. ASSUME NEW b \in Batches, NEW c \in Batches, ~batch'[b].void, ~batch'[c].void, b # c
        PROVE  batch'[b].lines \cap batch'[c].lines = {}
    <3>1. batch[b].lines \cap batch[c].lines = {}
      BY <2>1, <2>3 DEF SettlementInv, PayoutsFit, BatchesApart
    <3> QED
      BY <3>1
  <2> QED
    BY <2>2, <2>3 DEF BatchesApart, Made
<1>2. ASSUME NEW b \in Batches, NEW k \in Payouts
      PROVE  /\ bank'[b][k] # "none" => k <= attempts'[b]
             /\ k < attempts'[b] => result'[b][k] = "FAILED"
             /\ result'[b][k] = "FAILED" => bank'[b][k] = "FAILED"
  <2>1. /\ bank[b][k] # "none" => k <= attempts[b]
        /\ k < attempts[b] => result[b][k] = "FAILED"
        /\ result[b][k] = "FAILED" => bank[b][k] = "FAILED"
    BY DEF SettlementInv, PayoutsFit, AttemptsInOrder
  <2>2. /\ bank[b][k] = "none" /\ bank'[b][k] # "none" => k <= attempts[b]
        /\ bank[b][k] \in {"FAILED", "SUCCEEDED"} => bank'[b][k] = bank[b][k]
        /\ result'[b][k] # result[b][k] => result[b][k] = "none" /\ result'[b][k] = bank'[b][k]
    OBVIOUS
  <2>3. attempts'[b] = attempts[b]
    OBVIOUS
  <2> QED
    BY <2>1, <2>2, <2>3
<1>3. AttemptsInOrder'
  BY <1>2 DEF AttemptsInOrder
<1>4. VoidedCannotPay'
  BY DEF VoidedCannotPay
<1>5. attempts' \in [Batches -> 0 .. MaxPayouts]
  BY DEF SettlementInv, SettlementTypeOK
<1>6. PayoutsFit'
  BY <1>1, <1>3, <1>4 DEF PayoutsFit
<1> QED
  BY <1>5, <1>6, PayoutStepKeeps

\* One cell of a table of attempts.
LEMMA OneAttempt ==
    ASSUME NEW V, NEW f \in [Batches -> [Payouts -> V]], NEW b \in Batches, NEW k \in Payouts,
           NEW v \in V, NEW g, g = [f EXCEPT ![b][k] = v]
    PROVE  /\ g \in [Batches -> [Payouts -> V]] /\ g[b][k] = v
           /\ \A c \in Batches, l \in Payouts : c # b \/ l # k => g[c][l] = f[c][l]
OBVIOUS

\* The bank is told of an attempt, or decides it.
LEMMA TellBankStep ==
    ASSUME SettlementInv, NEW b \in Batches, NEW k \in Payouts, Dispatch(b, k) \/ BankDecides(b, k)
    PROVE  SettlementInv'
<1>1. PICK state \in {"PENDING", "FAILED", "SUCCEEDED"} :
         /\ bank' = [bank EXCEPT ![b][k] = state]
         /\ UNCHANGED <<bookings, payable, payees, batch, attempts, result>>
         /\ \/ bank[b][k] = "none" /\ k <= attempts[b] /\ ~batch[b].void
            \/ bank[b][k] = "PENDING"
  BY DEF Dispatch, BankDecides
<1>2. /\ batch \in [Batches -> BatchRows] /\ attempts \in [Batches -> 0 .. MaxPayouts]
      /\ result \in [Batches -> [Payouts -> {"none", "FAILED", "SUCCEEDED"}]]
      /\ bank \in [Batches -> [Payouts -> {"none", "PENDING", "FAILED", "SUCCEEDED"}]]
  BY PayoutRows
<1>3. /\ bank' \in [Batches -> [Payouts -> {"none", "PENDING", "FAILED", "SUCCEEDED"}]]
      /\ bank'[b][k] = state
      /\ \A c \in Batches, l \in Payouts : c # b \/ l # k => bank'[c][l] = bank[c][l]
  BY <1>1, <1>2, OneAttempt
<1>4. \A c \in Batches, l \in Payouts : batch[c].void => bank[c][l] \notin {"PENDING", "SUCCEEDED"}
  BY DEF SettlementInv, PayoutsFit, VoidedCannotPay
<1>5. ASSUME NEW c \in Batches, NEW l \in Payouts
      PROVE  /\ bank[c][l] = "none" /\ bank'[c][l] # "none" => l <= attempts[c]
             /\ bank[c][l] \in {"FAILED", "SUCCEEDED"} => bank'[c][l] = bank[c][l]
             /\ batch'[c].void => bank'[c][l] \notin {"PENDING", "SUCCEEDED"}
  <2>1. CASE c = b /\ l = k
    BY <1>1, <1>4, <2>1
  <2>2. CASE c # b \/ l # k
    BY <1>1, <1>3, <1>4, <2>2
  <2> QED
    BY <2>1, <2>2
<1> QED
  BY <1>1, <1>2, <1>3, <1>5, BankStepKeeps

\* The platform writes down what the bank has decided.
LEMMA RecordResultStep ==
    ASSUME SettlementInv, NEW b \in Batches, NEW k \in Payouts, RecordResult(b, k)
    PROVE  SettlementInv'
<1>1. /\ result' = [result EXCEPT ![b][k] = bank[b][k]] /\ result[b][k] = "none"
      /\ bank[b][k] \in {"FAILED", "SUCCEEDED"}
      /\ UNCHANGED <<bookings, payable, payees, batch, attempts, bank>>
  BY DEF RecordResult
<1>2. /\ batch \in [Batches -> BatchRows] /\ attempts \in [Batches -> 0 .. MaxPayouts]
      /\ result \in [Batches -> [Payouts -> {"none", "FAILED", "SUCCEEDED"}]]
      /\ bank \in [Batches -> [Payouts -> {"none", "PENDING", "FAILED", "SUCCEEDED"}]]
  BY PayoutRows
<1>3. /\ result' \in [Batches -> [Payouts -> {"none", "FAILED", "SUCCEEDED"}]]
      /\ result'[b][k] = bank[b][k]
      /\ \A c \in Batches, l \in Payouts : c # b \/ l # k => result'[c][l] = result[c][l]
  <2>1. bank[b][k] \in {"none", "FAILED", "SUCCEEDED"}
    BY <1>1
  <2> QED
    BY <1>1, <1>2, <2>1, OneAttempt
<1>4. \A c \in Batches, l \in Payouts : batch[c].void => bank[c][l] \notin {"PENDING", "SUCCEEDED"}
  BY DEF SettlementInv, PayoutsFit, VoidedCannotPay
<1>5. \A c \in Batches, l \in Payouts :
         result'[c][l] # result[c][l] => result[c][l] = "none" /\ result'[c][l] = bank'[c][l]
  BY <1>1, <1>3
<1> QED
  BY <1>1, <1>2, <1>3, <1>4, <1>5, BankStepKeeps

\* A batch is given up, or the bank cancels some of its attempts and the batch stays.
LEMMA VoidStep ==
    ASSUME SettlementInv, NEW b \in Batches, VoidBatch(b) \/ VoidAborted(b) PROVE SettlementInv'
<1>1. PICK ks \in SUBSET Payouts :
         /\ bank' = [bank EXCEPT ![b] = [k \in Payouts |-> IF k \in ks /\ bank[b][k] = "PENDING"
                                                           THEN "FAILED" ELSE bank[b][k]]]
         /\ Made(b) /\ ~batch[b].void
         /\ \/ UNCHANGED batch
            \/ /\ batch' = [batch EXCEPT ![b].void = TRUE] /\ ks = Payouts
               /\ \A k \in Payouts : bank[b][k] # "SUCCEEDED"
         /\ UNCHANGED <<bookings, payable, payees, attempts, result>>
  <2>1. CASE VoidBatch(b)
    BY <2>1 DEF VoidBatch, CancelledAtBank
  <2>2. CASE VoidAborted(b)
    <3>1. PICK ks \in SUBSET {k \in Payouts : bank[b][k] # "SUCCEEDED"} : bank' = CancelledAtBank(b, ks)
      BY <2>2 DEF VoidAborted
    <3>2. ks \in SUBSET Payouts
      OBVIOUS
    <3> QED
      BY <2>2, <3>1, <3>2 DEF VoidAborted, CancelledAtBank
  <2> QED
    BY <2>1, <2>2
<1>2. /\ batch \in [Batches -> BatchRows] /\ attempts \in [Batches -> 0 .. MaxPayouts]
      /\ result \in [Batches -> [Payouts -> {"none", "FAILED", "SUCCEEDED"}]]
      /\ bank \in [Batches -> [Payouts -> {"none", "PENDING", "FAILED", "SUCCEEDED"}]]
  BY PayoutRows
<1>3. /\ bank' \in [Batches -> [Payouts -> {"none", "PENDING", "FAILED", "SUCCEEDED"}]]
      /\ \A k \in Payouts : bank'[b][k] = IF k \in ks /\ bank[b][k] = "PENDING" THEN "FAILED" ELSE bank[b][k]
      /\ \A c \in Batches \ {b} : bank'[c] = bank[c]
  <2> DEFINE Row == [k \in Payouts |-> IF k \in ks /\ bank[b][k] = "PENDING" THEN "FAILED" ELSE bank[b][k]]
  <2>1. Row \in [Payouts -> {"none", "PENDING", "FAILED", "SUCCEEDED"}]
    BY <1>2
  <2>2. \A k \in Payouts : Row[k] = IF k \in ks /\ bank[b][k] = "PENDING" THEN "FAILED" ELSE bank[b][k]
    OBVIOUS
  <2>3. bank' = [bank EXCEPT ![b] = Row]
    BY <1>1
  <2> HIDE DEF Row
  <2>4. bank'[b] = Row /\ \A c \in Batches \ {b} : bank'[c] = bank[c]
    BY <1>2, <2>3
  <2> QED
    BY <1>2, <2>1, <2>2, <2>3, <2>4
<1>4. /\ batch' \in [Batches -> BatchRows]
      /\ \A c \in Batches : batch'[c].lines = batch[c].lines
      /\ \A c \in Batches \ {b} : batch'[c].void = batch[c].void
      /\ batch'[b].void # batch[b].void => batch'[b].void
      /\ batch'[b].void => ks = Payouts /\ \A k \in Payouts : bank[b][k] # "SUCCEEDED"
  <2>1. CASE UNCHANGED batch
    BY <1>1, <1>2, <2>1
  <2>2. CASE batch' = [batch EXCEPT ![b].void = TRUE]
    <3>1. batch[b] \in BatchRows /\ [batch[b] EXCEPT !.void = TRUE] \in BatchRows
          /\ [batch[b] EXCEPT !.void = TRUE].lines = batch[b].lines
          /\ [batch[b] EXCEPT !.void = TRUE].void = TRUE
      BY <1>2 DEF BatchRows
    <3>2. /\ batch'[b] = [batch[b] EXCEPT !.void = TRUE] /\ batch' \in [Batches -> BatchRows]
          /\ \A c \in Batches \ {b} : batch'[c] = batch[c]
      BY <1>2, <2>2, <3>1
    <3>3. UNCHANGED batch \/ (ks = Payouts /\ \A k \in Payouts : bank[b][k] # "SUCCEEDED")
      BY <1>1
    <3>4. ~UNCHANGED batch
      BY <1>1, <3>1, <3>2
    <3> QED
      BY <1>1, <3>1, <3>2, <3>3, <3>4
  <2> QED
    BY <1>1, <2>1, <2>2
<1>5. \A c \in Batches, l \in Payouts : batch[c].void => bank[c][l] \notin {"PENDING", "SUCCEEDED"}
  BY DEF SettlementInv, PayoutsFit, VoidedCannotPay
<1>6. \A c \in Batches : batch'[c].void # batch[c].void => Made(c) /\ batch'[c].void
  BY <1>1, <1>4
<1>7. ASSUME NEW c \in Batches, NEW l \in Payouts
      PROVE  /\ bank[c][l] = "none" => bank'[c][l] = "none"
             /\ bank[c][l] \in {"FAILED", "SUCCEEDED"} => bank'[c][l] = bank[c][l]
             /\ batch'[c].void => bank'[c][l] \notin {"PENDING", "SUCCEEDED"}
  <2>1. CASE c = b
    BY <1>3, <1>4, <2>1
  <2>2. CASE c # b
    BY <1>3, <1>4, <1>5, <2>2
  <2> QED
    BY <2>1, <2>2
<1>8. result' = result /\ attempts' = attempts
  BY <1>1
<1>9. \A c \in Batches, l \in Payouts :
         /\ bank[c][l] = "none" /\ bank'[c][l] # "none" => l <= attempts[c]
         /\ bank[c][l] \in {"FAILED", "SUCCEEDED"} => bank'[c][l] = bank[c][l]
         /\ result'[c][l] # result[c][l] => result[c][l] = "none" /\ result'[c][l] = bank'[c][l]
         /\ batch'[c].void => bank'[c][l] \notin {"PENDING", "SUCCEEDED"}
  BY <1>7, <1>8
<1> QED
  BY <1>1, <1>2, <1>3, <1>4, <1>6, <1>8, <1>9, BankStepKeeps

LEMMA SettlementStep == SettlementInv /\ [SettlementNext]_settlementVars => SettlementInv'
<1> SUFFICES ASSUME SettlementInv, [SettlementNext]_settlementVars PROVE SettlementInv'
  OBVIOUS
<1>1. CASE UNCHANGED settlementVars
  <2>1. UNCHANGED <<bookings, payable, payees, batch, payments>>
    BY <1>1 DEF settlementVars
  <2>2. PayoutsFit'
    BY <2>1, SamePayouts DEF SettlementInv
  <2> QED
    BY <2>1, <2>2, PayoutRows, PayoutStepKeeps DEF payments
<1>2. ASSUME NEW h \in Holds, BookingEnds(h) \/ ChangeUnresolved(h) \/ RecordCredit(h)
                              \/ Dispute(h) \/ Assess(h) \/ Mature(h)
      PROVE  SettlementInv'
  BY <1>2, EvidenceStep, AssessStep, MatureStep
<1>3. ASSUME NEW b \in Batches, MakeBatch(b) \/ Payout(b) \/ VoidBatch(b) \/ VoidAborted(b)
      PROVE  SettlementInv'
  BY <1>3, MakeBatchStep, PayoutStep, VoidStep
<1>4. ASSUME NEW b \in Batches, NEW k \in Payouts,
             Dispatch(b, k) \/ RecordResult(b, k) \/ BankDecides(b, k)
      PROVE  SettlementInv'
  BY <1>4, TellBankStep, RecordResultStep
<1>5. CASE BankVerifiesAccount \/ \E a \in Accounts : RegisterBeneficiary(a)
  BY <1>5, EvidenceStep
<1> QED
  BY <1>1, <1>2, <1>3, <1>4, <1>5 DEF SettlementNext

LEMMA SettlementInvariance == SettlementSpec => []SettlementInv
  BY InitSettlementInv, SettlementStep, PTL DEF SettlementSpec

\* Of the attempts of one batch only the last may have succeeded, and of two
\* batches with a common line one is void.
LEMMA InvariantPaysOnce == SettlementInv => PayoutsAreOwed
<1> SUFFICES ASSUME SettlementInv PROVE PayoutsAreOwed
  OBVIOUS
<1>1. ASSUME NEW b \in Batches, NEW k \in Payouts, bank[b][k] = "SUCCEEDED"
      PROVE  k = attempts[b] /\ ~batch[b].void
  <2>1. k <= attempts[b] /\ ~(k < attempts[b])
    BY <1>1 DEF SettlementInv, PayoutsFit, AttemptsInOrder
  <2>2. k \in Nat /\ attempts[b] \in Nat
    BY PayoutRows DEF Payouts
  <2>3. ~batch[b].void
    BY <1>1 DEF SettlementInv, PayoutsFit, VoidedCannotPay
  <2> QED
    BY <2>1, <2>2, <2>3
<1>2. SourcePaidOnce
  BY <1>1 DEF SettlementInv, PayoutsFit, BatchesApart, SourcePaidOnce
<1> QED
  BY <1>2 DEF PayoutsAreOwed, SettlementInv, PayoutsFit, LedgerFits

\* The types of the bookings' assessments, the batches and what the bank did.
THEOREM SettlementTypes == SettlementSpec => []SettlementTypeOK
<1>1. SettlementInv => SettlementTypeOK
  BY DEF SettlementInv
<1> QED
  BY <1>1, SettlementInvariance, PTL

\* No payable is paid twice, no void batch can pay any more, and the ledger follows
\* the last assessment, whatever the bank answers, forgets or answers late, and at
\* every commission a contract may have (BookingSettlement.assess, payout, void_batch).
THEOREM HotelIsPaidWhatIsOwed == SettlementSpec => []PayoutsAreOwed
BY InvariantPaysOnce, SettlementInvariance, PTL

-----------------------------------------------------------------------------
(***************************************************************************)
(* All six side by side. A step of MCSpec is a step of one of them and     *)
(* leaves the others alone, so every invariant of one is kept.             *)
(***************************************************************************)

\* The variables of all six, and which of them runs.
HotelVars ==
    <<guestMoneyVars, fundingVars, settlementVars, staffVars, accessVars, onboardingVars, focus>>

\* What is inductive about each of them.
HotelInv == MoneyInv /\ FundingInv /\ SettlementInv /\ StaffInv /\ AccessInv /\ OnboardingInv

\* The first state of all is a first state of each.
LEMMA InitHotelInv == MCInit => HotelInv
<1>1. MCInit => GuestMoneyInit /\ FundingInit /\ SettlementInit /\ StaffInit /\ AccessInit /\ OnboardingInit
  BY DEF MCInit
<1> QED
  BY <1>1, MoneyInit, InitFundingInv, InitSettlementInv, InitStaffInv, InitAccessInv, InitOnboardingInv
  DEF HotelInv

\* A step of one is no step of another.
LEMMA HotelStepOfEach ==
    [MCNext]_HotelVars =>
        /\ [GuestMoneyNext]_guestMoneyVars /\ [FundingNext]_fundingVars
        /\ [SettlementNext]_settlementVars /\ [StaffNext]_staffVars
        /\ [AccessNext]_accessVars /\ [OnboardingNext]_onboardingVars
<1>1. UNCHANGED HotelVars =>
         UNCHANGED <<guestMoneyVars, fundingVars, settlementVars, staffVars, accessVars, onboardingVars>>
  BY DEF HotelVars
<1> QED
  BY <1>1 DEF MCNext

LEMMA HotelStep == HotelInv /\ [MCNext]_HotelVars => HotelInv'
  BY HotelStepOfEach, MoneyStep, FundingStep, SettlementStep, StaffStep, AccessStep, OnboardingStepKeeps
  DEF HotelInv

LEMMA HotelInvariance == MCSpec => []HotelInv
  BY InitHotelInv, HotelStep, PTL DEF MCSpec, HotelVars

\* Links, sessions and codes open what they were made for, in every hotel and
\* whatever else runs beside them.
THEOREM HotelSecretsEnd == MCSpec => []SecretsEndInTime
<1>1. HotelInv => LinksFitTheirPurpose /\ AccessIsBounded
  BY DEF HotelInv, StaffInv, AccessInv
<1>2. HotelInv => OldSecretsAreDead
  BY OldSecretsDie DEF HotelInv
<1>3. HotelInv => SecretsEndInTime
  BY <1>1, <1>2 DEF SecretsEndInTime
<1> QED
  BY <1>3, HotelInvariance, PTL

\* Every record of a hotel keeps its form, the amounts their signs: a stay's money,
\* deposits, payouts, accounts, codes and openings, for any number of each of them.
THEOREM HotelTypes == MCSpec => []HotelTypeOK
<1>1. HotelInv => GuestMoneyTypeOK
  BY MoneyInvTypes DEF HotelInv
<1>2. HotelInv => FundingTypeOK /\ SettlementTypeOK /\ StaffTypeOK /\ AccessTypeOK
  BY DEF HotelInv, FundingInv, SettlementInv, StaffInv, AccessInv
<1>3. HotelInv => OnboardingTypeOK
  BY OnboardingTypes DEF HotelInv
<1>4. HotelInv => HotelTypeOK
  BY <1>1, <1>2, <1>3 DEF HotelTypeOK
<1> QED
  BY <1>4, HotelInvariance, PTL

=============================================================================
