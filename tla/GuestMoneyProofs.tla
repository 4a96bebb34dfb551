-------------------------- MODULE GuestMoneyProofs --------------------------
(***************************************************************************)
(* Proofs about the money of one stay, for any deposit and charge and any  *)
(* number of receipts, payment intents, refunds and corrections.  The      *)
(* account, the drawer and the charge are sums over the receipts and the   *)
(* refunds; each action adds a receipt, changes one, or takes something    *)
(* from several, and the first lemmas say what that does to every sum.     *)
(***************************************************************************)
EXTENDS GuestMoney, FiniteSums

DepositParts == {"received", "reversed", "allocated", "reserved", "refunded"}
Parts == DepositParts \cup {"paid", "cash"}

\* What the receipts sl add up to.
TotalOf(sl, part) == SumFunction([n \in DOMAIN sl |-> PartsOf(sl[n])[part]])

\* What a receipt adds, part by part.
LEMMA PartValues ==
    ASSUME NEW s
    PROVE  /\ s.purpose = "DEPOSIT" =>
                /\ PartsOf(s)["received"] = s.amount /\ PartsOf(s)["reversed"] = s.reversed
                /\ PartsOf(s)["allocated"] = s.allocated /\ PartsOf(s)["reserved"] = s.reserved
                /\ PartsOf(s)["refunded"] = s.refunded
           /\ s.purpose # "DEPOSIT" => \A part \in DepositParts : PartsOf(s)[part] = 0
           /\ PartsOf(s)["paid"] = s.allocated
           /\ PartsOf(s)["cash"] = IF s.channel = "CASH" THEN s.amount - s.reversed ELSE 0
BY DEF PartsOf, DepositParts

LEMMA PartTypes ==
    ASSUME NEW s \in Slips, NEW part \in Parts
    PROVE  PartsOf(s)[part] \in Int /\ (part # "cash" => PartsOf(s)[part] \in Nat)
<1>1. /\ s.amount \in Nat /\ s.reversed \in Nat /\ s.allocated \in Nat /\ s.reserved \in Nat
      /\ s.refunded \in Nat
  BY GuestMoneyAssumption DEF Slips, Amounts
<1>2. CASE s.purpose = "DEPOSIT"
  BY <1>1, <1>2, PartValues DEF Parts, DepositParts
<1>3. CASE s.purpose # "DEPOSIT"
  BY <1>1, <1>3, PartValues DEF Parts, DepositParts
<1> QED
  BY <1>2, <1>3

\* The receipts are finitely many, and their total is a number; only the cash
\* may be negative as far as this knows.
LEMMA TotalTypes ==
    ASSUME NEW sl \in Seq(Slips), NEW part \in Parts
    PROVE  /\ IsFiniteSet(DOMAIN sl)
           /\ \A n \in DOMAIN sl : PartsOf(sl[n])[part] \in Int
           /\ TotalOf(sl, part) \in Int
           /\ part # "cash" =>
                 /\ TotalOf(sl, part) \in Nat
                 /\ \A n \in DOMAIN sl : PartsOf(sl[n])[part] <= TotalOf(sl, part)
<1> DEFINE f == [n \in DOMAIN sl |-> PartsOf(sl[n])[part]]
           S == DOMAIN sl
<1>1. DOMAIN sl = 1 .. Len(sl) /\ Len(sl) \in Nat
  OBVIOUS
<1>2. IsFiniteSet(S)
  BY <1>1, FS_Interval
<1>3. \A n \in S : sl[n] \in Slips /\ f[n] = PartsOf(sl[n])[part]
  BY <1>1
<1>4. \A n \in S : f[n] \in Int /\ (part # "cash" => f[n] \in Nat)
  BY <1>3, PartTypes
<1>5. TotalOf(sl, part) = SumFunctionOnSet(f, S)
  BY DEF TotalOf, SumFunction
<1> HIDE DEF f, S
<1>6. SumFunctionOnSet(f, S) \in Int
  BY <1>2, <1>4, SumType
<1>7. part # "cash" => SumFunctionOnSet(f, S) \in Nat /\ \A n \in S : f[n] <= SumFunctionOnSet(f, S)
  BY <1>2, <1>4, SumNat, SumCovers
<1> QED
  BY <1>2, <1>3, <1>4, <1>5, <1>6, <1>7 DEF S

\* A further receipt adds its parts.
LEMMA TotalOfAppended ==
    ASSUME NEW sl \in Seq(Slips), NEW s \in Slips, NEW part \in Parts
    PROVE  TotalOf(Append(sl, s), part) = TotalOf(sl, part) + PartsOf(s)[part]
<1> DEFINE more == Append(sl, s)
           f == [n \in DOMAIN sl |-> PartsOf(sl[n])[part]]
           h == [n \in DOMAIN more |-> PartsOf(more[n])[part]]
           S == DOMAIN sl
           e == Len(sl) + 1
<1>1. S = 1 .. Len(sl) /\ Len(sl) \in Nat /\ DOMAIN more = 1 .. Len(sl) + 1
  OBVIOUS
<1>2. DOMAIN more = S \cup {e} /\ e \notin S
  BY <1>1
<1>3. IsFiniteSet(S) /\ \A n \in S : f[n] \in Int
  BY TotalTypes
<1>4. more[e] = s /\ \A n \in S : more[n] = sl[n]
  BY <1>1
<1>5. \A n \in S : h[n] = f[n]
  BY <1>2, <1>4
<1>6. h[e] = PartsOf(s)[part] /\ h[e] \in Int
  BY <1>2, <1>4, PartTypes
<1>7. TotalOf(sl, part) = SumFunctionOnSet(f, S) /\ TotalOf(more, part) = SumFunctionOnSet(h, S \cup {e})
  BY <1>2 DEF TotalOf, SumFunction
<1> HIDE DEF f, h, S, e, more
<1>8. SumFunctionOnSet(h, S \cup {e}) = SumFunctionOnSet(f, S) + h[e]
  BY <1>2, <1>3, <1>5, <1>6, SumEnters
<1> QED
  BY <1>6, <1>7, <1>8 DEF more

\* A changed receipt adds its new parts for its old ones.
LEMMA TotalOfChanged ==
    ASSUME NEW sl \in Seq(Slips), NEW n \in DOMAIN sl, NEW s \in Slips, NEW part \in Parts
    PROVE  TotalOf([sl EXCEPT ![n] = s], part) = TotalOf(sl, part) - PartsOf(sl[n])[part] + PartsOf(s)[part]
<1> DEFINE new == [sl EXCEPT ![n] = s]
           f == [m \in DOMAIN sl |-> PartsOf(sl[m])[part]]
           h == [m \in DOMAIN new |-> PartsOf(new[m])[part]]
           S == DOMAIN sl
<1>1. DOMAIN new = S /\ new[n] = s /\ \A m \in S \ {n} : new[m] = sl[m]
  OBVIOUS
<1>2. IsFiniteSet(S) /\ \A m \in S : f[m] \in Int
  BY TotalTypes
<1>3. \A m \in S \ {n} : h[m] = f[m]
  BY <1>1
<1>4. h[n] = PartsOf(s)[part] /\ h[n] \in Int /\ f[n] = PartsOf(sl[n])[part] /\ n \in S
  BY <1>1, PartTypes
<1>5. TotalOf(sl, part) = SumFunctionOnSet(f, S) /\ TotalOf(new, part) = SumFunctionOnSet(h, S)
  BY <1>1 DEF TotalOf, SumFunction
<1> HIDE DEF f, h, S, new
<1>6. SumFunctionOnSet(h, S) = SumFunctionOnSet(f, S) - f[n] + h[n]
  BY <1>2, <1>3, <1>4, SumReplace
<1> QED
  BY <1>4, <1>5, <1>6 DEF new

\* Receipts sl become new when take[n] is refunded of each deposit n.
TakenFrom(sl, new, take) ==
    /\ DOMAIN new = DOMAIN sl /\ DOMAIN take = DOMAIN sl /\ \A n \in DOMAIN sl : take[n] \in Int
    /\ \A n \in DOMAIN sl : new[n] = [sl[n] EXCEPT !.refunded = @ + take[n]]
    /\ \A n \in DOMAIN sl : sl[n].purpose # "DEPOSIT" => take[n] = 0

\* What a late case takes from the deposits is refunded, and nothing else of
\* the receipts changes.
LEMMA TotalOfTaken ==
    ASSUME NEW sl \in Seq(Slips), NEW new \in Seq(Slips), NEW take, TakenFrom(sl, new, take),
           NEW part \in Parts
    PROVE  /\ SumFunction(take) \in Int
           /\ TotalOf(new, part) = TotalOf(sl, part) + (IF part = "refunded" THEN SumFunction(take) ELSE 0)
<1> USE DEF TakenFrom
<1> DEFINE S == DOMAIN sl
           f == [n \in S |-> PartsOf(sl[n])[part]]
           h == [n \in S |-> PartsOf(new[n])[part]]
<1>1. IsFiniteSet(S) /\ \A n \in S : f[n] \in Int
  BY TotalTypes
<1>2. SumFunction(take) = SumFunctionOnSet(take, S) /\ \A n \in S : take[n] \in Int
  BY DEF SumFunction
<1>3. SumFunctionOnSet(take, S) \in Int
  <2> HIDE DEF S
  <2> QED
    BY <1>1, <1>2, SumType
<1>4. TotalOf(sl, part) = SumFunctionOnSet(f, S) /\ TotalOf(new, part) = SumFunctionOnSet(h, S)
  BY DEF TotalOf, SumFunction
<1>5. ASSUME NEW n \in S
      PROVE  PartsOf(new[n])[part] = PartsOf(sl[n])[part] + (IF part = "refunded" THEN take[n] ELSE 0)
  <2> DEFINE s == sl[n]
             t == new[n]
  <2>1. s \in Slips /\ t = [s EXCEPT !.refunded = s.refunded + take[n]]
    OBVIOUS
  <2>2. /\ t.purpose = s.purpose /\ t.amount = s.amount /\ t.reversed = s.reversed
        /\ t.allocated = s.allocated /\ t.reserved = s.reserved /\ t.channel = s.channel
        /\ t.refunded = s.refunded + take[n]
    BY <2>1 DEF Slips
  <2>3. s.purpose # "DEPOSIT" => take[n] = 0
    OBVIOUS
  <2>4. PartsOf(s)[part] \in Int /\ take[n] \in Int
    BY <1>2, <2>1, PartTypes
  <2> HIDE DEF s, t
  <2>5. CASE s.purpose = "DEPOSIT"
    BY <2>2, <2>4, <2>5, PartValues DEF Parts, DepositParts, s, t
  <2>6. CASE s.purpose # "DEPOSIT"
    <3>1. part \in DepositParts => PartsOf(s)[part] = 0 /\ PartsOf(t)[part] = 0
      BY <2>2, <2>6, PartValues
    <3>2. take[n] = 0
      BY <2>3, <2>6
    <3>3. part \notin DepositParts => PartsOf(t)[part] = PartsOf(s)[part]
      BY <2>2, PartValues DEF Parts
    <3>4. PartsOf(s)[part] \in Int
      BY <2>4
    <3> QED
      BY <3>1, <3>2, <3>3, <3>4, part \in Parts DEF s, t, DepositParts
  <2> QED
    BY <2>5, <2>6
<1>6. CASE part = "refunded"
  <2>1. \A n \in S : h[n] = f[n] + take[n]
    BY <1>5, <1>6
  <2>3. \A n \in S : take[n] \in Int
    BY <1>2
  <2> HIDE DEF S, f, h, TakenFrom
  <2>2. SumFunctionOnSet(h, S) = SumFunctionOnSet(f, S) + SumFunctionOnSet(take, S)
    BY <1>1, <2>1, <2>3, SumPlus
  <2> QED
    BY <1>2, <1>3, <1>4, <1>6, <2>2
<1>7. CASE part # "refunded"
  <2>1. \A n \in S : f[n] = h[n]
    BY <1>1, <1>5, <1>7
  <2>2. SumFunctionOnSet(f, S) \in Int
    <3> HIDE DEF S, f
    <3> QED
      BY <1>1, SumType
  <2> HIDE DEF S, f, h
  <2>3. SumFunctionOnSet(f, S) = SumFunctionOnSet(h, S)
    BY <1>1, <2>1, SumAgree
  <2> QED
    BY <1>2, <1>3, <1>4, <1>7, <2>2, <2>3
<1> QED
  BY <1>6, <1>7

-----------------------------------------------------------------------------
(* What the refunds reserve and have paid.                                 *)

RefundRow == [state : {"none", "RESERVED", "COMPLETED", "RELEASED"}, slip : Nat,
              amount : {0} \cup Amounts, channel : AnyChannel, sent : BOOLEAN,
              approval : {"none", "unrouted", "PENDING", "APPROVED", "REJECTED"}]
RefundParts == {"cashOpen", "cashDone", "done"}

RefundsTotal(rf, part) == SumFunction([r \in Refunds |-> RefundPartsOf(rf[r])[part]])

\* What a refund reserves on receipt n, and what all of them do.
Reserves(x, n) == IF x.state = "RESERVED" /\ x.slip = n THEN x.amount ELSE 0
ReservedOf(rf, n) == SumFunction([r \in Refunds |-> Reserves(rf[r], n)])

LEMMA RefundPartValues ==
    ASSUME NEW x
    PROVE  /\ RefundPartsOf(x)["cashOpen"] =
                 IF x.state = "RESERVED" THEN (IF x.channel = "CASH" THEN x.amount ELSE 0) ELSE 0
           /\ RefundPartsOf(x)["cashDone"] =
                 IF x.state = "COMPLETED" THEN (IF x.channel = "CASH" THEN x.amount ELSE 0) ELSE 0
           /\ RefundPartsOf(x)["done"] = IF x.state = "COMPLETED" THEN x.amount ELSE 0
BY DEF RefundPartsOf

LEMMA RefundPartTypes ==
    ASSUME NEW x \in RefundRow, NEW n
    PROVE  /\ \A part \in RefundParts : RefundPartsOf(x)[part] \in Nat
           /\ Reserves(x, n) \in Nat
<1>1. x.amount \in Nat
  BY GuestMoneyAssumption DEF RefundRow, Amounts
<1> QED
  BY <1>1, RefundPartValues DEF RefundParts, Reserves

\* The totals of the refunds are natural numbers, and none is less than one
\* refund's part.
LEMMA RefundTotalTypes ==
    ASSUME NEW rf \in [Refunds -> RefundRow]
    PROVE  /\ \A part \in RefundParts :
                 /\ RefundsTotal(rf, part) \in Nat
                 /\ \A r \in Refunds : RefundPartsOf(rf[r])[part] <= RefundsTotal(rf, part)
           /\ \A n : /\ ReservedOf(rf, n) \in Nat
                     /\ \A r \in Refunds : Reserves(rf[r], n) <= ReservedOf(rf, n)
<1>1. IsFiniteSet(Refunds)
  BY GuestMoneyAssumption
<1>2. ASSUME NEW part \in RefundParts
      PROVE  /\ RefundsTotal(rf, part) \in Nat
             /\ \A r \in Refunds : RefundPartsOf(rf[r])[part] <= RefundsTotal(rf, part)
  <2> DEFINE f == [q \in Refunds |-> RefundPartsOf(rf[q])[part]]
  <2>1. \A q \in Refunds : f[q] \in Nat
    BY RefundPartTypes
  <2>2. RefundsTotal(rf, part) = SumFunctionOnSet(f, Refunds)
    BY DEF RefundsTotal, SumFunction
  <2>3. \A r \in Refunds : f[r] = RefundPartsOf(rf[r])[part]
    OBVIOUS
  <2> HIDE DEF f
  <2> QED
    BY <1>1, <2>1, <2>2, <2>3, SumNat, SumCovers
<1>3. ASSUME NEW n
      PROVE  /\ ReservedOf(rf, n) \in Nat
             /\ \A r \in Refunds : Reserves(rf[r], n) <= ReservedOf(rf, n)
  <2> DEFINE f == [q \in Refunds |-> Reserves(rf[q], n)]
  <2>1. \A q \in Refunds : f[q] \in Nat
    BY RefundPartTypes
  <2>2. ReservedOf(rf, n) = SumFunctionOnSet(f, Refunds)
    BY DEF ReservedOf, SumFunction
  <2>3. \A r \in Refunds : f[r] = Reserves(rf[r], n)
    OBVIOUS
  <2> HIDE DEF f
  <2> QED
    BY <1>1, <2>1, <2>2, <2>3, SumNat, SumCovers
<1> QED
  BY <1>2, <1>3

\* One refund changes.
LEMMA RefundTotalsChanged ==
    ASSUME NEW rf \in [Refunds -> RefundRow], NEW new \in [Refunds -> RefundRow], NEW r \in Refunds,
           \A q \in Refunds \ {r} : new[q] = rf[q], NEW n
    PROVE  /\ \A part \in RefundParts :
                 RefundsTotal(new, part) =
                    RefundsTotal(rf, part) - RefundPartsOf(rf[r])[part] + RefundPartsOf(new[r])[part]
           /\ ReservedOf(new, n) = ReservedOf(rf, n) - Reserves(rf[r], n) + Reserves(new[r], n)
<1>1. IsFiniteSet(Refunds)
  BY GuestMoneyAssumption
<1>2. ASSUME NEW part \in RefundParts
      PROVE  RefundsTotal(new, part) =
                RefundsTotal(rf, part) - RefundPartsOf(rf[r])[part] + RefundPartsOf(new[r])[part]
  <2> DEFINE f == [q \in Refunds |-> RefundPartsOf(rf[q])[part]]
             h == [q \in Refunds |-> RefundPartsOf(new[q])[part]]
  <2>1. \A q \in Refunds : f[q] \in Int /\ h[q] \in Int
    BY RefundPartTypes
  <2>2. RefundsTotal(rf, part) = SumFunctionOnSet(f, Refunds)
        /\ RefundsTotal(new, part) = SumFunctionOnSet(h, Refunds)
    BY DEF RefundsTotal, SumFunction
  <2>3. f[r] = RefundPartsOf(rf[r])[part] /\ h[r] = RefundPartsOf(new[r])[part]
    OBVIOUS
  <2>4. \A q \in Refunds \ {r} : h[q] = f[q]
    OBVIOUS
  <2> HIDE DEF f, h
  <2>5. SumFunctionOnSet(h, Refunds) = SumFunctionOnSet(f, Refunds) - f[r] + h[r]
    BY <1>1, <2>1, <2>4, SumReplace
  <2> QED
    BY <2>2, <2>3, <2>5
<1>3. ReservedOf(new, n) = ReservedOf(rf, n) - Reserves(rf[r], n) + Reserves(new[r], n)
  <2> DEFINE f == [q \in Refunds |-> Reserves(rf[q], n)]
             h == [q \in Refunds |-> Reserves(new[q], n)]
  <2>1. \A q \in Refunds : f[q] \in Int /\ h[q] \in Int
    BY RefundPartTypes
  <2>2. ReservedOf(rf, n) = SumFunctionOnSet(f, Refunds) /\ ReservedOf(new, n) = SumFunctionOnSet(h, Refunds)
    BY DEF ReservedOf, SumFunction
  <2>3. f[r] = Reserves(rf[r], n) /\ h[r] = Reserves(new[r], n)
    OBVIOUS
  <2>4. \A q \in Refunds \ {r} : h[q] = f[q]
    OBVIOUS
  <2> HIDE DEF f, h
  <2>5. SumFunctionOnSet(h, Refunds) = SumFunctionOnSet(f, Refunds) - f[r] + h[r]
    BY <1>1, <2>1, <2>4, SumReplace
  <2> QED
    BY <2>2, <2>3, <2>5
<1> QED
  BY <1>2, <1>3

-----------------------------------------------------------------------------
(* The inductive invariant, in parts that each look at a few records.      *)

IntentRow == [state : {"none", "PENDING", "APPLIED", "CANCELLED"}, amount : {0} \cup Amounts]
CorrectionRow == [state : {"none", "PENDING", "EXECUTED", "REJECTED"}, slip : Nat,
                  amount : {0} \cup Amounts, channel : AnyChannel, routed : BOOLEAN, source : Slips]
LateRow == [state : {"none", "OPEN", "RECONCILING"} \cup Resolved, covered : Nat, shortfall : Nat]

AccountTypes ==
    /\ acct \in [received : Nat, reversed : Nat, allocated : Nat, reserved : Nat, refunded : Nat, frozen : BOOLEAN]
    /\ slips \in Seq(Slips) /\ Len(slips) <= MaxSlips
    /\ paid \in 0 .. RoomCharge /\ till \in [posted : Nat, reserved : Nat] /\ inHouse \in BOOLEAN
InvoiceTypes ==
    /\ intent \in [Intents -> IntentRow]
    /\ correction \in [Corrections -> CorrectionRow]
    /\ invoice \in [Intents \cup Corrections -> {"none", "PENDING", "SUCCEEDED", "VOIDED"}]
    /\ told \subseteq asking /\ asking \subseteq Intents
RefundTypes ==
    /\ refund \in [Refunds -> RefundRow]
    /\ payback \in [Refunds -> {"none", "PENDING", "FINAL", "SUCCEEDED"}]
    /\ heard \in [Refunds -> SUBSET {"FINAL", "SUCCEEDED"}]
    /\ lateCase \in [Refunds -> LateRow]

CoveredOf(cases) == SumFunction([r \in Refunds |-> cases[r].covered])

\* The account, the charge and the drawer are what receipts and refunds add up
\* to, and a receipt reserves what its open refunds do.
SlipsFit == \A n \in DOMAIN slips : Spendable(slips[n]) >= 0 /\ slips[n].reserved = ReservedOf(refund, n)
AccountFits == \A part \in DepositParts : acct[part] = TotalOf(slips, part)
ChargeFits == paid = TotalOf(slips, "paid")
DrawerFits ==
    /\ till.posted = DrawerFloat + TotalOf(slips, "cash") - RefundsTotal(refund, "cashDone")
    /\ till.reserved = RefundsTotal(refund, "cashOpen") /\ till.reserved <= till.posted
RefundedFits == acct.refunded = RefundsTotal(refund, "done") + CoveredOf(lateCase)

\* Nothing is held for the provider beyond the charge.
HeldFits == paid + HeldByIntents({}) <= RoomCharge

\* One intent is pending at most, and only while the guest is here.
IntentsFit ==
    /\ \A i, j \in Intents : Pending(i) /\ Pending(j) => i = j
    /\ \A i \in Intents : Pending(i) => inHouse /\ intent[i].amount \in Amounts

\* The receipts of payment attempt x: one when an intent is applied.
SlipsOf(x) == {n \in DOMAIN slips : slips[n].attempt = x}
ReceiptsFit ==
    \A i \in Intents : IF intent[i].state = "APPLIED" THEN \E n \in DOMAIN slips : SlipsOf(i) = {n}
                       ELSE SlipsOf(i) = {}

\* A refund is of a deposit and its approval says how far it went; the
\* provider knows of the sent ones only.
RefundFits(r) ==
    /\ refund[r].state # "none" =>
          /\ refund[r].slip \in DOMAIN slips
          /\ slips[refund[r].slip].purpose = "DEPOSIT"
          /\ refund[r].amount \in Amounts
    /\ refund[r].approval = "none" <=> refund[r].state = "none"
    /\ refund[r].sent => refund[r].approval = "APPROVED"
ProviderFits(r) ==
    /\ payback[r] # "none" => refund[r].sent
    /\ heard[r] # {} => payback[r] \in {"FINAL", "SUCCEEDED"}
ReleaseFits(r) ==
    refund[r].state = "RELEASED" => payback[r] # "PENDING" /\ (refund[r].sent => payback[r] # "none")
CaseFits(r) ==
    /\ lateCase[r].state # "none" => refund[r].state = "RELEASED"
    /\ lateCase[r].state \notin Resolved => lateCase[r].covered = 0
    /\ lateCase[r].state = "PROVIDER_SUCCESS_POSTED" =>
          lateCase[r].covered + lateCase[r].shortfall = refund[r].amount
RefundsFit == \A r \in Refunds : RefundFits(r) /\ ProviderFits(r) /\ ReleaseFits(r) /\ CaseFits(r)
FrozenFits == acct.frozen <=> StaysFrozen(lateCase)

\* A correction is of a receipt, and has an invoice only when it asks for one.
CorrectionsFit ==
    \A c \in Corrections :
        /\ correction[c].state # "none" => correction[c].slip \in DOMAIN slips
        /\ invoice[c] # "none" => correction[c].state # "none" /\ ByProvider(c)
        /\ correction[c].state = "REJECTED" => invoice[c] \in {"none", "VOIDED"}
CancelledFits == \A i \in Intents : intent[i].state = "CANCELLED" => invoice[i] = "VOIDED"

MoneyInv ==
    /\ AccountTypes /\ InvoiceTypes /\ RefundTypes /\ Len(slips) >= 1
    /\ SlipsFit /\ AccountFits /\ ChargeFits /\ DrawerFits /\ RefundedFits /\ HeldFits
    /\ IntentsFit /\ ReceiptsFit /\ RefundsFit /\ FrozenFits /\ CorrectionsFit /\ CancelledFits
    /\ ShiftBoundWhileOpen /\ ClosedStayIsSettled

\* A part of the invariant that looks only at what a step leaves alone stays.
LEMMA KeptAccount ==
    ASSUME MoneyInv, UNCHANGED <<acct, slips, paid, till>>
    PROVE  /\ inHouse' \in BOOLEAN => AccountTypes'
           /\ Len(slips') >= 1
           /\ AccountFits' /\ ChargeFits'
           /\ refund' = refund => SlipsFit' /\ DrawerFits'
           /\ refund' = refund /\ lateCase' = lateCase => RefundedFits'
           /\ intent' = intent => HeldFits' /\ ReceiptsFit'
<1>1. AccountTypes /\ Len(slips) >= 1 /\ AccountFits /\ ChargeFits
  BY DEF MoneyInv
<1>2. (inHouse' \in BOOLEAN => AccountTypes') /\ Len(slips') >= 1
  BY <1>1 DEF AccountTypes
<1>3. AccountFits' /\ ChargeFits'
  BY <1>1 DEF AccountFits, ChargeFits
<1>4. refund' = refund => SlipsFit' /\ DrawerFits'
  BY DEF MoneyInv, SlipsFit, DrawerFits
<1>5. refund' = refund /\ lateCase' = lateCase => RefundedFits'
  BY DEF MoneyInv, RefundedFits
<1>6. intent' = intent => HeldFits' /\ ReceiptsFit'
  BY DEF MoneyInv, HeldFits, HeldByIntents, ReceiptsFit, SlipsOf
<1> QED
  BY <1>2, <1>3, <1>4, <1>5, <1>6

LEMMA KeptRows ==
    ASSUME MoneyInv
    PROVE  /\ UNCHANGED <<intent, correction, invoice, asking, told>> => InvoiceTypes'
           /\ UNCHANGED <<refund, payback, heard, lateCase>> => RefundTypes'
           /\ UNCHANGED <<intent, inHouse>> => IntentsFit'
           /\ UNCHANGED <<slips, refund, payback, heard, lateCase>> => RefundsFit'
           /\ UNCHANGED <<acct, lateCase>> => FrozenFits'
           /\ UNCHANGED <<slips, correction, invoice>> => CorrectionsFit'
           /\ UNCHANGED <<intent, invoice>> => CancelledFits'
           /\ UNCHANGED <<due, intent, refund, correction>> => ShiftBoundWhileOpen'
           /\ UNCHANGED <<inHouse, correction, paid, acct>> => ClosedStayIsSettled'
<1>1. UNCHANGED <<intent, correction, invoice, asking, told>> => InvoiceTypes'
  BY DEF MoneyInv, InvoiceTypes
<1>2. UNCHANGED <<refund, payback, heard, lateCase>> => RefundTypes'
  BY DEF MoneyInv, RefundTypes
<1>3. UNCHANGED <<intent, inHouse>> => IntentsFit'
  BY DEF MoneyInv, IntentsFit, Pending
<1>4. UNCHANGED <<slips, refund, payback, heard, lateCase>> => RefundsFit'
  BY DEF MoneyInv, RefundsFit, RefundFits, ProviderFits, ReleaseFits, CaseFits
<1>5. UNCHANGED <<acct, lateCase>> => FrozenFits'
  BY DEF MoneyInv, FrozenFits
<1>6. UNCHANGED <<slips, correction, invoice>> => CorrectionsFit'
  BY DEF MoneyInv, CorrectionsFit, ByProvider
<1>7. UNCHANGED <<intent, invoice>> => CancelledFits'
  BY DEF MoneyInv, CancelledFits
<1>8. UNCHANGED <<due, intent, refund, correction>> => ShiftBoundWhileOpen'
  BY DEF MoneyInv, ShiftBoundWhileOpen, Pending
<1>9. UNCHANGED <<inHouse, correction, paid, acct>> => ClosedStayIsSettled'
  BY DEF MoneyInv, ClosedStayIsSettled
<1> QED
  BY <1>1, <1>2, <1>3, <1>4, <1>5, <1>6, <1>7, <1>8, <1>9

\* What is held for pending intents: nothing, or the only one's amount.
HeldOf(rows, except) ==
    SumFunction([i \in {j \in Intents \ except : rows[j].state = "PENDING"} |-> rows[i].amount])

LEMMA HeldIsOf == \A except : HeldByIntents(except) = HeldOf(intent, except)
BY DEF HeldByIntents, HeldOf

LEMMA NothingHeld ==
    ASSUME NEW rows, NEW except, \A j \in Intents \ except : rows[j].state # "PENDING"
    PROVE  HeldOf(rows, except) = 0
<1> DEFINE none == [i \in {j \in Intents \ except : rows[j].state = "PENDING"} |-> rows[i].amount]
<1>1. DOMAIN none = {}
  OBVIOUS
<1> HIDE DEF none
<1>2. SumFunction(none) = 0
  BY <1>1, SumEmpty DEF SumFunction
<1> QED
  BY <1>2 DEF HeldOf, none

LEMMA OneHeld ==
    ASSUME NEW rows, NEW except, NEW i \in Intents \ except, rows[i].state = "PENDING", rows[i].amount \in Int,
           \A j \in Intents \ except : rows[j].state = "PENDING" => j = i
    PROVE  HeldOf(rows, except) = rows[i].amount
<1> DEFINE one == [k \in {j \in Intents \ except : rows[j].state = "PENDING"} |-> rows[k].amount]
<1>1. DOMAIN one = {} \cup {i} /\ one[i] = rows[i].amount
  OBVIOUS
<1> HIDE DEF one
<1>2. IsFiniteSet({}) /\ i \notin {}
  BY FS_EmptySet
<1>3. SumFunctionOnSet(one, {} \cup {i}) = SumFunctionOnSet(one, {}) + one[i]
  BY <1>1, <1>2, SumAdd
<1>4. SumFunction(one) = rows[i].amount
  BY <1>1, <1>3, SumEmpty DEF SumFunction
<1> QED
  BY <1>4 DEF HeldOf, one

-----------------------------------------------------------------------------
(* The steps that move no money.                                           *)

LEMMA AskAboutIntentKeeps ==
    ASSUME MoneyInv, NEW i \in Intents, AskAboutIntent(i) PROVE MoneyInv'
<1>1. UNCHANGED <<acct, slips, paid, till, inHouse, intent, invoice, correction, refund, payback, heard,
                  lateCase, due>> /\ told' = told /\ asking' = asking \cup {i}
  BY DEF AskAboutIntent, money, refunding
<1>2. AccountTypes' /\ InvoiceTypes'
  BY <1>1, KeptAccount DEF MoneyInv, AccountTypes, InvoiceTypes
<1> QED
  BY <1>1, <1>2, KeptAccount, KeptRows DEF MoneyInv

LEMMA ProviderTellsKeeps ==
    ASSUME MoneyInv, NEW i \in Intents, ProviderTells(i) PROVE MoneyInv'
<1>1. /\ UNCHANGED <<acct, slips, paid, till, inHouse, intent, asking, correction, refund, payback, heard,
                     lateCase, due>>
      /\ i \in asking /\ told' \in {told, told \cup {i}}
      /\ invoice' = [invoice EXCEPT ![i] = IF @ = "none" THEN "PENDING" ELSE @]
  BY DEF ProviderTells, money, refunding
<1>2. i \notin Corrections /\ InvoiceTypes
  BY GuestMoneyAssumption DEF MoneyInv
<1>3. AccountTypes' /\ InvoiceTypes'
  BY <1>1, KeptAccount DEF MoneyInv, AccountTypes, InvoiceTypes
<1>4. CorrectionsFit'
  BY <1>1, <1>2 DEF MoneyInv, InvoiceTypes, CorrectionsFit, ByProvider
<1>5. CancelledFits'
  BY <1>1, <1>2 DEF MoneyInv, InvoiceTypes, CancelledFits
<1> QED
  BY <1>1, <1>3, <1>4, <1>5, KeptAccount, KeptRows DEF MoneyInv

\* The void is decided by the provider's own record: the invoice can no longer
\* be captured when the intent is cancelled.
LEMMA VoidIntentKeeps ==
    ASSUME MoneyInv, NEW i \in Intents, VoidIntent(i) PROVE MoneyInv'
<1>1. /\ UNCHANGED <<acct, slips, paid, till, inHouse, asking, told, correction, refund, payback, heard, lateCase>>
      /\ Pending(i) /\ invoice' = [invoice EXCEPT ![i] = "VOIDED"]
      /\ \/ intent' = [intent EXCEPT ![i].state = "CANCELLED"] /\ due' = due \ {i}
         \/ intent' = intent /\ due' = due
  BY DEF VoidIntent, money, refunding, VoidedFirst, Unbound
<1>2. i \notin Corrections /\ i \notin Refunds /\ InvoiceTypes
  BY GuestMoneyAssumption DEF MoneyInv
<1>3. /\ intent' \in [Intents -> IntentRow] /\ \A j \in Intents \ {i} : intent'[j] = intent[j]
      /\ intent' = intent \/ (intent'[i].state = "CANCELLED" /\ due' = due \ {i})
      /\ intent[i].state = "PENDING"
      /\ intent' = intent => due' = due
  BY <1>1, <1>2 DEF InvoiceTypes, IntentRow, Pending
<1>4. AccountTypes' /\ InvoiceTypes'
  BY <1>1, <1>2, <1>3, KeptAccount DEF MoneyInv, AccountTypes, InvoiceTypes
<1>5. CorrectionsFit' /\ CancelledFits'
  BY <1>1, <1>2, <1>3 DEF MoneyInv, InvoiceTypes, CorrectionsFit, CancelledFits, ByProvider
<1>6. CASE intent' = intent
  BY <1>1, <1>3, <1>4, <1>5, <1>6, KeptAccount, KeptRows DEF MoneyInv
<1>7. CASE intent'[i].state = "CANCELLED" /\ due' = due \ {i}
  <2>1. IntentsFit'
    BY <1>1, <1>3, <1>7 DEF MoneyInv, IntentsFit, Pending
  <2>2. HeldFits'
    <3>1. HeldOf(intent', {}) = 0
      <4>1. \A j \in Intents \ {} : intent'[j].state # "PENDING"
        BY <1>1, <1>3, <1>7 DEF MoneyInv, IntentsFit, Pending
      <4> QED
        BY <4>1, NothingHeld
    <3>2. paid' \in Nat /\ paid' <= RoomCharge
      BY <1>4, GuestMoneyAssumption DEF AccountTypes
    <3> QED
      BY <3>1, <3>2 DEF HeldFits, HeldByIntents, HeldOf
  <2>3. ReceiptsFit'
    BY <1>1, <1>3, <1>7 DEF MoneyInv, ReceiptsFit, SlipsOf
  <2>4. ShiftBoundWhileOpen'
    BY <1>1, <1>2, <1>3, <1>7 DEF MoneyInv, ShiftBoundWhileOpen, Pending
  <2> QED
    BY <1>1, <1>4, <1>5, <2>1, <2>2, <2>3, <2>4, KeptAccount, KeptRows DEF MoneyInv
<1> QED
  BY <1>1, <1>3, <1>6, <1>7

LEMMA GuestCapturesKeeps ==
    ASSUME MoneyInv, NEW x \in Intents \cup Corrections, GuestCaptures(x) PROVE MoneyInv'
<1>1. /\ UNCHANGED <<acct, slips, paid, till, inHouse, intent, asking, told, correction, refund, payback, heard,
                     lateCase, due>>
      /\ invoice[x] = "PENDING" /\ invoice' = [invoice EXCEPT ![x] = "SUCCEEDED"]
  BY DEF GuestCaptures, money, refunding
<1>2. AccountTypes' /\ InvoiceTypes'
  BY <1>1, KeptAccount DEF MoneyInv, AccountTypes, InvoiceTypes
<1>3. CorrectionsFit'
  BY <1>1 DEF MoneyInv, InvoiceTypes, CorrectionsFit, ByProvider
<1>4. CancelledFits'
  BY <1>1 DEF MoneyInv, InvoiceTypes, CancelledFits
<1> QED
  BY <1>1, <1>2, <1>3, <1>4, KeptAccount, KeptRows DEF MoneyInv

\* A further intent is made only when none is pending.
LEMMA CreateIntentKeeps ==
    ASSUME MoneyInv, NEW i \in Intents, NEW a \in Amounts, CreateIntent(i, a) PROVE MoneyInv'
<1>1. /\ UNCHANGED <<acct, slips, paid, till, inHouse, invoice, asking, told, correction, refund, payback, heard,
                     lateCase>>
      /\ inHouse /\ intent[i].state = "none" /\ \A j \in Intents : ~Pending(j)
      /\ a <= RoomCharge - paid
      /\ intent' = [intent EXCEPT ![i] = [state |-> "PENDING", amount |-> a]]
      /\ due' = due \cup {i}
  BY DEF CreateIntent, money, refunding
<1>2. i \notin Corrections /\ i \notin Refunds /\ InvoiceTypes
  BY GuestMoneyAssumption DEF MoneyInv
<1>3. /\ intent' \in [Intents -> IntentRow] /\ \A j \in Intents \ {i} : intent'[j] = intent[j]
      /\ intent'[i].state = "PENDING" /\ intent'[i].amount = a
  BY <1>1, <1>2 DEF InvoiceTypes, IntentRow
<1>4. AccountTypes' /\ InvoiceTypes'
  BY <1>1, <1>2, <1>3, KeptAccount DEF MoneyInv, AccountTypes, InvoiceTypes
<1>5. \A j \in Intents \ {} : intent'[j].state = "PENDING" => j = i
  BY <1>1, <1>3 DEF Pending
<1>6. IntentsFit'
  BY <1>1, <1>3, <1>5 DEF IntentsFit, Pending
<1>7. HeldFits'
  <2>1. a \in Int /\ i \in Intents \ {}
    BY GuestMoneyAssumption DEF Amounts
  <2>2. HeldOf(intent', {}) = a
    BY <1>3, <1>5, <2>1, OneHeld
  <2>3. paid \in Int /\ paid' = paid
    BY <1>1 DEF MoneyInv, AccountTypes
  <2> QED
    BY <1>1, <2>1, <2>2, <2>3, GuestMoneyAssumption DEF HeldFits, HeldByIntents, HeldOf
<1>8. ReceiptsFit' /\ CancelledFits'
  BY <1>1, <1>3 DEF MoneyInv, ReceiptsFit, SlipsOf, CancelledFits
<1>9. ShiftBoundWhileOpen'
  BY <1>1, <1>2, <1>3 DEF MoneyInv, ShiftBoundWhileOpen, Pending
<1> QED
  BY <1>1, <1>4, <1>6, <1>7, <1>8, <1>9, KeptAccount, KeptRows DEF MoneyInv

LEMMA CheckOutKeeps == ASSUME MoneyInv, CheckOutSettled PROVE MoneyInv'
<1>1. /\ UNCHANGED <<acct, slips, paid, till, intent, invoice, asking, told, correction, refund, payback, heard,
                     lateCase, due>>
      /\ Settled /\ paid = RoomCharge /\ inHouse' = FALSE /\ \A i \in Intents : ~Pending(i)
  BY DEF CheckOutSettled, money, invoicing, refunding
<1>2. IntentsFit' /\ ClosedStayIsSettled'
  BY <1>1 DEF IntentsFit, Pending, ClosedStayIsSettled, Settled, Available
<1>3. InvoiceTypes'
  BY <1>1, KeptRows
<1> QED
  BY <1>1, <1>2, <1>3, KeptAccount, KeptRows DEF MoneyInv

\* What the refunds come to does not depend on how far their approval is.
LEMMA SameRefundTotals ==
    ASSUME NEW rf, NEW new,
           \A r \in Refunds : /\ new[r].state = rf[r].state /\ new[r].slip = rf[r].slip
                              /\ new[r].amount = rf[r].amount /\ new[r].channel = rf[r].channel
    PROVE  /\ \A part \in RefundParts : RefundsTotal(new, part) = RefundsTotal(rf, part)
           /\ \A n : ReservedOf(new, n) = ReservedOf(rf, n)
<1>1. \A r \in Refunds : \A part \in RefundParts : RefundPartsOf(new[r])[part] = RefundPartsOf(rf[r])[part]
  BY RefundPartValues DEF RefundParts
<1>2. \A part \in RefundParts : RefundsTotal(new, part) = RefundsTotal(rf, part)
  BY <1>1 DEF RefundsTotal
<1>3. \A n : \A r \in Refunds : Reserves(new[r], n) = Reserves(rf[r], n)
  BY DEF Reserves
<1>4. \A n : ReservedOf(new, n) = ReservedOf(rf, n)
  BY <1>3 DEF ReservedOf
<1> QED
  BY <1>2, <1>4

\* A refund is approved, or marked as sent.
LEMMA MarkedRefundKeeps ==
    ASSUME MoneyInv, NEW r \in Refunds,
           UNCHANGED <<acct, slips, paid, till, inHouse, intent, invoice, asking, told, correction, payback, heard,
                       lateCase, due>>,
           refund[r].state = "RESERVED", refund' \in [Refunds -> RefundRow],
           \A q \in Refunds \ {r} : refund'[q] = refund[q],
           refund'[r].state = "RESERVED", refund'[r].slip = refund[r].slip,
           refund'[r].amount = refund[r].amount, refund'[r].channel = refund[r].channel,
           refund'[r].approval = "APPROVED", refund[r].sent => refund'[r].sent
    PROVE  MoneyInv'
<1>1. \A q \in Refunds : /\ refund'[q].state = refund[q].state /\ refund'[q].slip = refund[q].slip
                         /\ refund'[q].amount = refund[q].amount /\ refund'[q].channel = refund[q].channel
  OBVIOUS
<1>2. /\ \A part \in RefundParts : RefundsTotal(refund', part) = RefundsTotal(refund, part)
      /\ \A n : ReservedOf(refund', n) = ReservedOf(refund, n)
  BY <1>1, SameRefundTotals
<1>3. SlipsFit' /\ DrawerFits' /\ RefundedFits'
  BY <1>2 DEF MoneyInv, SlipsFit, DrawerFits, RefundedFits, RefundParts
<1>4. AccountTypes' /\ InvoiceTypes' /\ RefundTypes'
  BY KeptAccount, KeptRows DEF MoneyInv, AccountTypes, RefundTypes
<1>5. RefundsFit'
  <2> SUFFICES ASSUME NEW q \in Refunds
               PROVE  (RefundFits(q) /\ ProviderFits(q) /\ ReleaseFits(q) /\ CaseFits(q))'
    BY DEF RefundsFit
  <2>1. RefundFits(q) /\ ProviderFits(q) /\ ReleaseFits(q) /\ CaseFits(q)
    BY DEF MoneyInv, RefundsFit
  <2>2. CASE q = r
    BY <2>1, <2>2 DEF RefundFits, ProviderFits, ReleaseFits, CaseFits
  <2>3. CASE q # r
    <3>1. refund'[q] = refund[q]
      BY <2>3
    <3> QED
      BY <2>1, <3>1 DEF RefundFits, ProviderFits, ReleaseFits, CaseFits
  <2> QED
    BY <2>2, <2>3
<1>6. ShiftBoundWhileOpen'
  BY <1>1 DEF MoneyInv, ShiftBoundWhileOpen, Pending
<1> QED
  BY <1>3, <1>4, <1>5, <1>6, KeptAccount, KeptRows DEF MoneyInv

LEMMA ApproveRouteKeeps ==
    ASSUME MoneyInv, NEW r \in Refunds, refund[r].state = "RESERVED",
           refund' = [refund EXCEPT ![r].approval = "APPROVED"],
           UNCHANGED <<money, inHouse, invoicing, correction, payback, heard, lateCase, due>>
    PROVE  MoneyInv'
<1>1. refund \in [Refunds -> RefundRow]
  BY DEF MoneyInv, RefundTypes
<1>2. /\ refund' \in [Refunds -> RefundRow] /\ \A q \in Refunds \ {r} : refund'[q] = refund[q]
      /\ refund'[r].state = "RESERVED" /\ refund'[r].slip = refund[r].slip
      /\ refund'[r].amount = refund[r].amount /\ refund'[r].channel = refund[r].channel
      /\ refund'[r].approval = "APPROVED" /\ refund'[r].sent = refund[r].sent
  BY <1>1 DEF RefundRow
<1>3. UNCHANGED <<acct, slips, paid, till, inHouse, intent, invoice, asking, told, correction, payback, heard,
                  lateCase, due>>
  BY DEF money, invoicing
<1> QED
  BY <1>2, <1>3, MarkedRefundKeeps

LEMMA MarkSentKeeps == ASSUME MoneyInv, NEW r \in Refunds, MarkSent(r) PROVE MoneyInv'
<1>1. /\ UNCHANGED <<acct, slips, paid, till, inHouse, intent, invoice, asking, told, correction, payback, heard,
                     lateCase, due>>
      /\ refund[r].state = "RESERVED" /\ refund[r].approval = "APPROVED"
      /\ refund' = [refund EXCEPT ![r].sent = TRUE] /\ refund \in [Refunds -> RefundRow]
  BY DEF MarkSent, money, invoicing, MoneyInv, RefundTypes
<1>2. /\ refund' \in [Refunds -> RefundRow] /\ \A q \in Refunds \ {r} : refund'[q] = refund[q]
      /\ refund'[r].state = "RESERVED" /\ refund'[r].slip = refund[r].slip
      /\ refund'[r].amount = refund[r].amount /\ refund'[r].channel = refund[r].channel
      /\ refund'[r].approval = "APPROVED" /\ refund'[r].sent
  BY <1>1 DEF RefundRow
<1> QED
  BY <1>1, <1>2, MarkedRefundKeeps

\* The provider's refund moves on.  It is not sent once the refund was released
\* unsent.
LEMMA ProviderRefundKeeps ==
    ASSUME MoneyInv, NEW r \in Refunds,
           UNCHANGED <<acct, slips, paid, till, inHouse, intent, invoice, asking, told, correction, refund,
                       lateCase, due>>,
           payback' \in [Refunds -> {"none", "PENDING", "FINAL", "SUCCEEDED"}],
           heard' \in [Refunds -> SUBSET {"FINAL", "SUCCEEDED"}],
           \A q \in Refunds \ {r} : payback'[q] = payback[q] /\ heard'[q] = heard[q],
           ProviderFits(r)', ReleaseFits(r)'
    PROVE  MoneyInv'
<1>1. AccountTypes' /\ InvoiceTypes' /\ RefundTypes'
  BY KeptAccount, KeptRows DEF MoneyInv, AccountTypes, RefundTypes
<1>2. RefundsFit'
  <2> SUFFICES ASSUME NEW q \in Refunds
               PROVE  (RefundFits(q) /\ ProviderFits(q) /\ ReleaseFits(q) /\ CaseFits(q))'
    BY DEF RefundsFit
  <2>1. RefundFits(q) /\ ProviderFits(q) /\ ReleaseFits(q) /\ CaseFits(q)
    BY DEF MoneyInv, RefundsFit
  <2>2. RefundFits(q)' /\ CaseFits(q)'
    BY <2>1 DEF RefundFits, CaseFits
  <2>3. q # r => (ProviderFits(q) /\ ReleaseFits(q))'
    BY <2>1 DEF ProviderFits, ReleaseFits
  <2> QED
    BY <2>2, <2>3
<1> QED
  BY <1>1, <1>2, KeptAccount, KeptRows DEF MoneyInv

LEMMA SendKeeps == ASSUME MoneyInv, NEW r \in Refunds, Send(r) PROVE MoneyInv'
<1>1. /\ UNCHANGED <<acct, slips, paid, till, inHouse, intent, invoice, asking, told, correction, refund, heard,
                     lateCase, due>>
      /\ refund[r].sent /\ payback[r] = "none" /\ payback' = [payback EXCEPT ![r] = "PENDING"]
  BY DEF Send, money, invoicing
<1>2. RefundTypes /\ ProviderFits(r) /\ ReleaseFits(r)
  BY DEF MoneyInv, RefundsFit
<1>3. /\ payback' \in [Refunds -> {"none", "PENDING", "FINAL", "SUCCEEDED"}]
      /\ heard' \in [Refunds -> SUBSET {"FINAL", "SUCCEEDED"}]
      /\ \A q \in Refunds \ {r} : payback'[q] = payback[q] /\ heard'[q] = heard[q]
      /\ payback'[r] = "PENDING"
  BY <1>1, <1>2 DEF RefundTypes
<1>4. ProviderFits(r)' /\ ReleaseFits(r)'
  BY <1>1, <1>2, <1>3 DEF ProviderFits, ReleaseFits
<1> QED
  BY <1>1, <1>3, <1>4, ProviderRefundKeeps

LEMMA ProviderPaysBackKeeps == ASSUME MoneyInv, NEW r \in Refunds, ProviderPaysBack(r) PROVE MoneyInv'
<1>1. /\ UNCHANGED <<acct, slips, paid, till, inHouse, intent, invoice, asking, told, correction, refund, heard,
                     lateCase, due>>
      /\ payback[r] # "none" /\ \E state \in {"FINAL", "SUCCEEDED"} : payback' = [payback EXCEPT ![r] = state]
  BY DEF ProviderPaysBack, money, invoicing
<1>2. RefundTypes /\ ProviderFits(r) /\ ReleaseFits(r)
  BY DEF MoneyInv, RefundsFit
<1>3. /\ payback' \in [Refunds -> {"none", "PENDING", "FINAL", "SUCCEEDED"}]
      /\ heard' \in [Refunds -> SUBSET {"FINAL", "SUCCEEDED"}]
      /\ \A q \in Refunds \ {r} : payback'[q] = payback[q] /\ heard'[q] = heard[q]
      /\ payback'[r] \in {"FINAL", "SUCCEEDED"}
  BY <1>1, <1>2 DEF RefundTypes
<1>4. ProviderFits(r)' /\ ReleaseFits(r)'
  BY <1>1, <1>2, <1>3 DEF ProviderFits, ReleaseFits
<1> QED
  BY <1>1, <1>3, <1>4, ProviderRefundKeeps

LEMMA AskAboutRefundKeeps == ASSUME MoneyInv, NEW r \in Refunds, AskAboutRefund(r) PROVE MoneyInv'
<1>1. /\ UNCHANGED <<acct, slips, paid, till, inHouse, intent, invoice, asking, told, correction, refund, payback,
                     lateCase, due>>
      /\ payback[r] \in {"FINAL", "SUCCEEDED"} /\ heard' = [heard EXCEPT ![r] = @ \cup {payback[r]}]
  BY DEF AskAboutRefund, money, invoicing
<1>2. RefundTypes /\ ProviderFits(r) /\ ReleaseFits(r)
  BY DEF MoneyInv, RefundsFit
<1>3. /\ payback' \in [Refunds -> {"none", "PENDING", "FINAL", "SUCCEEDED"}]
      /\ heard' \in [Refunds -> SUBSET {"FINAL", "SUCCEEDED"}]
      /\ \A q \in Refunds \ {r} : payback'[q] = payback[q] /\ heard'[q] = heard[q]
  BY <1>1, <1>2 DEF RefundTypes
<1>4. ProviderFits(r)' /\ ReleaseFits(r)'
  BY <1>1, <1>2 DEF ProviderFits, ReleaseFits
<1> QED
  BY <1>1, <1>3, <1>4, ProviderRefundKeeps

\* Late cases: opening and claiming one posts nothing.
LEMMA SameCovered ==
    ASSUME NEW cases, NEW new, \A r \in Refunds : new[r].covered = cases[r].covered
    PROVE  CoveredOf(new) = CoveredOf(cases)
BY DEF CoveredOf

LEMMA CaseStepKeeps ==
    ASSUME MoneyInv, NEW r \in Refunds, NEW state \in {"OPEN", "RECONCILING"},
           UNCHANGED <<slips, paid, till, inHouse, intent, invoice, asking, told, correction, refund, payback, heard,
                       due>>,
           refund[r].state = "RELEASED", lateCase[r].state \in {"none", "OPEN"},
           lateCase' = [lateCase EXCEPT ![r].state = state],
           acct' = [acct EXCEPT !.frozen = TRUE]
    PROVE  MoneyInv'
<1>1. RefundTypes /\ AccountTypes /\ CaseFits(r)
  BY DEF MoneyInv, RefundsFit
<1>2. /\ lateCase' \in [Refunds -> LateRow] /\ \A q \in Refunds \ {r} : lateCase'[q] = lateCase[q]
      /\ lateCase'[r].state = state /\ lateCase'[r].covered = lateCase[r].covered
  <2> DEFINE row == [lateCase[r] EXCEPT !.state = state]
  <2>1. lateCase \in [Refunds -> LateRow] /\ lateCase[r] \in LateRow /\ lateCase' = [lateCase EXCEPT ![r] = row]
    BY <1>1 DEF RefundTypes
  <2>2. row \in LateRow /\ row.state = state /\ row.covered = lateCase[r].covered
    BY <2>1 DEF LateRow
  <2> HIDE DEF row
  <2> QED
    BY <2>1, <2>2
<1>3. /\ acct' \in [received : Nat, reversed : Nat, allocated : Nat, reserved : Nat, refunded : Nat,
                    frozen : BOOLEAN]
      /\ \A part \in DepositParts : acct'[part] = acct[part]
      /\ acct'.reserved = acct.reserved /\ acct'.refunded = acct.refunded /\ Available(acct') = Available(acct)
      /\ acct'.frozen
  BY <1>1 DEF AccountTypes, DepositParts, Available
<1>4. AccountTypes' /\ RefundTypes' /\ InvoiceTypes'
  BY <1>1, <1>2, <1>3, KeptRows DEF AccountTypes, RefundTypes
<1>5. CoveredOf(lateCase') = CoveredOf(lateCase)
  <2>1. \A q \in Refunds : lateCase'[q].covered = lateCase[q].covered
    BY <1>2
  <2> QED
    BY <2>1, SameCovered
<1>6. SlipsFit' /\ AccountFits' /\ ChargeFits' /\ DrawerFits' /\ RefundedFits' /\ HeldFits' /\ ReceiptsFit'
  <2>1. SlipsFit' /\ ChargeFits' /\ DrawerFits'
    BY DEF MoneyInv, SlipsFit, ChargeFits, DrawerFits
  <2>2. AccountFits' /\ RefundedFits'
    BY <1>3, <1>5 DEF MoneyInv, AccountFits, RefundedFits
  <2>3. HeldFits' /\ ReceiptsFit'
    BY DEF MoneyInv, HeldFits, HeldByIntents, ReceiptsFit, SlipsOf
  <2> QED
    BY <2>1, <2>2, <2>3
<1>7. FrozenFits'
  BY <1>2, <1>3 DEF FrozenFits, StaysFrozen
<1>8. RefundsFit'
  <2> SUFFICES ASSUME NEW q \in Refunds
               PROVE  (RefundFits(q) /\ ProviderFits(q) /\ ReleaseFits(q) /\ CaseFits(q))'
    BY DEF RefundsFit
  <2>1. RefundFits(q) /\ ProviderFits(q) /\ ReleaseFits(q) /\ CaseFits(q)
    BY DEF MoneyInv, RefundsFit
  <2>2. (RefundFits(q) /\ ProviderFits(q) /\ ReleaseFits(q))'
    BY <2>1 DEF RefundFits, ProviderFits, ReleaseFits
  <2>3. CaseFits(q)'
    BY <1>1, <1>2, <2>1 DEF CaseFits, Resolved
  <2> QED
    BY <2>2, <2>3
<1>9. ClosedStayIsSettled'
  BY <1>3 DEF MoneyInv, ClosedStayIsSettled
<1> QED
  BY <1>4, <1>6, <1>7, <1>8, <1>9, KeptRows DEF MoneyInv

LEMMA RecordLateSuccessKeeps == ASSUME MoneyInv, NEW r \in Refunds, RecordLateSuccess(r) PROVE MoneyInv'
BY CaseStepKeeps DEF RecordLateSuccess, invoicing, refunding

LEMMA ClaimCaseKeeps == ASSUME MoneyInv, NEW r \in Refunds, ClaimCase(r) PROVE MoneyInv'
<1>1. /\ lateCase[r].state = "OPEN" /\ lateCase' = [lateCase EXCEPT ![r].state = "RECONCILING"]
      /\ UNCHANGED <<acct, slips, paid, till, inHouse, intent, invoice, asking, told, correction, refund, payback,
                     heard, due>>
  BY DEF ClaimCase, money, invoicing, refunding
<1>2. refund[r].state = "RELEASED"
  BY <1>1 DEF MoneyInv, RefundsFit, CaseFits
<1>3. acct.frozen
  BY <1>1 DEF MoneyInv, FrozenFits, StaysFrozen
<1>4. acct' = [acct EXCEPT !.frozen = TRUE]
  BY <1>1, <1>3 DEF MoneyInv, AccountTypes
<1> QED
  BY <1>1, <1>2, <1>4, CaseStepKeeps

\* Corrections before their approval.
LEMMA RequestCorrectionKeeps ==
    ASSUME MoneyInv, NEW c \in Corrections, NEW n \in DOMAIN slips, NEW a \in {0} \cup Amounts,
           NEW channel \in Channels, NEW routed \in BOOLEAN, RequestCorrection(c, n, a, channel, routed)
    PROVE  MoneyInv'
<1>1. /\ UNCHANGED <<acct, slips, paid, till, inHouse, intent, invoice, asking, told, refund, payback, heard,
                     lateCase>>
      /\ correction[c].state = "none"
      /\ correction' = [correction EXCEPT ![c] =
            [state |-> "PENDING", slip |-> n, amount |-> a, channel |-> channel, routed |-> routed,
             source |-> slips[n]]]
      /\ due' = due \cup {c}
  BY DEF RequestCorrection, money, invoicing, refunding
<1>2. AccountTypes /\ InvoiceTypes /\ CorrectionsFit /\ c \notin Intents /\ c \notin Refunds
  BY GuestMoneyAssumption DEF MoneyInv
<1>3. n \in Nat /\ slips[n] \in Slips /\ channel \in AnyChannel
  BY <1>2, GuestMoneyAssumption DEF AccountTypes, AnyChannel
<1>4. /\ correction' \in [Corrections -> CorrectionRow]
      /\ \A d \in Corrections \ {c} : correction'[d] = correction[d]
      /\ correction'[c].state = "PENDING" /\ correction'[c].slip = n
  BY <1>1, <1>2, <1>3 DEF InvoiceTypes, CorrectionRow
<1>5. AccountTypes' /\ InvoiceTypes' /\ RefundTypes'
  BY <1>1, <1>2, <1>4, KeptAccount, KeptRows DEF InvoiceTypes, AccountTypes
<1>6. CorrectionsFit'
  BY <1>1, <1>2, <1>4 DEF CorrectionsFit, ByProvider
<1>7. ShiftBoundWhileOpen'
  BY <1>1, <1>2, <1>4 DEF MoneyInv, ShiftBoundWhileOpen, Pending
<1>8. ClosedStayIsSettled'
  BY <1>1, <1>4 DEF MoneyInv, ClosedStayIsSettled
<1> QED
  BY <1>1, <1>5, <1>6, <1>7, <1>8, KeptAccount, KeptRows DEF MoneyInv

LEMMA InvoiceCorrectionKeeps ==
    ASSUME MoneyInv, NEW c \in Corrections, InvoiceCorrection(c) PROVE MoneyInv'
<1>1. /\ UNCHANGED <<acct, slips, paid, till, inHouse, intent, asking, told, correction, refund, payback, heard,
                     lateCase, due>>
      /\ correction[c].state = "PENDING" /\ ByProvider(c)
      /\ invoice' = [invoice EXCEPT ![c] = IF @ = "none" THEN "PENDING" ELSE @]
  BY DEF InvoiceCorrection, ByProvider, money, refunding
<1>2. InvoiceTypes /\ CorrectionsFit /\ CancelledFits /\ c \notin Intents
  BY GuestMoneyAssumption DEF MoneyInv
<1>3. AccountTypes' /\ InvoiceTypes' /\ RefundTypes'
  BY <1>1, <1>2, KeptAccount, KeptRows DEF MoneyInv, InvoiceTypes, AccountTypes
<1>4. CorrectionsFit' /\ CancelledFits'
  BY <1>1, <1>2 DEF InvoiceTypes, CorrectionsFit, CancelledFits, ByProvider
<1> QED
  BY <1>1, <1>3, <1>4, KeptAccount, KeptRows DEF MoneyInv

\* A rejected correction leaves no invoice that could be paid.
LEMMA RejectCorrectionKeeps ==
    ASSUME MoneyInv, NEW c \in Corrections, RejectCorrection(c) PROVE MoneyInv'
<1>1. /\ UNCHANGED <<acct, slips, paid, till, inHouse, intent, asking, told, refund, payback, heard, lateCase>>
      /\ correction[c].state = "PENDING"
      /\ invoice' = IF ByProvider(c) THEN [invoice EXCEPT ![c] = IF @ = "none" THEN "none" ELSE "VOIDED"]
                    ELSE invoice
      /\ \/ correction' = [correction EXCEPT ![c].state = "REJECTED"] /\ due' = due \ {c}
         \/ correction' = correction /\ due' = due
  BY DEF RejectCorrection, RejectedInvoice, VoidedIfKnown, Unbound, money, refunding
<1>2. /\ AccountTypes /\ InvoiceTypes /\ CorrectionsFit /\ CancelledFits
      /\ c \notin Intents /\ c \notin Refunds
  BY GuestMoneyAssumption DEF MoneyInv
<1>3. /\ invoice' \in [Intents \cup Corrections -> {"none", "PENDING", "SUCCEEDED", "VOIDED"}]
      /\ \A x \in (Intents \cup Corrections) \ {c} : invoice'[x] = invoice[x]
      /\ invoice'[c] \in {"none", "VOIDED"} /\ (invoice'[c] # "none" => invoice[c] # "none")
  BY <1>1, <1>2 DEF InvoiceTypes, CorrectionsFit
<1>4. /\ correction' \in [Corrections -> CorrectionRow]
      /\ \A d \in Corrections \ {c} : correction'[d] = correction[d]
      /\ correction' = correction \/ correction'[c].state = "REJECTED"
      /\ correction'[c].state # "EXECUTED" /\ correction'[c].slip = correction[c].slip
      /\ correction'[c].channel = correction[c].channel /\ correction'[c].amount = correction[c].amount
      /\ correction'[c].state # "none"
  BY <1>1, <1>2 DEF InvoiceTypes, CorrectionRow
<1>5. AccountTypes' /\ InvoiceTypes' /\ RefundTypes'
  BY <1>1, <1>2, <1>3, <1>4, KeptAccount, KeptRows DEF InvoiceTypes, AccountTypes
<1>6. CorrectionsFit'
  <2> SUFFICES ASSUME NEW d \in Corrections
               PROVE  /\ correction'[d].state # "none" => correction'[d].slip \in DOMAIN slips'
                      /\ invoice'[d] # "none" => correction'[d].state # "none" /\ ByProvider(d)'
                      /\ correction'[d].state = "REJECTED" => invoice'[d] \in {"none", "VOIDED"}
    BY DEF CorrectionsFit
  <2>1. CASE d = c
    BY <1>1, <1>2, <1>3, <1>4, <2>1 DEF CorrectionsFit, ByProvider
  <2>2. CASE d # c
    BY <1>1, <1>2, <1>3, <1>4, <2>2 DEF CorrectionsFit, ByProvider
  <2> QED
    BY <2>1, <2>2
<1>7. CancelledFits'
  BY <1>1, <1>2, <1>3 DEF CancelledFits
<1>8. ShiftBoundWhileOpen'
  <2>1. CASE correction' = correction /\ due' = due
    BY <1>1, <2>1, KeptRows
  <2>2. CASE correction' = [correction EXCEPT ![c].state = "REJECTED"] /\ due' = due \ {c}
    <3>1. correction'[c].state = "REJECTED"
      BY <1>2, <2>2 DEF InvoiceTypes, CorrectionRow
    <3> QED
      BY <1>1, <1>2, <1>4, <2>2, <3>1 DEF MoneyInv, ShiftBoundWhileOpen, Pending
  <2> QED
    BY <1>1, <2>1, <2>2
<1>9. ClosedStayIsSettled'
  <2>1. (\A d \in Corrections : correction'[d].state # "EXECUTED")
            => \A d \in Corrections : correction[d].state # "EXECUTED"
    BY <1>1, <1>4
  <2> QED
    BY <1>1, <2>1 DEF MoneyInv, ClosedStayIsSettled
<1> QED
  BY <1>1, <1>5, <1>6, <1>7, <1>8, <1>9, KeptAccount, KeptRows DEF MoneyInv

-----------------------------------------------------------------------------
(* The steps that move money.                                              *)

\* A receipt no open refund is of reserves nothing.
LEMMA NothingReserved ==
    ASSUME NEW rf, NEW n, \A r \in Refunds : Reserves(rf[r], n) = 0 PROVE ReservedOf(rf, n) = 0
<1> DEFINE f == [r \in Refunds |-> Reserves(rf[r], n)]
<1>1. ReservedOf(rf, n) = SumFunctionOnSet(f, Refunds) /\ \A r \in Refunds : f[r] = 0
  BY DEF ReservedOf, SumFunction
<1> HIDE DEF f
<1> QED
  BY <1>1, SumZero, GuestMoneyAssumption

\* Receipts are added and changed, never removed, and keep their purpose: what
\* refunds and corrections refer to is there.
LEMMA KeptByGrowth ==
    ASSUME MoneyInv, DOMAIN slips \subseteq DOMAIN slips',
           \A n \in DOMAIN slips : slips'[n].purpose = slips[n].purpose
    PROVE  /\ UNCHANGED <<refund, payback, heard, lateCase>> => RefundsFit'
           /\ UNCHANGED <<correction, invoice>> => CorrectionsFit'
<1>1. UNCHANGED <<refund, payback, heard, lateCase>> => RefundsFit'
  BY DEF MoneyInv, RefundsFit, RefundFits, ProviderFits, ReleaseFits, CaseFits
<1>2. UNCHANGED <<correction, invoice>> => CorrectionsFit'
  BY DEF MoneyInv, CorrectionsFit, ByProvider
<1> QED
  BY <1>1, <1>2

\* A receipt for a payment of the charge.
Payment(s) ==
    /\ s \in Slips /\ s.purpose = "PAYMENT" /\ s.allocated = s.amount
    /\ s.reserved = 0 /\ s.refunded = 0 /\ s.reversed = 0

LEMMA PaymentAdded ==
    ASSUME MoneyInv, NEW s, Payment(s), slips' = Append(slips, s), Len(slips) < MaxSlips,
           UNCHANGED <<acct, inHouse, correction, invoice, refund, payback, heard, lateCase>>,
           paid' = paid + s.amount, paid' <= RoomCharge,
           till' = IF s.channel = "CASH" THEN Till(s.amount, 0) ELSE till
    PROVE  /\ AccountTypes' /\ Len(slips') >= 1
           /\ SlipsFit' /\ AccountFits' /\ ChargeFits' /\ DrawerFits' /\ RefundedFits'
           /\ RefundsFit' /\ FrozenFits' /\ CorrectionsFit'
           /\ \A x : SlipsOf(x)' = SlipsOf(x) \cup (IF s.attempt = x THEN {Len(slips) + 1} ELSE {})
<1>1. /\ slips \in Seq(Slips) /\ paid \in Nat /\ till \in [posted : Nat, reserved : Nat]
      /\ AccountTypes /\ RefundTypes
  BY GuestMoneyAssumption DEF MoneyInv, AccountTypes
<1>2. s.amount \in Nat /\ s \in Slips
  BY GuestMoneyAssumption DEF Payment, Slips, Amounts
<1>3. /\ slips' \in Seq(Slips) /\ Len(slips') = Len(slips) + 1 /\ DOMAIN slips' = DOMAIN slips \cup {Len(slips) + 1}
      /\ slips'[Len(slips) + 1] = s /\ \A n \in DOMAIN slips : slips'[n] = slips[n] /\ Len(slips) + 1 # n
      /\ Len(slips) \in Nat /\ DOMAIN slips = 1 .. Len(slips)
  BY <1>1, <1>2
<1>4. \A part \in Parts : TotalOf(slips', part) = TotalOf(slips, part) + PartsOf(s)[part]
  BY <1>1, <1>2, TotalOfAppended
<1>5. \A part \in Parts : TotalOf(slips, part) \in Int
  BY <1>1, TotalTypes
<1>6. /\ \A part \in DepositParts : PartsOf(s)[part] = 0
      /\ PartsOf(s)["paid"] = s.amount
      /\ PartsOf(s)["cash"] = IF s.channel = "CASH" THEN s.amount ELSE 0
  BY <1>2, PartValues DEF Payment
<1>7. till' \in [posted : Nat, reserved : Nat]
      /\ till'.posted = till.posted + (IF s.channel = "CASH" THEN s.amount ELSE 0)
      /\ till'.reserved = till.reserved
  BY <1>1, <1>2 DEF Till
<1>8. AccountTypes' /\ Len(slips') >= 1
  <2>1. paid' \in 0 .. RoomCharge
    BY <1>1, <1>2, GuestMoneyAssumption
  <2>2. Len(slips') <= MaxSlips
    BY <1>3, GuestMoneyAssumption
  <2> QED
    BY <1>1, <1>3, <1>7, <2>1, <2>2 DEF AccountTypes
<1>9. SlipsFit'
  <2>1. ReservedOf(refund, Len(slips) + 1) = 0
    <3>1. \A r \in Refunds : Reserves(refund[r], Len(slips) + 1) = 0
      BY <1>3 DEF MoneyInv, RefundsFit, RefundFits, Reserves
    <3> QED
      BY <3>1, NothingReserved
  <2>2. Spendable(s) = 0 /\ s.reserved = 0
    BY <1>2 DEF Spendable, Payment
  <2> QED
    BY <1>3, <2>1, <2>2 DEF MoneyInv, SlipsFit
<1>10. AccountFits' /\ ChargeFits'
  <2>1. AccountFits'
    BY <1>4, <1>5, <1>6 DEF MoneyInv, AccountFits, Parts
  <2>2. ChargeFits'
    BY <1>4, <1>6 DEF MoneyInv, ChargeFits, Parts
  <2> QED
    BY <2>1, <2>2
<1>11. DrawerFits' /\ RefundedFits'
  <2>1. RefundedFits'
    BY DEF MoneyInv, RefundedFits
  <2>2. RefundsTotal(refund, "cashDone") \in Int
    BY <1>1, RefundTotalTypes DEF RefundTypes, RefundParts
  <2>3. TotalOf(slips, "cash") \in Int /\ TotalOf(slips', "cash") = TotalOf(slips, "cash") + PartsOf(s)["cash"]
    BY <1>4, <1>5 DEF Parts
  <2>4. DrawerFits
    BY DEF MoneyInv
  <2>5. till'.posted = DrawerFloat + TotalOf(slips', "cash") - RefundsTotal(refund', "cashDone")
    <3> DEFINE t == TotalOf(slips, "cash")
               d == RefundsTotal(refund, "cashDone")
               c == PartsOf(s)["cash"]
    <3>1. /\ t \in Int /\ d \in Int /\ DrawerFloat \in Int /\ c \in Int
          /\ TotalOf(slips', "cash") = t + c /\ RefundsTotal(refund', "cashDone") = d
      BY <1>2, <1>6, <2>2, <2>3, GuestMoneyAssumption
    <3>2. till.posted = DrawerFloat + t - d /\ till'.posted = till.posted + c
      BY <1>6, <1>7, <2>4 DEF DrawerFits
    <3> HIDE DEF t, d, c
    <3>3. till'.posted = DrawerFloat + (t + c) - d
      BY <3>1, <3>2
    <3> QED
      BY <3>1, <3>3
  <2>6. till'.reserved = RefundsTotal(refund', "cashOpen") /\ till'.reserved <= till'.posted
    BY <1>1, <1>2, <1>7, <2>4 DEF DrawerFits
  <2> QED
    BY <2>1, <2>5, <2>6 DEF DrawerFits
<1>12. RefundsFit' /\ CorrectionsFit'
  BY <1>3, KeptByGrowth
<1>13. FrozenFits'
  BY KeptRows
<1>14. \A x : SlipsOf(x)' = SlipsOf(x) \cup (IF s.attempt = x THEN {Len(slips) + 1} ELSE {})
  BY <1>3 DEF SlipsOf
<1> QED
  BY <1>8, <1>9, <1>10, <1>11, <1>12, <1>13, <1>14

\* Only intents are the attempts of receipts that carry their name.
LEMMA ReceiptsKept ==
    ASSUME MoneyInv, \A i \in Intents : SlipsOf(i)' = SlipsOf(i), DOMAIN slips \subseteq DOMAIN slips',
           \A i \in Intents : intent'[i].state = "APPLIED" <=> intent[i].state = "APPLIED"
    PROVE  ReceiptsFit'
BY DEF MoneyInv, ReceiptsFit

\* What is held is a number: no intent, or the one that is pending.
LEMMA HeldNat == ASSUME MoneyInv PROVE HeldByIntents({}) \in Nat
<1>1. CASE \E i \in Intents : Pending(i)
  <2>1. PICK i \in Intents : Pending(i)
    BY <1>1
  <2>2. /\ intent[i].state = "PENDING" /\ intent[i].amount \in Nat
        /\ \A j \in Intents \ {} : intent[j].state = "PENDING" => j = i
    BY <2>1, GuestMoneyAssumption DEF MoneyInv, IntentsFit, Pending, Amounts
  <2> QED
    BY <2>2, OneHeld, HeldIsOf
<1>2. CASE \A i \in Intents : ~Pending(i)
  BY <1>2, NothingHeld, HeldIsOf DEF Pending
<1> QED
  BY <1>1, <1>2

LEMMA PayAtDeskKeeps ==
    ASSUME MoneyInv, NEW a \in Amounts, NEW channel \in Channels, PayAtDesk(channel, a) PROVE MoneyInv'
<1> DEFINE s == NewSlip("PAYMENT", channel, a, a, "desk")
<1>1. /\ UNCHANGED <<acct, inHouse, intent, invoice, asking, told, correction, refund, payback, heard, lateCase, due>>
      /\ inHouse /\ Len(slips) < MaxSlips /\ Chargeable(a, paid, {})
      /\ paid' = paid + a /\ slips' = Append(slips, s)
      /\ till' = IF channel = "CASH" THEN Till(a, 0) ELSE till
  BY DEF PayAtDesk, invoicing, refunding
<1>2. a \in Nat /\ channel \in AnyChannel
  BY GuestMoneyAssumption DEF Amounts, AnyChannel
<1>3. Payment(s) /\ s.amount = a /\ s.channel = channel /\ s.attempt = "desk"
  BY <1>2 DEF Payment, NewSlip, Slips
<1>4. HeldFits' /\ paid' <= RoomCharge
  <2>1. HeldByIntents({})' = HeldByIntents({}) /\ HeldByIntents({}) \in Nat
    BY <1>1, HeldNat DEF HeldByIntents
  <2>3. paid \in Nat
    BY GuestMoneyAssumption DEF MoneyInv, AccountTypes
  <2> HIDE DEF s
  <2> QED
    BY <1>1, <1>2, <2>1, <2>3, GuestMoneyAssumption DEF HeldFits, Chargeable
<1> HIDE DEF s
<1>5. /\ AccountTypes' /\ Len(slips') >= 1
      /\ SlipsFit' /\ AccountFits' /\ ChargeFits' /\ DrawerFits' /\ RefundedFits'
      /\ RefundsFit' /\ FrozenFits' /\ CorrectionsFit'
      /\ \A x : SlipsOf(x)' = SlipsOf(x) \cup (IF s.attempt = x THEN {Len(slips) + 1} ELSE {})
  BY <1>1, <1>3, <1>4, PaymentAdded
<1>6. ReceiptsFit'
  <2>1. \A i \in Intents : SlipsOf(i)' = SlipsOf(i)
    BY <1>3, <1>5, GuestMoneyAssumption
  <2>2. DOMAIN slips \subseteq DOMAIN slips'
    BY <1>1 DEF MoneyInv, AccountTypes
  <2> QED
    BY <1>1, <2>1, <2>2, ReceiptsKept
<1>7. ClosedStayIsSettled'
  BY <1>1 DEF ClosedStayIsSettled
<1> QED
  BY <1>1, <1>4, <1>5, <1>6, <1>7, KeptRows DEF MoneyInv

\* The captured invoice becomes the one receipt of its intent, and what was held
\* for it is paid.
LEMMA ApplyIntentKeeps ==
    ASSUME MoneyInv, NEW i \in Intents, ApplyIntent(i) PROVE MoneyInv'
<1> DEFINE a == intent[i].amount
           s == NewSlip("PAYMENT", "QPAY", a, a, i)
<1>1. /\ UNCHANGED <<acct, till, inHouse, invoice, asking, told, correction, refund, payback, heard, lateCase>>
      /\ Pending(i) /\ Len(slips) < MaxSlips /\ Chargeable(a, paid, {i})
      /\ paid' = paid + a /\ slips' = Append(slips, s)
      /\ intent' = [intent EXCEPT ![i].state = "APPLIED"] /\ due' = due \ {i}
  BY DEF ApplyIntent, refunding, Unbound
<1>2. /\ a \in Amounts /\ a \in Nat /\ intent[i].state = "PENDING" /\ inHouse
      /\ \A j \in Intents : j # i => intent[j].state # "PENDING"
  BY <1>1, GuestMoneyAssumption DEF MoneyInv, IntentsFit, Pending, Amounts
<1>3. Payment(s) /\ s.amount = a /\ s.channel = "QPAY" /\ s.attempt = i
  BY <1>2 DEF Payment, NewSlip, Slips, AnyChannel
<1>4. /\ intent' \in [Intents -> IntentRow] /\ \A j \in Intents \ {i} : intent'[j] = intent[j]
      /\ intent'[i].state = "APPLIED"
  BY <1>1 DEF MoneyInv, InvoiceTypes, IntentRow
<1>5. HeldFits' /\ paid' <= RoomCharge
  <2>1. HeldByIntents({i}) = 0
    BY <1>2, NothingHeld, HeldIsOf
  <2>2. HeldByIntents({})' = 0
    <3>1. \A j \in Intents \ {} : intent'[j].state # "PENDING"
      BY <1>2, <1>4
    <3>2. HeldOf(intent', {}) = 0
      BY <3>1, NothingHeld
    <3> QED
      BY <3>2 DEF HeldByIntents, HeldOf
  <2>3. paid \in Nat
    BY GuestMoneyAssumption DEF MoneyInv, AccountTypes
  <2> HIDE DEF a, s
  <2> QED
    BY <1>1, <1>2, <2>1, <2>2, <2>3, GuestMoneyAssumption DEF HeldFits, Chargeable
<1> HIDE DEF a, s
<1>6. /\ AccountTypes' /\ Len(slips') >= 1
      /\ SlipsFit' /\ AccountFits' /\ ChargeFits' /\ DrawerFits' /\ RefundedFits'
      /\ RefundsFit' /\ FrozenFits' /\ CorrectionsFit'
      /\ \A x : SlipsOf(x)' = SlipsOf(x) \cup (IF s.attempt = x THEN {Len(slips) + 1} ELSE {})
  BY <1>1, <1>3, <1>5, PaymentAdded
<1>7. ReceiptsFit'
  <2>1. DOMAIN slips' = DOMAIN slips \cup {Len(slips) + 1}
    <3>1. slips \in Seq(Slips) /\ s \in Slips
      BY <1>3 DEF MoneyInv, AccountTypes, Payment
    <3> QED
      BY <1>1, <3>1
  <2>2. SlipsOf(i)' = {Len(slips) + 1}
    BY <1>2, <1>3, <1>6 DEF MoneyInv, ReceiptsFit
  <2>3. \A j \in Intents \ {i} : SlipsOf(j)' = SlipsOf(j)
    BY <1>3, <1>6
  <2> QED
    BY <1>4, <2>1, <2>2, <2>3 DEF MoneyInv, ReceiptsFit
<1>8. InvoiceTypes' /\ IntentsFit' /\ CancelledFits'
  BY <1>1, <1>2, <1>4 DEF MoneyInv, InvoiceTypes, IntentsFit, CancelledFits, Pending
<1>9. ShiftBoundWhileOpen'
  <2>1. i \notin Refunds /\ i \notin Corrections
    BY GuestMoneyAssumption
  <2> QED
    BY <1>1, <1>4, <2>1 DEF MoneyInv, ShiftBoundWhileOpen, Pending
<1>10. ClosedStayIsSettled'
  BY <1>1, <1>2 DEF ClosedStayIsSettled
<1> QED
  BY <1>1, <1>5, <1>6, <1>7, <1>8, <1>9, <1>10, KeptRows DEF MoneyInv

\* A total changes by as much as the one receipt that changed.
LEMMA PartBecomes ==
    ASSUME NEW sl \in Seq(Slips), NEW n \in DOMAIN sl, NEW s \in Slips, NEW part \in Parts, NEW d \in Int,
           PartsOf(s)[part] = PartsOf(sl[n])[part] + d
    PROVE  TotalOf([sl EXCEPT ![n] = s], part) = TotalOf(sl, part) + d
<1> DEFINE old == TotalOf(sl, part)
           now == TotalOf([sl EXCEPT ![n] = s], part)
           was == PartsOf(sl[n])[part]
           is == PartsOf(s)[part]
<1>1. now = old - was + is
  BY TotalOfChanged
<1>2. old \in Int /\ was \in Int
  BY TotalTypes
<1>3. is = was + d
  OBVIOUS
<1> HIDE DEF old, now, was, is
<1>4. now = old + d
  BY <1>1, <1>2, <1>3
<1> QED
  BY <1>4 DEF now, old

\* Deposit receipt s is old with more or less paid, reserved and refunded.
MovedBy(old, s, dAllocated, dReserved, dRefunded) ==
    /\ old.purpose = "DEPOSIT" /\ s.purpose = "DEPOSIT"
    /\ s.amount = old.amount /\ s.channel = old.channel /\ s.reversed = old.reversed
    /\ s.attempt = old.attempt /\ s.allocated = old.allocated + dAllocated
    /\ s.reserved = old.reserved + dReserved /\ s.refunded = old.refunded + dRefunded

\* And so the account.
AccountMovedBy(old, new, dAllocated, dReserved, dRefunded) ==
    /\ new.received = old.received /\ new.reversed = old.reversed /\ new.frozen = old.frozen
    /\ new.allocated = old.allocated + dAllocated
    /\ new.reserved = old.reserved + dReserved /\ new.refunded = old.refunded + dRefunded

Account == [received : Nat, reversed : Nat, allocated : Nat, reserved : Nat, refunded : Nat, frozen : BOOLEAN]
Balances == [received : Int, reversed : Int, allocated : Int, reserved : Int, refunded : Int, frozen : BOOLEAN]

\* And so the totals of the receipts.
TotalsMovedBy(sl, new, dAllocated, dReserved, dRefunded) ==
    /\ TotalOf(new, "received") = TotalOf(sl, "received")
    /\ TotalOf(new, "reversed") = TotalOf(sl, "reversed")
    /\ TotalOf(new, "cash") = TotalOf(sl, "cash")
    /\ TotalOf(new, "allocated") = TotalOf(sl, "allocated") + dAllocated
    /\ TotalOf(new, "reserved") = TotalOf(sl, "reserved") + dReserved
    /\ TotalOf(new, "refunded") = TotalOf(sl, "refunded") + dRefunded
    /\ TotalOf(new, "paid") = TotalOf(sl, "paid") + dAllocated

\* The totals of the receipts move with the one that does.
LEMMA DepositTotals ==
    ASSUME NEW sl \in Seq(Slips), NEW n \in DOMAIN sl, NEW s \in Slips, NEW new, new = [sl EXCEPT ![n] = s],
           NEW dAllocated \in Int, NEW dReserved \in Int, NEW dRefunded \in Int,
           MovedBy(sl[n], s, dAllocated, dReserved, dRefunded)
    PROVE  TotalsMovedBy(sl, new, dAllocated, dReserved, dRefunded)
<1>1. {"received", "reversed", "allocated", "reserved", "refunded", "paid", "cash"} \subseteq Parts
  BY DEF Parts, DepositParts
<1>2. /\ PartsOf(s)["received"] = PartsOf(sl[n])["received"]
      /\ PartsOf(s)["reversed"] = PartsOf(sl[n])["reversed"]
      /\ PartsOf(s)["cash"] = PartsOf(sl[n])["cash"]
      /\ PartsOf(s)["allocated"] = PartsOf(sl[n])["allocated"] + dAllocated
      /\ PartsOf(s)["reserved"] = PartsOf(sl[n])["reserved"] + dReserved
      /\ PartsOf(s)["refunded"] = PartsOf(sl[n])["refunded"] + dRefunded
      /\ PartsOf(s)["paid"] = PartsOf(sl[n])["paid"] + dAllocated
  BY PartValues DEF MovedBy
<1>3. \A part \in Parts : PartsOf(sl[n])[part] \in Int /\ TotalOf(sl, part) \in Int
  BY TotalTypes
<1>4. \A part \in Parts, d \in Int :
         PartsOf(s)[part] = PartsOf(sl[n])[part] + d => TotalOf(new, part) = TotalOf(sl, part) + d
  BY PartBecomes
<1>5. \A part \in Parts : PartsOf(s)[part] = PartsOf(sl[n])[part] => TotalOf(new, part) = TotalOf(sl, part)
  <2> SUFFICES ASSUME NEW part \in Parts, PartsOf(s)[part] = PartsOf(sl[n])[part]
               PROVE  TotalOf(new, part) = TotalOf(sl, part)
    OBVIOUS
  <2> DEFINE was == PartsOf(sl[n])[part]
             old == TotalOf(sl, part)
             now == TotalOf(new, part)
  <2>1. was \in Int /\ old \in Int /\ 0 \in Int
    BY <1>3
  <2>2. PartsOf(s)[part] = was + 0 => now = old + 0
    BY <1>4, <2>1
  <2>3. PartsOf(s)[part] = was
    OBVIOUS
  <2> HIDE DEF was, old, now
  <2>4. was + 0 = was /\ old + 0 = old
    BY <2>1
  <2>5. now = old
    BY <2>2, <2>3, <2>4
  <2> QED
    BY <2>5 DEF now, old
<1> QED
  BY <1>1, <1>2, <1>4, <1>5, Zenon DEF TotalsMovedBy

\* A deposit's receipt pays, reserves or returns more or less, and the account
\* does with it.
LEMMA DepositMoved ==
    ASSUME MoneyInv, NEW n \in DOMAIN slips, NEW s \in Slips,
           NEW dAllocated \in Int, NEW dReserved \in Int, NEW dRefunded \in Int,
           slips' = [slips EXCEPT ![n] = s], MovedBy(slips[n], s, dAllocated, dReserved, dRefunded),
           Spendable(s) >= 0, s.reserved = ReservedOf(refund', n),
           \A m \in DOMAIN slips \ {n} : ReservedOf(refund', m) = ReservedOf(refund, m),
           acct' \in Balances, AccountMovedBy(acct, acct', dAllocated, dReserved, dRefunded),
           paid' = paid + dAllocated
    PROVE  /\ acct' \in Account
           /\ slips' \in Seq(Slips) /\ Len(slips') = Len(slips) /\ DOMAIN slips' = DOMAIN slips
           /\ \A m \in DOMAIN slips : slips'[m].purpose = slips[m].purpose
           /\ SlipsFit' /\ AccountFits' /\ ChargeFits'
           /\ TotalOf(slips', "cash") = TotalOf(slips, "cash")
           /\ \A x : SlipsOf(x)' = SlipsOf(x)
<1>1. slips \in Seq(Slips) /\ DOMAIN slips = 1 .. Len(slips) /\ Len(slips) \in Nat
  BY DEF MoneyInv, AccountTypes
<1>2. /\ slips' \in Seq(Slips) /\ Len(slips') = Len(slips) /\ DOMAIN slips' = DOMAIN slips
      /\ slips'[n] = s /\ \A m \in DOMAIN slips \ {n} : slips'[m] = slips[m]
  BY <1>1
<1>3. \A part \in Parts : part # "cash" => TotalOf(slips', part) \in Nat
  BY <1>2, TotalTypes
<1>4. /\ TotalOf(slips', "received") = TotalOf(slips, "received")
      /\ TotalOf(slips', "reversed") = TotalOf(slips, "reversed")
      /\ TotalOf(slips', "cash") = TotalOf(slips, "cash")
      /\ TotalOf(slips', "allocated") = TotalOf(slips, "allocated") + dAllocated
      /\ TotalOf(slips', "reserved") = TotalOf(slips, "reserved") + dReserved
      /\ TotalOf(slips', "refunded") = TotalOf(slips, "refunded") + dRefunded
      /\ TotalOf(slips', "paid") = TotalOf(slips, "paid") + dAllocated
  <2> DEFINE new == slips'
  <2>1. new = [slips EXCEPT ![n] = s]
    OBVIOUS
  <2>2. MovedBy(slips[n], s, dAllocated, dReserved, dRefunded)
    OBVIOUS
  <2>3. n \in DOMAIN slips /\ s \in Slips /\ dAllocated \in Int /\ dReserved \in Int /\ dRefunded \in Int
    OBVIOUS
  <2> HIDE DEF new
  <2>4. TotalsMovedBy(slips, new, dAllocated, dReserved, dRefunded)
    BY <1>1, <2>1, <2>2, <2>3, DepositTotals, Zenon
  <2>5. TotalsMovedBy(slips, slips', dAllocated, dReserved, dRefunded)
    BY <2>4 DEF new
  <2> QED
    BY <2>5, Zenon DEF TotalsMovedBy
<1>5. /\ acct.received = TotalOf(slips, "received") /\ acct.reversed = TotalOf(slips, "reversed")
      /\ acct.allocated = TotalOf(slips, "allocated") /\ acct.reserved = TotalOf(slips, "reserved")
      /\ acct.refunded = TotalOf(slips, "refunded") /\ paid = TotalOf(slips, "paid")
  BY DEF MoneyInv, AccountFits, ChargeFits, DepositParts
<1>6. \A part \in DepositParts : acct'[part] = TotalOf(slips', part)
  BY <1>4, <1>5 DEF DepositParts, AccountMovedBy
<1>7. acct' \in Account
  BY <1>3, <1>6 DEF DepositParts, Parts, Account, Balances
<1>8. AccountFits' /\ ChargeFits'
  BY <1>4, <1>5, <1>6 DEF AccountFits, ChargeFits
<1>9. SlipsFit'
  BY <1>2 DEF MoneyInv, SlipsFit
<1>10. (\A x : SlipsOf(x)' = SlipsOf(x)) /\ \A m \in DOMAIN slips : slips'[m].purpose = slips[m].purpose
  BY <1>2 DEF SlipsOf, MovedBy
<1> QED
  BY <1>2, <1>4, <1>7, <1>8, <1>9, <1>10

\* A receipt, or the account, with more or less paid, reserved and refunded.
Moved(x, dAllocated, dReserved, dRefunded) ==
    [x EXCEPT !.allocated = x.allocated + dAllocated, !.reserved = x.reserved + dReserved,
              !.refunded = x.refunded + dRefunded]

LEMMA SlipMoves ==
    ASSUME NEW old \in Slips, old.purpose = "DEPOSIT",
           NEW dAllocated \in Nat, NEW dReserved \in Int, NEW dRefunded \in Nat,
           old.reserved + dReserved \in Nat
    PROVE  /\ Moved(old, dAllocated, dReserved, dRefunded) \in Slips
           /\ MovedBy(old, Moved(old, dAllocated, dReserved, dRefunded), dAllocated, dReserved, dRefunded)
           /\ Spendable(Moved(old, dAllocated, dReserved, dRefunded)) =
                 Spendable(old) - dAllocated - dReserved - dRefunded
<1> DEFINE x == old.allocated + dAllocated
           y == old.reserved + dReserved
           z == old.refunded + dRefunded
           s == Moved(old, dAllocated, dReserved, dRefunded)
<1>1. /\ old.allocated \in Nat /\ old.reserved \in Nat /\ old.refunded \in Nat
      /\ old.amount \in Nat /\ old.reversed \in Nat
  BY GuestMoneyAssumption DEF Slips, Amounts
<1>2. x \in Nat /\ y \in Nat /\ z \in Nat
  BY <1>1
<1>3. s = [old EXCEPT !.allocated = x, !.reserved = y, !.refunded = z]
  BY DEF Moved
<1>4. x = old.allocated + dAllocated /\ y = old.reserved + dReserved /\ z = old.refunded + dRefunded
  OBVIOUS
<1> HIDE DEF x, y, z, s
<1>5. s \in Slips
  BY <1>2, <1>3 DEF Slips
<1>6. /\ s.purpose = old.purpose /\ s.amount = old.amount /\ s.channel = old.channel
      /\ s.reversed = old.reversed /\ s.attempt = old.attempt /\ s.allocated = x
      /\ s.reserved = y /\ s.refunded = z
  BY <1>3 DEF Slips
<1>7. MovedBy(old, s, dAllocated, dReserved, dRefunded)
  BY <1>4, <1>6 DEF MovedBy
<1>8. Spendable(s) = Spendable(old) - dAllocated - dReserved - dRefunded
  BY <1>1, <1>4, <1>6 DEF Spendable
<1> QED
  BY <1>5, <1>7, <1>8 DEF s

LEMMA AccountMoves ==
    ASSUME NEW a \in Account, NEW dAllocated \in Int, NEW dReserved \in Int, NEW dRefunded \in Int
    PROVE  /\ Moved(a, dAllocated, dReserved, dRefunded) \in Balances
           /\ AccountMovedBy(a, Moved(a, dAllocated, dReserved, dRefunded), dAllocated, dReserved, dRefunded)
<1> DEFINE x == a.allocated + dAllocated
           y == a.reserved + dReserved
           z == a.refunded + dRefunded
           new == Moved(a, dAllocated, dReserved, dRefunded)
<1>1. x \in Int /\ y \in Int /\ z \in Int
  BY DEF Account
<1>2. new = [a EXCEPT !.allocated = x, !.reserved = y, !.refunded = z]
  BY DEF Moved
<1>3. x = a.allocated + dAllocated /\ y = a.reserved + dReserved /\ z = a.refunded + dRefunded
  OBVIOUS
<1> HIDE DEF x, y, z, new
<1>4. new \in Balances
  <2>1. a \in Balances
    BY DEF Account, Balances
  <2> QED
    BY <1>1, <1>2, <2>1 DEF Balances
<1>5. /\ new.received = a.received /\ new.reversed = a.reversed /\ new.frozen = a.frozen
      /\ new.allocated = x /\ new.reserved = y /\ new.refunded = z
  BY <1>2 DEF Account
<1>6. AccountMovedBy(a, new, dAllocated, dReserved, dRefunded)
  BY <1>3, <1>5 DEF AccountMovedBy
<1> QED
  BY <1>4, <1>6 DEF new

\* A step that moves money of a deposit: what is reserved on the receipt is what
\* the open refunds of it come to.
LEMMA DepositMoves ==
    ASSUME MoneyInv, NEW n \in DOMAIN slips, slips[n].purpose = "DEPOSIT",
           NEW dAllocated \in Nat, NEW dReserved \in Int, NEW dRefunded \in Nat,
           slips' = [slips EXCEPT ![n] = Moved(slips[n], dAllocated, dReserved, dRefunded)],
           acct' = Moved(acct, dAllocated, dReserved, dRefunded),
           Spendable(slips[n]) - dAllocated - dReserved - dRefunded >= 0,
           ReservedOf(refund', n) = ReservedOf(refund, n) + dReserved, ReservedOf(refund', n) \in Nat,
           \A m \in DOMAIN slips \ {n} : ReservedOf(refund', m) = ReservedOf(refund, m),
           paid' = paid + dAllocated
    PROVE  /\ acct' \in Account /\ AccountMovedBy(acct, acct', dAllocated, dReserved, dRefunded)
           /\ slips' \in Seq(Slips) /\ Len(slips') = Len(slips) /\ DOMAIN slips' = DOMAIN slips
           /\ \A m \in DOMAIN slips : slips'[m].purpose = slips[m].purpose
           /\ SlipsFit' /\ AccountFits' /\ ChargeFits'
           /\ TotalOf(slips', "cash") = TotalOf(slips, "cash")
           /\ \A x : SlipsOf(x)' = SlipsOf(x)
<1> DEFINE old == slips[n]
           s == Moved(old, dAllocated, dReserved, dRefunded)
<1>1. slips \in Seq(Slips) /\ old \in Slips /\ acct \in Account
  BY DEF MoneyInv, AccountTypes, Account
<1>2. old.reserved = ReservedOf(refund, n) /\ old.purpose = "DEPOSIT"
  BY DEF MoneyInv, SlipsFit
<1>3. dAllocated \in Int /\ dRefunded \in Int /\ old.reserved + dReserved \in Nat
  BY <1>2
<1>4. /\ s \in Slips /\ MovedBy(old, s, dAllocated, dReserved, dRefunded)
      /\ Spendable(s) = Spendable(old) - dAllocated - dReserved - dRefunded
  <2> HIDE DEF old
  <2> QED
    BY <1>1, <1>2, <1>3, SlipMoves
<1>5. Spendable(s) >= 0
  BY <1>4
<1>6. s.reserved = ReservedOf(refund', n)
  BY <1>2, <1>4 DEF MovedBy
<1>7. acct' \in Balances /\ AccountMovedBy(acct, acct', dAllocated, dReserved, dRefunded)
  BY <1>1, <1>3, AccountMoves
<1>8. slips' = [slips EXCEPT ![n] = s] /\ MovedBy(slips[n], s, dAllocated, dReserved, dRefunded)
  BY <1>4
<1> HIDE DEF old, s
<1> QED
  BY <1>3, <1>4, <1>5, <1>6, <1>7, <1>8, DepositMoved

LEMMA SpendableType ==
    ASSUME NEW s \in Slips PROVE Spendable(s) \in Int
BY GuestMoneyAssumption DEF Spendable, Slips, Amounts

\* An allocation and a reservation change one field each.
LEMMA OneFieldMoves ==
    ASSUME NEW a \in Nat, NEW s, s \in Slips \/ s \in Account
    PROVE  /\ [s EXCEPT !.allocated = s.allocated + a] = Moved(s, a, 0, 0)
           /\ [s EXCEPT !.reserved = s.reserved + a] = Moved(s, 0, a, 0)
<1>1. /\ s.allocated \in Nat /\ s.reserved \in Nat /\ s.refunded \in Nat
  BY DEF Slips, Account
<1>2. /\ s.allocated + 0 = s.allocated /\ s.reserved + 0 = s.reserved /\ s.refunded + 0 = s.refunded
  BY <1>1
<1> DEFINE x == s.allocated + a
           y == s.reserved + a
<1>3. /\ Moved(s, a, 0, 0) = [s EXCEPT !.allocated = x, !.reserved = s.reserved, !.refunded = s.refunded]
      /\ Moved(s, 0, a, 0) = [s EXCEPT !.allocated = s.allocated, !.reserved = y, !.refunded = s.refunded]
  BY <1>2 DEF Moved
<1> HIDE DEF x, y
<1>4. /\ [s EXCEPT !.allocated = x] = Moved(s, a, 0, 0)
      /\ [s EXCEPT !.reserved = y] = Moved(s, 0, a, 0)
  BY <1>3 DEF Slips, Account
<1> QED
  BY <1>4 DEF x, y

LEMMA AllocateKeeps ==
    ASSUME MoneyInv, NEW a \in Amounts, NEW n \in DOMAIN slips, Allocate(n, a) PROVE MoneyInv'
<1>1. /\ UNCHANGED <<till, inHouse, intent, invoice, asking, told, correction, refund, payback, heard, lateCase, due>>
      /\ inHouse /\ slips[n].purpose = "DEPOSIT" /\ a <= Spendable(slips[n]) /\ Chargeable(a, paid, {})
      /\ paid' = paid + a /\ slips' = [slips EXCEPT ![n] = [slips[n] EXCEPT !.allocated = slips[n].allocated + a]]
      /\ acct' = [acct EXCEPT !.allocated = acct.allocated + a]
  BY DEF Allocate, invoicing, refunding
<1>2. /\ a \in Nat /\ slips \in Seq(Slips) /\ slips[n] \in Slips /\ acct \in Account /\ paid \in Nat
      /\ refund \in [Refunds -> RefundRow]
  BY GuestMoneyAssumption DEF Amounts, MoneyInv, AccountTypes, RefundTypes, Account
<1>3. /\ slips' = [slips EXCEPT ![n] = Moved(slips[n], a, 0, 0)]
      /\ acct' = Moved(acct, a, 0, 0)
  <2>1. [slips[n] EXCEPT !.allocated = slips[n].allocated + a] = Moved(slips[n], a, 0, 0)
    BY <1>2, OneFieldMoves
  <2>2. [acct EXCEPT !.allocated = acct.allocated + a] = Moved(acct, a, 0, 0)
    BY <1>2, OneFieldMoves
  <2> QED
    BY <1>1, <2>1, <2>2, Zenon
<1>4. Spendable(slips[n]) \in Int /\ ReservedOf(refund, n) \in Nat
  BY <1>2, SpendableType, RefundTotalTypes
<1>5. /\ Spendable(slips[n]) - a - 0 - 0 >= 0 /\ 0 \in Nat /\ 0 \in Int
      /\ ReservedOf(refund', n) = ReservedOf(refund, n) + 0 /\ ReservedOf(refund', n) \in Nat
  BY <1>1, <1>2, <1>4
<1>6. \A m \in DOMAIN slips \ {n} : ReservedOf(refund', m) = ReservedOf(refund, m)
  BY <1>1
<1>7. slips[n].purpose = "DEPOSIT" /\ paid' = paid + a
  BY <1>1
<1>8. /\ acct' \in Account /\ AccountMovedBy(acct, acct', a, 0, 0)
      /\ slips' \in Seq(Slips) /\ Len(slips') = Len(slips) /\ DOMAIN slips' = DOMAIN slips
      /\ \A m \in DOMAIN slips : slips'[m].purpose = slips[m].purpose
      /\ SlipsFit' /\ AccountFits' /\ ChargeFits'
      /\ TotalOf(slips', "cash") = TotalOf(slips, "cash")
      /\ \A x : SlipsOf(x)' = SlipsOf(x)
  BY <1>2, <1>3, <1>5, <1>6, <1>7, DepositMoves
<1>9. HeldFits' /\ paid' \in 0 .. RoomCharge
  <2>1. HeldByIntents({})' = HeldByIntents({}) /\ HeldByIntents({}) \in Nat
    BY <1>1, HeldNat DEF HeldByIntents
  <2> QED
    BY <1>1, <1>2, <2>1, GuestMoneyAssumption DEF HeldFits, Chargeable
<1>10. AccountTypes' /\ Len(slips') >= 1
  BY <1>1, <1>8, <1>9 DEF MoneyInv, AccountTypes, Account
<1>11. DrawerFits' /\ RefundedFits'
  <2>1. acct'.refunded = acct.refunded
    BY <1>1, <1>2 DEF Account
  <2> QED
    BY <1>1, <1>8, <2>1 DEF MoneyInv, DrawerFits, RefundedFits
<1>12. RefundsFit' /\ CorrectionsFit'
  BY <1>1, <1>8, KeptByGrowth
<1>13. ReceiptsFit'
  BY <1>1, <1>8, ReceiptsKept
<1>14. FrozenFits'
  BY <1>1, <1>8 DEF MoneyInv, FrozenFits, AccountMovedBy
<1>15. ClosedStayIsSettled'
  BY <1>1 DEF ClosedStayIsSettled
<1> QED
  BY <1>1, <1>8, <1>9, <1>10, <1>11, <1>12, <1>13, <1>14, <1>15, KeptRows DEF MoneyInv

\* What late cases have covered is a number.
LEMMA CoveredType ==
    ASSUME NEW cases \in [Refunds -> LateRow]
    PROVE  CoveredOf(cases) \in Nat
<1> DEFINE f == [r \in Refunds |-> cases[r].covered]
<1>1. CoveredOf(cases) = SumFunctionOnSet(f, Refunds) /\ \A r \in Refunds : f[r] \in Nat
  BY DEF CoveredOf, SumFunction, LateRow
<1> HIDE DEF f
<1> QED
  BY <1>1, SumNat, GuestMoneyAssumption

\* The end of a refund changes two.
LEMMA TwoFieldsMove ==
    ASSUME NEW a \in Nat, NEW b \in Nat, NEW s, s \in Slips \/ s \in Account
    PROVE  [s EXCEPT !.reserved = s.reserved - a, !.refunded = s.refunded + b] = Moved(s, 0, 0 - a, b)
<1>1. /\ s.allocated \in Nat /\ s.reserved \in Nat
  BY DEF Slips, Account
<1>2. s.allocated + 0 = s.allocated /\ s.reserved + (0 - a) = s.reserved - a
  BY <1>1
<1> DEFINE y == s.reserved - a
           z == s.refunded + b
<1>3. Moved(s, 0, 0 - a, b) = [s EXCEPT !.allocated = s.allocated, !.reserved = y, !.refunded = z]
  BY <1>2 DEF Moved
<1> HIDE DEF y, z
<1>4. [s EXCEPT !.reserved = y, !.refunded = z] = Moved(s, 0, 0 - a, b)
  BY <1>3 DEF Slips, Account
<1> QED
  BY <1>4 DEF y, z

\* The types of the records that a step moves money between.
LEMMA MoneyTypes ==
    ASSUME MoneyInv
    PROVE  /\ AccountTypes /\ RefundTypes /\ slips \in Seq(Slips) /\ \A n \in DOMAIN slips : slips[n] \in Slips
           /\ refund \in [Refunds -> RefundRow] /\ acct \in Account
           /\ till.posted \in Nat /\ till.reserved \in Nat /\ paid \in Nat
BY GuestMoneyAssumption DEF MoneyInv, AccountTypes, RefundTypes, Account

\* Refund was becomes is, of receipt n.
RefundMovedBy(was, is, n, dReserved, dRefunded, dOpen, dDone) ==
    /\ \A m : Reserves(is, m) = Reserves(was, m) + (IF m = n THEN dReserved ELSE 0)
    /\ RefundPartsOf(is)["done"] = RefundPartsOf(was)["done"] + dRefunded
    /\ RefundPartsOf(is)["cashOpen"] = RefundPartsOf(was)["cashOpen"] + dOpen
    /\ RefundPartsOf(is)["cashDone"] = RefundPartsOf(was)["cashDone"] + dDone
    /\ is.state # "none" /\ is.slip = n /\ is.amount \in Amounts
    /\ is.approval # "none" /\ (is.sent => is.approval = "APPROVED")
    /\ is.sent = was.sent /\ was.state # "RELEASED"

\* A refund that starts or ends, and moves the money of its receipt.
LEMMA RefundMoves ==
    ASSUME MoneyInv, NEW r \in Refunds, NEW n \in DOMAIN slips, slips[n].purpose = "DEPOSIT",
           NEW dReserved \in Int, NEW dRefunded \in Nat,
           UNCHANGED <<paid, inHouse, intent, invoice, asking, told, correction, payback, heard, lateCase>>,
           slips' = [slips EXCEPT ![n] = Moved(slips[n], 0, dReserved, dRefunded)],
           acct' = Moved(acct, 0, dReserved, dRefunded),
           Spendable(slips[n]) - 0 - dReserved - dRefunded >= 0,
           refund' \in [Refunds -> RefundRow], \A q \in Refunds \ {r} : refund'[q] = refund[q],
           NEW dOpen \in Int, NEW dDone \in Int,
           RefundMovedBy(refund[r], refund'[r], n, dReserved, dRefunded, dOpen, dDone),
           till' = [posted |-> till.posted - dDone, reserved |-> till.reserved + dOpen],
           till.reserved + dOpen <= till.posted - dDone,
           refund'[r].state = "RELEASED" => payback[r] # "PENDING" /\ (refund[r].sent => payback[r] # "none"),
           ShiftBoundWhileOpen', ClosedStayIsSettled'
    PROVE  MoneyInv'
<1> USE DEF RefundMovedBy
<1>1. /\ AccountTypes /\ RefundTypes /\ slips \in Seq(Slips) /\ slips[n] \in Slips
      /\ refund \in [Refunds -> RefundRow] /\ till.posted \in Nat /\ till.reserved \in Nat /\ paid \in Nat
  BY MoneyTypes
<1>2. \A part \in RefundParts :
          RefundsTotal(refund', part) =
             RefundsTotal(refund, part) - RefundPartsOf(refund[r])[part] + RefundPartsOf(refund'[r])[part]
  BY <1>1, RefundTotalsChanged
<1>3. \A m : ReservedOf(refund', m) = ReservedOf(refund, m) - Reserves(refund[r], m) + Reserves(refund'[r], m)
  BY <1>1, RefundTotalsChanged
<1>4. /\ \A part \in RefundParts :
            /\ RefundsTotal(refund, part) \in Nat /\ RefundsTotal(refund', part) \in Nat
            /\ RefundPartsOf(refund[r])[part] \in Nat /\ RefundPartsOf(refund'[r])[part] \in Nat
      /\ \A m : ReservedOf(refund, m) \in Nat /\ ReservedOf(refund', m) \in Nat
      /\ \A m : Reserves(refund[r], m) \in Nat
  BY <1>1, RefundTotalTypes, RefundPartTypes
<1>5. ASSUME NEW m PROVE ReservedOf(refund', m) = ReservedOf(refund, m) + (IF m = n THEN dReserved ELSE 0)
  <2> DEFINE was == Reserves(refund[r], m)
             is == Reserves(refund'[r], m)
             d == IF m = n THEN dReserved ELSE 0
             old == ReservedOf(refund, m)
             now == ReservedOf(refund', m)
  <2>1. now = old - was + is /\ is = was + d /\ was \in Int /\ old \in Int /\ d \in Int
    BY <1>3, <1>4
  <2> HIDE DEF was, is, d, old, now
  <2>2. now = old + d
    BY <2>1
  <2> QED
    BY <2>2 DEF now, old, d
<1>6. /\ acct' \in Account /\ AccountMovedBy(acct, acct', 0, dReserved, dRefunded)
      /\ slips' \in Seq(Slips) /\ Len(slips') = Len(slips) /\ DOMAIN slips' = DOMAIN slips
      /\ \A m \in DOMAIN slips : slips'[m].purpose = slips[m].purpose
      /\ SlipsFit' /\ AccountFits' /\ ChargeFits'
      /\ TotalOf(slips', "cash") = TotalOf(slips, "cash")
      /\ \A x : SlipsOf(x)' = SlipsOf(x)
  <2>1. 0 \in Nat /\ paid' = paid + 0
    BY <1>1
  <2>2. ReservedOf(refund', n) = ReservedOf(refund, n) + dReserved /\ ReservedOf(refund', n) \in Nat
    BY <1>4, <1>5
  <2>3. \A m \in DOMAIN slips \ {n} : ReservedOf(refund', m) = ReservedOf(refund, m)
    <3> SUFFICES ASSUME NEW m \in DOMAIN slips \ {n} PROVE ReservedOf(refund', m) = ReservedOf(refund, m)
      OBVIOUS
    <3>1. ReservedOf(refund', m) = ReservedOf(refund, m) + 0
      BY <1>5
    <3> QED
      BY <1>4, <3>1
  <2> QED
    BY <2>1, <2>2, <2>3, DepositMoves
<1>7. /\ RefundsTotal(refund', "done") = RefundsTotal(refund, "done") + dRefunded
      /\ RefundsTotal(refund', "cashOpen") = RefundsTotal(refund, "cashOpen") + dOpen
      /\ RefundsTotal(refund', "cashDone") = RefundsTotal(refund, "cashDone") + dDone
  <2>1. ASSUME NEW part \in RefundParts, NEW d \in Int,
               RefundPartsOf(refund'[r])[part] = RefundPartsOf(refund[r])[part] + d
        PROVE  RefundsTotal(refund', part) = RefundsTotal(refund, part) + d
    <3> DEFINE was == RefundPartsOf(refund[r])[part]
               is == RefundPartsOf(refund'[r])[part]
               old == RefundsTotal(refund, part)
               now == RefundsTotal(refund', part)
    <3>1. now = old - was + is /\ is = was + d /\ was \in Int /\ old \in Int
      BY <1>2, <1>4, <2>1
    <3> HIDE DEF was, is, old, now
    <3>2. now = old + d
      BY <3>1
    <3> QED
      BY <3>2 DEF now, old
  <2>2. {"done", "cashOpen", "cashDone"} \subseteq RefundParts /\ dRefunded \in Int
    BY DEF RefundParts
  <2> QED
    BY <2>1, <2>2
<1>8. DrawerFits' /\ till' \in [posted : Nat, reserved : Nat]
  <2>1. /\ till.posted = DrawerFloat + TotalOf(slips, "cash") - RefundsTotal(refund, "cashDone")
        /\ till.reserved = RefundsTotal(refund, "cashOpen")
    BY DEF MoneyInv, DrawerFits
  <2>2. TotalOf(slips, "cash") \in Int /\ RefundsTotal(refund, "cashDone") \in Int
        /\ RefundsTotal(refund, "cashOpen") \in Int /\ RefundsTotal(refund', "cashOpen") \in Nat
    BY <1>1, <1>4, TotalTypes DEF Parts, RefundParts
  <2>3. till'.posted = till.posted - dDone /\ till'.reserved = till.reserved + dOpen
    OBVIOUS
  <2>4. till'.posted = DrawerFloat + TotalOf(slips', "cash") - RefundsTotal(refund', "cashDone")
    <3> DEFINE t == TotalOf(slips, "cash")
               d == RefundsTotal(refund, "cashDone")
    <3>1. /\ t \in Int /\ d \in Int /\ dDone \in Int /\ DrawerFloat \in Int
          /\ TotalOf(slips', "cash") = t /\ RefundsTotal(refund', "cashDone") = d + dDone
      BY <1>6, <1>7, <2>2, GuestMoneyAssumption
    <3>2. till.posted = DrawerFloat + t - d /\ till'.posted = till.posted - dDone
      BY <2>1, <2>3
    <3> HIDE DEF t, d
    <3>3. till'.posted = DrawerFloat + t - (d + dDone)
      BY <3>1, <3>2
    <3> QED
      BY <3>1, <3>3
  <2>5. till'.reserved = RefundsTotal(refund', "cashOpen") /\ till'.reserved <= till'.posted
    BY <1>7, <2>1, <2>3
  <2>6. till.posted - dDone \in Nat /\ till.reserved + dOpen \in Nat
    <3> DEFINE u == till.reserved + dOpen
               w == till.posted - dDone
    <3>1. u = till'.reserved /\ w \in Int /\ u <= w
      BY <1>1, <2>3
    <3>2. u \in Nat
      BY <2>2, <2>5, <3>1, Zenon
    <3> HIDE DEF u, w
    <3>3. u \in Nat /\ w \in Nat
      BY <3>1, <3>2
    <3> QED
      BY <3>3 DEF u, w
  <2> QED
    BY <2>4, <2>5, <2>6 DEF DrawerFits
<1>9. AccountTypes' /\ Len(slips') >= 1
  BY <1>1, <1>6, <1>8 DEF MoneyInv, AccountTypes, Account
<1>10. RefundedFits'
  <2>1. acct'.refunded = acct.refunded + dRefunded
    BY <1>6 DEF AccountMovedBy
  <2>2. acct.refunded = RefundsTotal(refund, "done") + CoveredOf(lateCase) /\ acct.refunded \in Nat
    BY DEF MoneyInv, RefundedFits, AccountTypes
  <2>3. RefundsTotal(refund, "done") \in Nat
    BY <1>4 DEF RefundParts
  <2>4. CoveredOf(lateCase) \in Int
    BY <1>1, CoveredType DEF RefundTypes
  <2>5. CoveredOf(lateCase') = CoveredOf(lateCase)
    OBVIOUS
  <2> QED
    BY <1>7, <2>1, <2>2, <2>3, <2>4, <2>5 DEF RefundedFits
<1>11. HeldFits' /\ IntentsFit' /\ CancelledFits' /\ InvoiceTypes' /\ ReceiptsFit'
  <2>1. HeldFits'
    BY DEF MoneyInv, HeldFits, HeldByIntents
  <2>2. ReceiptsFit'
    BY <1>6, ReceiptsKept
  <2> QED
    BY <2>1, <2>2, KeptRows
<1>12. RefundTypes' /\ FrozenFits' /\ CorrectionsFit'
  <2>1. FrozenFits'
    BY <1>6 DEF MoneyInv, FrozenFits, AccountMovedBy
  <2>2. CorrectionsFit'
    BY <1>6, KeptByGrowth
  <2> QED
    BY <1>1, <2>1, <2>2 DEF RefundTypes
<1>13. RefundsFit'
  <2> SUFFICES ASSUME NEW q \in Refunds
               PROVE  (RefundFits(q) /\ ProviderFits(q) /\ ReleaseFits(q) /\ CaseFits(q))'
    BY DEF RefundsFit
  <2>1. RefundFits(q) /\ ProviderFits(q) /\ ReleaseFits(q) /\ CaseFits(q)
    BY DEF MoneyInv, RefundsFit
  <2>2. CASE q = r
    <3>1. RefundFits(r)'
      BY <1>6 DEF RefundFits
    <3>2. ProviderFits(r)' /\ ReleaseFits(r)'
      BY <2>1, <2>2 DEF ProviderFits, ReleaseFits
    <3>3. CaseFits(r)'
      <4>1. lateCase[r].state = "none"
        BY <2>1, <2>2 DEF CaseFits
      <4> QED
        BY <2>1, <2>2, <4>1 DEF CaseFits, Resolved
    <3> QED
      BY <2>2, <3>1, <3>2, <3>3
  <2>3. CASE q # r
    <3>1. refund'[q] = refund[q] /\ payback' = payback /\ heard' = heard /\ lateCase' = lateCase
      BY <2>3
    <3> QED
      BY <1>6, <2>1, <3>1 DEF RefundFits, ProviderFits, ReleaseFits, CaseFits
  <2> QED
    BY <2>2, <2>3
<1> QED
  BY <1>6, <1>8, <1>9, <1>10, <1>11, <1>12, <1>13 DEF MoneyInv

LEMMA TillIs ==
    ASSUME MoneyInv PROVE till = [posted |-> till.posted, reserved |-> till.reserved]
BY DEF MoneyInv, AccountTypes

LEMMA ReserveKeeps ==
    ASSUME MoneyInv, NEW r \in Refunds, NEW n \in DOMAIN slips, NEW a \in Amounts, NEW channel \in Channels,
           NEW routed \in BOOLEAN, Reserve(r, n, a, channel, routed)
    PROVE  MoneyInv'
<1> DEFINE x == [state |-> "RESERVED", slip |-> n, amount |-> a, channel |-> channel, sent |-> FALSE,
                 approval |-> IF ~routed THEN "unrouted"
                              ELSE IF channel = slips[n].channel THEN "APPROVED" ELSE "PENDING"]
           dOpen == IF channel = "CASH" THEN a ELSE 0
<1>1. /\ UNCHANGED <<paid, inHouse, intent, invoice, asking, told, correction, payback, heard, lateCase>>
      /\ refund[r].state = "none" /\ slips[n].purpose = "DEPOSIT"
      /\ a <= Spendable(slips[n]) /\ a <= Available(acct)
      /\ till' = (IF channel = "CASH" THEN Till(0, a) ELSE till) /\ CashAllows(till')
      /\ refund' = [refund EXCEPT ![r] = x]
      /\ slips' = [slips EXCEPT ![n] = [slips[n] EXCEPT !.reserved = slips[n].reserved + a]]
      /\ acct' = [acct EXCEPT !.reserved = acct.reserved + a] /\ due' = due \cup {r}
  BY DEF Reserve, invoicing
<1>2. /\ a \in Nat /\ a >= 1 /\ channel \in AnyChannel /\ slips \in Seq(Slips) /\ slips[n] \in Slips
      /\ acct \in Account /\ refund \in [Refunds -> RefundRow] /\ till.posted \in Nat /\ till.reserved \in Nat
      /\ DOMAIN slips \subseteq Nat
  BY MoneyTypes, GuestMoneyAssumption DEF Amounts, AnyChannel
<1>3. x \in RefundRow
  BY <1>2 DEF RefundRow
<1>4. /\ refund' \in [Refunds -> RefundRow] /\ \A q \in Refunds \ {r} : refund'[q] = refund[q]
      /\ refund'[r] = x
  <2> HIDE DEF x
  <2> QED
    BY <1>1, <1>2, <1>3
<1>5. /\ x.state = "RESERVED" /\ x.slip = n /\ x.amount = a /\ x.channel = channel /\ x.sent = FALSE
      /\ x.approval \in {"unrouted", "PENDING", "APPROVED"}
  OBVIOUS
<1>6. refund[r].sent = FALSE /\ refund[r].approval = "none" /\ refund[r] \in RefundRow
  BY <1>1, <1>2 DEF MoneyInv, RefundsFit, RefundFits, RefundRow
<1> HIDE DEF x
<1>7. \A m : Reserves(refund'[r], m) = Reserves(refund[r], m) + (IF m = n THEN a ELSE 0)
  BY <1>1, <1>2, <1>4, <1>5 DEF Reserves
<1>8. /\ RefundPartsOf(refund'[r])["done"] = RefundPartsOf(refund[r])["done"] + 0
      /\ RefundPartsOf(refund'[r])["cashOpen"] = RefundPartsOf(refund[r])["cashOpen"] + dOpen
      /\ RefundPartsOf(refund'[r])["cashDone"] = RefundPartsOf(refund[r])["cashDone"] + 0
  <2>1. /\ RefundPartsOf(refund[r])["done"] = 0 /\ RefundPartsOf(refund[r])["cashOpen"] = 0
        /\ RefundPartsOf(refund[r])["cashDone"] = 0
    BY <1>1, RefundPartValues
  <2>2. /\ RefundPartsOf(refund'[r])["done"] = 0 /\ RefundPartsOf(refund'[r])["cashOpen"] = dOpen
        /\ RefundPartsOf(refund'[r])["cashDone"] = 0
    BY <1>4, <1>5, RefundPartValues
  <2>3. dOpen \in Int
    BY <1>2
  <2> HIDE DEF dOpen
  <2> QED
    BY <2>1, <2>2, <2>3
<1>9. slips' = [slips EXCEPT ![n] = Moved(slips[n], 0, a, 0)] /\ acct' = Moved(acct, 0, a, 0)
  <2>1. [slips[n] EXCEPT !.reserved = slips[n].reserved + a] = Moved(slips[n], 0, a, 0)
    BY <1>2, OneFieldMoves
  <2>2. [acct EXCEPT !.reserved = acct.reserved + a] = Moved(acct, 0, a, 0)
    BY <1>2, OneFieldMoves
  <2> QED
    BY <1>1, <2>1, <2>2, Zenon
<1>10. /\ till' = [posted |-> till.posted - 0, reserved |-> till.reserved + dOpen]
       /\ till.reserved + dOpen <= till.posted - 0
  <2>1. till.posted - 0 = till.posted /\ till.posted + 0 = till.posted /\ till.reserved + 0 = till.reserved
    BY <1>2
  <2>2. till' = [posted |-> till.posted, reserved |-> till.reserved + dOpen]
    BY <1>1, <2>1, TillIs DEF Till
  <2> QED
    BY <1>1, <2>1, <2>2 DEF CashAllows
<1>11. Spendable(slips[n]) - 0 - a - 0 >= 0
  BY <1>1, <1>2, SpendableType
<1>12. ShiftBoundWhileOpen'
  <2>1. r \notin Intents /\ r \notin Corrections
    BY GuestMoneyAssumption
  <2> QED
    BY <1>1, <1>4, <1>5, <2>1 DEF MoneyInv, ShiftBoundWhileOpen, Pending
<1>13. ClosedStayIsSettled'
  <2>1. Available(acct) # 0
    <3>1. Available(acct) \in Int
      BY <1>2 DEF Available, Account
    <3> QED
      BY <1>1, <1>2, <3>1
  <2> QED
    BY <1>1, <2>1 DEF MoneyInv, ClosedStayIsSettled
<1>14. /\ a \in Int /\ 0 \in Nat /\ 0 \in Int /\ dOpen \in Int
  BY <1>2
<1>15. /\ refund'[r].state # "none" /\ refund'[r].slip = n /\ refund'[r].amount \in Amounts
       /\ refund'[r].approval # "none" /\ (refund'[r].sent => refund'[r].approval = "APPROVED")
       /\ refund'[r].sent = refund[r].sent /\ refund'[r].state # "RELEASED" /\ refund[r].state # "RELEASED"
  BY <1>1, <1>4, <1>5, <1>6
<1> HIDE DEF dOpen
<1>16. RefundMovedBy(refund[r], refund'[r], n, a, 0, dOpen, 0)
  BY <1>7, <1>8, <1>15 DEF RefundMovedBy
<1> QED
  BY <1>1, <1>4, <1>16, <1>9, <1>10, <1>11, <1>12, <1>13, <1>14, <1>15, RefundMoves

\* A reserved refund ends: what it reserved is free again or paid back.
LEMMA EndRefundKeeps ==
    ASSUME MoneyInv, NEW r \in Refunds, NEW state \in {"COMPLETED", "RELEASED"},
           NEW approval \in {"unrouted", "PENDING", "APPROVED", "REJECTED"},
           refund[r].state = "RESERVED", refund[r].sent => approval = "APPROVED",
           state = "RELEASED" => payback[r] # "PENDING" /\ (refund[r].sent => payback[r] # "none"),
           EndRefund(r, state, approval)
    PROVE  MoneyInv'
<1> DEFINE old == refund[r]
           n == old.slip
           a == old.amount
           b == RefundedBy(a, state)
           x == [old EXCEPT !.state = state, !.approval = approval]
           dOpen == IF old.channel = "CASH" THEN 0 - a ELSE 0
           dDone == IF old.channel = "CASH" THEN b ELSE 0
<1>1. /\ UNCHANGED <<paid, inHouse, intent, invoice, asking, told, correction, payback, heard, lateCase>>
      /\ refund' = [refund EXCEPT ![r] = x]
      /\ slips' = [slips EXCEPT ![n].reserved = slips[n].reserved - a, ![n].refunded = slips[n].refunded + b]
      /\ acct' = [acct EXCEPT !.reserved = acct.reserved - a, !.refunded = acct.refunded + b]
      /\ till' = (IF old.channel = "CASH" THEN Till(0 - b, 0 - a) ELSE till)
      /\ due' = due \ {r}
  BY DEF EndRefund, invoicing, Unbound
<1>2. /\ n \in DOMAIN slips /\ slips[n].purpose = "DEPOSIT" /\ a \in Amounts
      /\ old.approval # "none"
  BY DEF MoneyInv, RefundsFit, RefundFits
<1>3. /\ a \in Nat /\ a >= 1 /\ slips \in Seq(Slips) /\ slips[n] \in Slips /\ old \in RefundRow
      /\ acct \in Account /\ refund \in [Refunds -> RefundRow] /\ till.posted \in Nat /\ till.reserved \in Nat
  BY <1>2, MoneyTypes, GuestMoneyAssumption DEF Amounts
<1>4. b \in Nat /\ b <= a /\ (state = "COMPLETED" => b = a) /\ (state = "RELEASED" => b = 0)
  BY <1>3 DEF RefundedBy
<1>5. /\ x \in RefundRow /\ x.state = state /\ x.approval = approval /\ x.slip = n /\ x.amount = a
      /\ x.channel = old.channel /\ x.sent = old.sent
  BY <1>3 DEF RefundRow
<1>6. /\ refund' \in [Refunds -> RefundRow] /\ \A q \in Refunds \ {r} : refund'[q] = refund[q]
      /\ refund'[r] = x
  <2> HIDE DEF x
  <2> QED
    BY <1>1, <1>3, <1>5
<1>7. /\ \A m : Reserves(refund[r], m) <= ReservedOf(refund, m)
      /\ RefundPartsOf(refund[r])["cashOpen"] <= RefundsTotal(refund, "cashOpen")
  BY <1>3, RefundTotalTypes DEF RefundParts
<1>8. a <= slips[n].reserved
  BY <1>2, <1>7 DEF MoneyInv, SlipsFit, Reserves
<1> HIDE DEF x
<1>9. \A m : Reserves(refund'[r], m) = Reserves(refund[r], m) + (IF m = n THEN 0 - a ELSE 0)
  BY <1>3, <1>5, <1>6 DEF Reserves
<1>10. /\ RefundPartsOf(refund'[r])["done"] = RefundPartsOf(refund[r])["done"] + b
       /\ RefundPartsOf(refund'[r])["cashOpen"] = RefundPartsOf(refund[r])["cashOpen"] + dOpen
       /\ RefundPartsOf(refund'[r])["cashDone"] = RefundPartsOf(refund[r])["cashDone"] + dDone
  <2> HIDE DEF b
  <2> QED
    BY <1>3, <1>4, <1>5, <1>6, RefundPartValues
<1>11. slips' = [slips EXCEPT ![n] = Moved(slips[n], 0, 0 - a, b)] /\ acct' = Moved(acct, 0, 0 - a, b)
  <2>1. slips' = [slips EXCEPT ![n] = [slips[n] EXCEPT !.reserved = slips[n].reserved - a,
                                                        !.refunded = slips[n].refunded + b]]
    BY <1>1, <1>2, <1>3 DEF Slips
  <2> HIDE DEF b, a
  <2>2. /\ [slips[n] EXCEPT !.reserved = slips[n].reserved - a, !.refunded = slips[n].refunded + b]
              = Moved(slips[n], 0, 0 - a, b)
    BY <1>3, <1>4, TwoFieldsMove
  <2>3. [acct EXCEPT !.reserved = acct.reserved - a, !.refunded = acct.refunded + b] = Moved(acct, 0, 0 - a, b)
    BY <1>3, <1>4, TwoFieldsMove
  <2> QED
    BY <1>1, <2>1, <2>2, <2>3, Zenon
<1>12. /\ till' = [posted |-> till.posted - dDone, reserved |-> till.reserved + dOpen]
       /\ till.reserved + dOpen <= till.posted - dDone
  <2>1. till.posted - 0 = till.posted /\ till.reserved + 0 = till.reserved /\ till.posted + (0 - b) = till.posted - b
    BY <1>3, <1>4
  <2>2. till' = [posted |-> till.posted - dDone, reserved |-> till.reserved + dOpen]
    BY <1>1, <2>1, TillIs DEF Till
  <2>3. till.reserved <= till.posted
    BY DEF MoneyInv, DrawerFits
  <2> HIDE DEF b, a
  <2>4. till.reserved + dOpen <= till.posted - dDone
    BY <1>3, <1>4, <2>3
  <2> QED
    BY <2>2, <2>4
<1>13. Spendable(slips[n]) - 0 - (0 - a) - b >= 0
  <2>1. Spendable(slips[n]) >= 0 /\ Spendable(slips[n]) \in Int
    BY <1>2, <1>3, SpendableType DEF MoneyInv, SlipsFit
  <2> HIDE DEF b, a
  <2> QED
    BY <1>3, <1>4, <2>1
<1>14. ShiftBoundWhileOpen'
  <2>1. r \notin Intents /\ r \notin Corrections
    BY GuestMoneyAssumption
  <2> QED
    BY <1>1, <1>5, <1>6, <2>1 DEF MoneyInv, ShiftBoundWhileOpen, Pending
<1>15. ClosedStayIsSettled'
  <2>1. acct.reserved # 0
    <3>1. acct.reserved = TotalOf(slips, "reserved")
      BY DEF MoneyInv, AccountFits, DepositParts
    <3>2. PartsOf(slips[n])["reserved"] <= TotalOf(slips, "reserved") /\ TotalOf(slips, "reserved") \in Nat
      BY <1>2, <1>3, TotalTypes DEF Parts, DepositParts
    <3>3. PartsOf(slips[n])["reserved"] = slips[n].reserved
      BY <1>2, PartValues
    <3>7. slips[n].reserved \in Nat
      BY <1>3 DEF Slips
    <3>4. slips[n].reserved \in Nat /\ slips[n].reserved >= 1
      BY <1>3, <1>8, <3>7
    <3> DEFINE held == slips[n].reserved
               t == TotalOf(slips, "reserved")
    <3>5. held <= t /\ held \in Nat /\ held >= 1 /\ t \in Nat
      BY <3>2, <3>3, <3>4
    <3> HIDE DEF held, t
    <3>6. t # 0
      BY <3>5
    <3> QED
      BY <3>1, <3>6 DEF t
  <2> QED
    BY <1>1, <2>1 DEF MoneyInv, ClosedStayIsSettled
<1>16. /\ 0 - a \in Int /\ b \in Nat /\ dOpen \in Int /\ dDone \in Int
  BY <1>3, <1>4
<1>17. /\ refund'[r].state # "none" /\ refund'[r].slip = n /\ refund'[r].amount \in Amounts
       /\ refund'[r].approval # "none" /\ (refund'[r].sent => refund'[r].approval = "APPROVED")
       /\ refund'[r].sent = refund[r].sent /\ refund[r].state # "RELEASED"
       /\ refund'[r].state = "RELEASED" => payback[r] # "PENDING" /\ (refund[r].sent => payback[r] # "none")
  BY <1>2, <1>5, <1>6
<1> HIDE DEF dOpen, dDone, b, a, n, old
<1>18. RefundMovedBy(refund[r], refund'[r], n, 0 - a, b, dOpen, dDone)
  BY <1>9, <1>10, <1>17 DEF RefundMovedBy
<1> QED
  BY <1>1, <1>2, <1>6, <1>18, <1>11, <1>12, <1>13, <1>14, <1>15, <1>16, <1>17, RefundMoves

\* The commands that end a refund: one released without the provider was never
\* sent, or the provider had refused it.
LEMMA FinishCashRefundKeeps ==
    ASSUME MoneyInv, NEW r \in Refunds, NEW state \in {"COMPLETED", "RELEASED"}, FinishCashRefund(r, state)
    PROVE  MoneyInv'
<1>1. refund[r].state = "RESERVED" /\ refund[r].approval = "unrouted" /\ EndRefund(r, state, "unrouted")
  BY DEF FinishCashRefund
<1>2. ~refund[r].sent /\ payback[r] = "none"
  BY <1>1 DEF MoneyInv, RefundsFit, RefundFits, ProviderFits
<1>3. "unrouted" \in {"unrouted", "PENDING", "APPROVED", "REJECTED"}
  OBVIOUS
<1> QED
  BY <1>1, <1>2, <1>3, EndRefundKeeps

LEMMA DecideRouteKeeps ==
    ASSUME MoneyInv, NEW r \in Refunds, NEW approve \in BOOLEAN, DecideRoute(r, approve)
    PROVE  MoneyInv'
<1>1. refund[r].state = "RESERVED" /\ refund[r].approval = "PENDING" /\ ~refund[r].sent
  BY DEF DecideRoute
<1>2. CASE approve
  <2>1. /\ refund' = [refund EXCEPT ![r].approval = "APPROVED"]
        /\ UNCHANGED <<money, inHouse, invoicing, correction, payback, heard, lateCase, due>>
    BY <1>2 DEF DecideRoute
  <2> QED
    BY <1>1, <2>1, ApproveRouteKeeps
<1>3. CASE ~approve
  <2>1. EndRefund(r, "RELEASED", "REJECTED")
    BY <1>3 DEF DecideRoute
  <2>2. payback[r] = "none"
    BY <1>1 DEF MoneyInv, RefundsFit, ProviderFits
  <2>3. "REJECTED" \in {"unrouted", "PENDING", "APPROVED", "REJECTED"} /\ "RELEASED" \in {"COMPLETED", "RELEASED"}
    OBVIOUS
  <2> QED
    BY <1>1, <2>1, <2>2, <2>3, EndRefundKeeps
<1> QED
  BY <1>2, <1>3

LEMMA PayRoutedByHandKeeps ==
    ASSUME MoneyInv, NEW r \in Refunds, PayRoutedByHand(r) PROVE MoneyInv'
<1>1. refund[r].state = "RESERVED" /\ EndRefund(r, "COMPLETED", "APPROVED")
  BY DEF PayRoutedByHand
<1>2. "APPROVED" \in {"unrouted", "PENDING", "APPROVED", "REJECTED"} /\ "COMPLETED" \in {"COMPLETED", "RELEASED"}
      /\ "COMPLETED" # "RELEASED"
  OBVIOUS
<1> QED
  BY <1>1, <1>2, EndRefundKeeps

LEMMA RecordSuccessKeeps ==
    ASSUME MoneyInv, NEW r \in Refunds, RecordSuccess(r) PROVE MoneyInv'
<1>1. refund[r].state = "RESERVED" /\ EndRefund(r, "COMPLETED", "APPROVED")
  BY DEF RecordSuccess, Bookable
<1>2. "APPROVED" \in {"unrouted", "PENDING", "APPROVED", "REJECTED"} /\ "COMPLETED" \in {"COMPLETED", "RELEASED"}
      /\ "COMPLETED" # "RELEASED"
  OBVIOUS
<1> QED
  BY <1>1, <1>2, EndRefundKeeps

LEMMA ReleaseRoutedKeeps ==
    ASSUME MoneyInv, NEW r \in Refunds, ReleaseRouted(r) PROVE MoneyInv'
<1>1. /\ refund[r].state = "RESERVED" /\ refund[r].approval \in {"PENDING", "APPROVED"}
      /\ refund[r].sent => "FINAL" \in heard[r]
      /\ EndRefund(r, "RELEASED", refund[r].approval)
  BY DEF ReleaseRouted, ReleaseIsProven
<1>2. RefundFits(r) /\ ProviderFits(r)
  BY DEF MoneyInv, RefundsFit
<1>3. payback[r] # "PENDING" /\ (refund[r].sent => payback[r] # "none")
  BY <1>1, <1>2 DEF ProviderFits
<1>4. refund[r].approval \in {"unrouted", "PENDING", "APPROVED", "REJECTED"}
      /\ "RELEASED" \in {"COMPLETED", "RELEASED"}
      /\ (refund[r].sent => refund[r].approval = "APPROVED")
  BY <1>1, <1>2 DEF RefundFits
<1> QED
  BY <1>1, <1>3, <1>4, EndRefundKeeps

\* A late payment is posted: what is still held covers it, receipt by receipt.
LEMMA ResolveCaseKeeps ==
    ASSUME MoneyInv, NEW r \in Refunds, NEW outcome \in {"FINAL", "SUCCEEDED"}, ResolveCase(r, outcome)
    PROVE  MoneyInv'
<1> DEFINE amount == refund[r].amount
           covered == IF outcome = "FINAL" THEN 0 ELSE IF Available(acct) < amount THEN Available(acct) ELSE amount
           resolved == IF outcome = "FINAL" THEN "PROVIDER_STATUS_CORRECTED_NOT_SUCCESS" ELSE "PROVIDER_SUCCESS_POSTED"
           row == [state |-> resolved, covered |-> covered,
                   shortfall |-> IF outcome = "FINAL" THEN 0 ELSE amount - covered]
<1>1. /\ UNCHANGED <<paid, till, inHouse, intent, invoice, asking, told, correction, refund, payback, heard, due>>
      /\ lateCase[r].state = "RECONCILING"
      /\ lateCase' = [lateCase EXCEPT ![r] = row]
      /\ acct' = [acct EXCEPT !.refunded = acct.refunded + covered, !.frozen = StaysFrozen(lateCase')]
  BY DEF ResolveCase, invoicing, refunding
<1>2. PICK take \in [DOMAIN slips -> 0 .. covered] :
         /\ \A n \in DOMAIN slips :
               IF slips[n].purpose = "DEPOSIT" THEN take[n] <= Spendable(slips[n]) ELSE take[n] = 0
         /\ SumFunction(take) = covered
         /\ slips' = [n \in DOMAIN slips |-> [slips[n] EXCEPT !.refunded = slips[n].refunded + take[n]]]
  BY DEF ResolveCase
<1>3. /\ slips \in Seq(Slips) /\ (\A n \in DOMAIN slips : slips[n] \in Slips) /\ refund \in [Refunds -> RefundRow]
      /\ acct \in Account /\ lateCase \in [Refunds -> LateRow] /\ till.posted \in Nat /\ paid \in Nat
      /\ Len(slips) \in Nat /\ DOMAIN slips = 1 .. Len(slips) /\ Len(slips) >= 1
  BY MoneyTypes DEF MoneyInv, RefundTypes
<1>4. amount \in Nat /\ covered \in Int
  BY <1>3, GuestMoneyAssumption DEF RefundRow, Amounts, Available, Account
<1>5. covered \in Nat
  <2>1. take[1] \in 0 .. covered
    BY <1>2, <1>3
  <2> HIDE DEF covered
  <2> QED
    BY <1>4, <2>1
<1>6. covered <= amount /\ (outcome # "FINAL" => covered <= Available(acct))
      /\ (Available(acct) = 0 => covered = 0)
  <2> DEFINE free == Available(acct)
  <2>1. free \in Int
    BY <1>3 DEF Available, Account
  <2>2. \/ outcome = "FINAL" /\ covered = 0
        \/ covered = (IF free < amount THEN free ELSE amount)
    OBVIOUS
  <2> HIDE DEF free, covered
  <2>3. covered <= amount /\ (outcome # "FINAL" => covered <= free) /\ (free = 0 => covered = 0)
    BY <1>4, <1>5, <2>1, <2>2
  <2> QED
    BY <2>3 DEF free
<1>7. row \in LateRow /\ row.covered = covered /\ row.state \in Resolved
      /\ (row.state = "PROVIDER_SUCCESS_POSTED" => row.covered + row.shortfall = amount)
  <2> HIDE DEF amount, covered
  <2>1. amount - covered \in Nat /\ covered + (amount - covered) = amount
    BY <1>4, <1>5, <1>6
  <2> QED
    BY <1>5, <2>1 DEF LateRow, Resolved
<1> HIDE DEF row, covered, amount
<1>8. /\ lateCase' \in [Refunds -> LateRow] /\ lateCase'[r] = row
      /\ \A q \in Refunds \ {r} : lateCase'[q] = lateCase[q]
  BY <1>1, <1>3, <1>7
<1>9. /\ acct'.refunded = acct.refunded + covered /\ acct'.frozen = StaysFrozen(lateCase')
      /\ acct'.received = acct.received /\ acct'.reversed = acct.reversed
      /\ acct'.allocated = acct.allocated /\ acct'.reserved = acct.reserved
      /\ acct' \in Account
  <2> DEFINE f == StaysFrozen(lateCase')
             v == acct.refunded + covered
  <2>1. f \in BOOLEAN
    BY DEF StaysFrozen
  <2>2. v \in Nat
    BY <1>3, <1>5 DEF Account
  <2>3. acct' = [acct EXCEPT !.refunded = v, !.frozen = f]
    BY <1>1
  <2> HIDE DEF f, v
  <2>4. /\ acct'.refunded = v /\ acct'.frozen = f /\ acct'.received = acct.received /\ acct'.reversed = acct.reversed
        /\ acct'.allocated = acct.allocated /\ acct'.reserved = acct.reserved /\ acct' \in Account
    BY <1>3, <2>1, <2>2, <2>3 DEF Account
  <2> QED
    BY <2>4 DEF f, v
<1>10. ASSUME NEW n \in DOMAIN slips
       PROVE  /\ slips'[n] \in Slips /\ slips'[n].purpose = slips[n].purpose /\ slips'[n].attempt = slips[n].attempt
              /\ slips'[n].reserved = slips[n].reserved /\ Spendable(slips'[n]) >= 0
              /\ slips'[n] = [slips[n] EXCEPT !.refunded = slips[n].refunded + take[n]]
  <2> DEFINE s == slips[n]
             t == slips'[n]
             v == s.refunded + take[n]
  <2>1. s \in Slips /\ t = [s EXCEPT !.refunded = v] /\ take[n] \in Nat
    BY <1>2, <1>3, <1>5
  <2>2. s.refunded \in Nat /\ s.amount \in Nat /\ s.reversed \in Nat /\ s.allocated \in Nat /\ s.reserved \in Nat
    BY <2>1, GuestMoneyAssumption DEF Slips, Amounts
  <2>3. v \in Nat /\ v = s.refunded + take[n]
    BY <2>1, <2>2
  <2>4. take[n] <= Spendable(s)
    <3>1. Spendable(s) >= 0
      BY DEF MoneyInv, SlipsFit
    <3> QED
      BY <1>2, <3>1
  <2> HIDE DEF v, s, t
  <2>5. /\ t \in Slips /\ t.purpose = s.purpose /\ t.attempt = s.attempt /\ t.reserved = s.reserved
        /\ t.amount = s.amount /\ t.reversed = s.reversed /\ t.allocated = s.allocated /\ t.refunded = v
    BY <2>1, <2>3 DEF Slips
  <2>6. Spendable(t) >= 0
    BY <2>1, <2>2, <2>3, <2>4, <2>5 DEF Spendable
  <2> QED
    BY <2>1, <2>5, <2>6 DEF s, t, v
<1>11. slips' \in Seq(Slips) /\ DOMAIN slips' = DOMAIN slips /\ Len(slips') = Len(slips)
  <2>1. DOMAIN slips' = 1 .. Len(slips) /\ slips' = [n \in 1 .. Len(slips) |-> slips'[n]]
    BY <1>2, <1>3
  <2>2. \A n \in 1 .. Len(slips) : slips'[n] \in Slips
    BY <1>3, <1>10
  <2> DEFINE len == Len(slips)
             new == slips'
  <2>3. len \in Nat /\ new = [n \in 1 .. len |-> new[n]] /\ \A n \in 1 .. len : new[n] \in Slips
    BY <1>3, <2>1, <2>2
  <2> HIDE DEF len, new
  <2>4. new \in Seq(Slips) /\ Len(new) = len
    BY <2>3
  <2> QED
    BY <1>3, <2>1, <2>4 DEF len, new
<1>12. \A part \in Parts :
          TotalOf(slips', part) = TotalOf(slips, part) + (IF part = "refunded" THEN covered ELSE 0)
  <2> SUFFICES ASSUME NEW part \in Parts
               PROVE  TotalOf(slips', part) = TotalOf(slips, part) + (IF part = "refunded" THEN covered ELSE 0)
    OBVIOUS
  <2>1. DOMAIN take = DOMAIN slips /\ \A n \in DOMAIN slips : take[n] \in Int
    BY <1>2, <1>5
  <2>2. \A n \in DOMAIN slips : slips[n].purpose # "DEPOSIT" => take[n] = 0
    BY <1>2
  <2>3. \A n \in DOMAIN slips : slips'[n] = [slips[n] EXCEPT !.refunded = slips[n].refunded + take[n]]
    BY <1>10
  <2>4. TotalOf(slips', part) = TotalOf(slips, part) + (IF part = "refunded" THEN SumFunction(take) ELSE 0)
    <3> DEFINE new == slips'
    <3>1. /\ slips \in Seq(Slips) /\ new \in Seq(Slips) /\ DOMAIN new = DOMAIN slips /\ part \in Parts
      BY <1>3, <1>11
    <3>2. \A n \in DOMAIN slips : new[n] = [slips[n] EXCEPT !.refunded = @ + take[n]]
      BY <2>3
    <3> HIDE DEF new
    <3>3. TotalOf(new, part) = TotalOf(slips, part) + (IF part = "refunded" THEN SumFunction(take) ELSE 0)
      <4>1. TakenFrom(slips, new, take)
        BY <2>1, <2>2, <3>1, <3>2 DEF TakenFrom
      <4> QED
        BY <3>1, <4>1, TotalOfTaken, Zenon
    <3> QED
      BY <3>3 DEF new
  <2> QED
    BY <1>2, <2>4
<1>13. \A part \in Parts : TotalOf(slips, part) \in Int
  BY <1>3, TotalTypes
<1>14. AccountFits' /\ ChargeFits' /\ TotalOf(slips', "cash") = TotalOf(slips, "cash")
  <2>1. \A part \in Parts \ {"refunded"} : TotalOf(slips', part) = TotalOf(slips, part)
    BY <1>12, <1>13
  <2>2. TotalOf(slips', "refunded") = TotalOf(slips, "refunded") + covered
    BY <1>12 DEF Parts, DepositParts
  <2>3. AccountFits'
    BY <1>9, <2>1, <2>2 DEF MoneyInv, AccountFits, DepositParts, Parts
  <2>4. ChargeFits' /\ TotalOf(slips', "cash") = TotalOf(slips, "cash")
    BY <1>1, <2>1 DEF MoneyInv, ChargeFits, Parts
  <2> QED
    BY <2>3, <2>4
<1>15. SlipsFit'
  BY <1>1, <1>10, <1>11 DEF MoneyInv, SlipsFit
<1>16. DrawerFits'
  BY <1>1, <1>14 DEF MoneyInv, DrawerFits
<1>17. RefundedFits'
  <2>1. CoveredOf(lateCase') = CoveredOf(lateCase) + covered
    <3> DEFINE f == [q \in Refunds |-> lateCase[q].covered]
               h == [q \in Refunds |-> lateCase'[q].covered]
    <3>1. \A q \in Refunds : f[q] \in Int /\ h[q] \in Int
      BY <1>3, <1>8 DEF LateRow
    <3>2. CoveredOf(lateCase) = SumFunctionOnSet(f, Refunds) /\ CoveredOf(lateCase') = SumFunctionOnSet(h, Refunds)
      BY DEF CoveredOf, SumFunction
    <3>3. f[r] = 0
      BY <1>1 DEF MoneyInv, RefundsFit, CaseFits, Resolved
    <3>4. h[r] = covered /\ \A q \in Refunds \ {r} : h[q] = f[q]
      BY <1>7, <1>8
    <3> HIDE DEF f, h
    <3>5. SumFunctionOnSet(h, Refunds) = SumFunctionOnSet(f, Refunds) - f[r] + h[r]
      BY <3>1, <3>4, SumReplace, GuestMoneyAssumption
    <3>6. SumFunctionOnSet(f, Refunds) \in Int
      BY <3>1, SumType, GuestMoneyAssumption
    <3> QED
      BY <1>5, <3>2, <3>3, <3>4, <3>5, <3>6
  <2>2. RefundsTotal(refund, "done") \in Nat /\ CoveredOf(lateCase) \in Nat
    BY <1>3, RefundTotalTypes, CoveredType DEF RefundParts
  <2>3. acct.refunded = RefundsTotal(refund, "done") + CoveredOf(lateCase)
    BY DEF MoneyInv, RefundedFits
  <2> QED
    BY <1>1, <1>5, <1>9, <2>1, <2>2, <2>3 DEF RefundedFits
<1>18. AccountTypes' /\ Len(slips') >= 1
  BY <1>1, <1>9, <1>11 DEF MoneyInv, AccountTypes, Account
<1>19. RefundTypes' /\ FrozenFits'
  BY <1>1, <1>8, <1>9 DEF MoneyInv, RefundTypes, FrozenFits
<1>20. HeldFits' /\ ReceiptsFit' /\ CorrectionsFit'
  <2>1. HeldFits'
    BY <1>1 DEF MoneyInv, HeldFits, HeldByIntents
  <2>2. \A i \in Intents : SlipsOf(i)' = SlipsOf(i)
    BY <1>10, <1>11 DEF SlipsOf
  <2>3. ReceiptsFit'
    BY <1>1, <1>11, <2>2, ReceiptsKept
  <2>4. CorrectionsFit'
    BY <1>1, <1>10, <1>11, KeptByGrowth
  <2> QED
    BY <2>1, <2>3, <2>4
<1>21. RefundsFit'
  <2> SUFFICES ASSUME NEW q \in Refunds
               PROVE  (RefundFits(q) /\ ProviderFits(q) /\ ReleaseFits(q) /\ CaseFits(q))'
    BY DEF RefundsFit
  <2>1. RefundFits(q) /\ ProviderFits(q) /\ ReleaseFits(q) /\ CaseFits(q)
    BY DEF MoneyInv, RefundsFit
  <2>2. RefundFits(q)' /\ ProviderFits(q)' /\ ReleaseFits(q)'
    BY <1>1, <1>10, <1>11, <2>1 DEF RefundFits, ProviderFits, ReleaseFits
  <2>3. CASE q = r
    <3>1. refund[r].state = "RELEASED"
      BY <1>1, <2>1, <2>3 DEF CaseFits
    <3>2. CaseFits(r)'
      BY <1>1, <1>7, <1>8, <3>1 DEF CaseFits, amount
    <3> QED
      BY <2>2, <2>3, <3>2
  <2>4. CASE q # r
    BY <1>1, <1>8, <2>1, <2>2, <2>4 DEF CaseFits
  <2> QED
    BY <2>3, <2>4
<1>22. ClosedStayIsSettled'
  <2>1. ~inHouse /\ (\A c \in Corrections : correction[c].state # "EXECUTED")
           => paid = RoomCharge /\ acct.reserved = 0 /\ Available(acct) = 0
    BY DEF MoneyInv, ClosedStayIsSettled
  <2>2. Available(acct) = 0 => Available(acct') = 0
    BY <1>3, <1>5, <1>6, <1>9 DEF Available, Account
  <2> QED
    BY <1>1, <1>9, <2>1, <2>2 DEF ClosedStayIsSettled
<1>23. InvoiceTypes' /\ IntentsFit' /\ CancelledFits' /\ ShiftBoundWhileOpen'
  BY <1>1, KeptRows
<1> QED
  BY <1>14, <1>15, <1>16, <1>17, <1>18, <1>19, <1>20, <1>21, <1>22, <1>23 DEF MoneyInv

-----------------------------------------------------------------------------
(* An approved correction reverses a receipt and replaces it.              *)

Reversed(s) == [s EXCEPT !.allocated = 0, !.reversed = s.amount]
WithReceipt(sl, new, s) == IF new = 0 THEN sl ELSE Append(sl, s)

\* The reversed receipt holds nothing and pays nothing.
LEMMA ReversedIs ==
    ASSUME NEW s \in Slips, s.reserved = 0, s.refunded = 0
    PROVE  /\ Reversed(s) \in Slips /\ Spendable(Reversed(s)) = 0
           /\ Reversed(s).purpose = s.purpose /\ Reversed(s).channel = s.channel
           /\ Reversed(s).amount = s.amount /\ Reversed(s).attempt = s.attempt
           /\ Reversed(s).allocated = 0 /\ Reversed(s).reversed = s.amount
           /\ Reversed(s).reserved = 0 /\ Reversed(s).refunded = 0
<1> DEFINE t == Reversed(s)
<1>1. s.amount \in Nat
  BY GuestMoneyAssumption DEF Slips, Amounts
<1>2. /\ t \in Slips /\ t.purpose = s.purpose /\ t.channel = s.channel /\ t.amount = s.amount
      /\ t.attempt = s.attempt /\ t.allocated = 0 /\ t.reversed = s.amount /\ t.reserved = 0 /\ t.refunded = 0
  BY <1>1 DEF Slips, Reversed
<1> HIDE DEF t
<1>3. Spendable(t) = 0
  BY <1>1, <1>2 DEF Spendable
<1> QED
  BY <1>2, <1>3 DEF t

\* What a correction does to every total.
LEMMA CorrectedTotals ==
    ASSUME NEW sl \in Seq(Slips), NEW n \in DOMAIN sl, NEW was \in Slips, NEW s \in Slips, NEW new \in Nat,
           NEW more, more = WithReceipt([sl EXCEPT ![n] = was], new, s), NEW part \in Parts
    PROVE  TotalOf(more, part) = TotalOf(sl, part) - PartsOf(sl[n])[part] + PartsOf(was)[part]
                                 + (IF new = 0 THEN 0 ELSE PartsOf(s)[part])
<1> DEFINE mid == [sl EXCEPT ![n] = was]
           a == TotalOf(sl, part)
           b == PartsOf(sl[n])[part]
           d == PartsOf(was)[part]
           e == PartsOf(s)[part]
           m == TotalOf(mid, part)
           t == TotalOf(more, part)
<1>1. mid \in Seq(Slips)
  OBVIOUS
<1>2. m = a - b + d
  BY TotalOfChanged
<1>3. a \in Int /\ b \in Int /\ d \in Int /\ e \in Int
  BY TotalTypes, PartTypes
<1>4. CASE new = 0
  <2>1. more = mid
    BY <1>4 DEF WithReceipt
  <2>2. t = m
    BY <2>1
  <2>3. t = a - b + d + (IF new = 0 THEN 0 ELSE e)
    <3> HIDE DEF a, b, d, e, m, t
    <3> QED
      BY <1>2, <1>3, <1>4, <2>2
  <2> QED
    BY <2>3
<1>5. CASE new # 0
  <2>1. more = Append(mid, s)
    BY <1>5 DEF WithReceipt
  <2>2. t = m + e
    <3> HIDE DEF mid
    <3> QED
      BY <1>1, <2>1, TotalOfAppended
  <2>3. t = a - b + d + (IF new = 0 THEN 0 ELSE e)
    <3> HIDE DEF a, b, d, e, m, t
    <3> QED
      BY <1>2, <1>3, <1>5, <2>2
  <2> QED
    BY <2>3
<1> QED
  BY <1>4, <1>5

\* Receipts more are receipts sl and then receipt s.
OneMore(sl, s, more) ==
    /\ more \in Seq(Slips) /\ Len(more) = Len(sl) + 1 /\ more[Len(sl) + 1] = s
    /\ DOMAIN more = DOMAIN sl \cup {Len(sl) + 1} /\ Len(sl) + 1 \notin DOMAIN sl
    /\ Len(more) >= Len(sl) /\ Len(more) <= Len(sl) + 1
    /\ \A m \in DOMAIN sl : more[m] = sl[m]

LEMMA OneReceiptMore ==
    ASSUME NEW sl \in Seq(Slips), NEW s \in Slips, NEW more, more = Append(sl, s)
    PROVE  OneMore(sl, s, more)
<1>1. more \in Seq(Slips) /\ Len(more) = Len(sl) + 1 /\ Len(sl) \in Nat /\ DOMAIN sl = 1 .. Len(sl)
  OBVIOUS
<1>2. more[Len(sl) + 1] = s /\ \A m \in DOMAIN sl : more[m] = sl[m]
  OBVIOUS
<1>3. DOMAIN more = 1 .. (Len(sl) + 1)
  OBVIOUS
<1> QED
  BY <1>1, <1>2, <1>3 DEF OneMore

\* And to the receipts.
ReceiptsBecome(sl, n, was, new, s, more) ==
    /\ more \in Seq(Slips) /\ Len(more) >= Len(sl) /\ Len(more) <= Len(sl) + 1
    /\ DOMAIN more = DOMAIN sl \cup (IF new = 0 THEN {} ELSE {Len(sl) + 1})
    /\ more[n] = was /\ \A m \in DOMAIN sl \ {n} : more[m] = sl[m]
    /\ new # 0 => more[Len(sl) + 1] = s
    /\ Len(sl) + 1 \notin DOMAIN sl

LEMMA CorrectedReceipts ==
    ASSUME NEW sl \in Seq(Slips), NEW n \in DOMAIN sl, NEW was \in Slips, NEW new \in Nat,
           NEW s, new # 0 => s \in Slips, NEW more, more = WithReceipt([sl EXCEPT ![n] = was], new, s)
    PROVE  ReceiptsBecome(sl, n, was, new, s, more)
<1> USE DEF ReceiptsBecome
<1> DEFINE mid == [sl EXCEPT ![n] = was]
<1>1. /\ mid \in Seq(Slips) /\ Len(mid) = Len(sl) /\ DOMAIN mid = DOMAIN sl /\ mid[n] = was
      /\ \A m \in DOMAIN sl \ {n} : mid[m] = sl[m]
      /\ DOMAIN sl = 1 .. Len(sl) /\ Len(sl) \in Nat
  OBVIOUS
<1> HIDE DEF mid
<1>2. more = WithReceipt(mid, new, s)
  BY DEF mid
<1>3. CASE new = 0
  BY <1>1, <1>2, <1>3 DEF WithReceipt
<1>4. CASE new # 0
  <2>1. s \in Slips /\ more = Append(mid, s) /\ mid \in Seq(Slips)
    BY <1>1, <1>2, <1>4 DEF WithReceipt
  <2>2. OneMore(mid, s, more)
    BY <2>1, OneReceiptMore, Zenon
  <2>3. more[n] = was /\ \A m \in DOMAIN sl \ {n} : more[m] = sl[m]
    BY <1>1, <2>2, Zenon DEF OneMore
  <2>4. /\ more \in Seq(Slips) /\ more[Len(sl) + 1] = s
        /\ DOMAIN more = DOMAIN sl \cup {Len(sl) + 1} /\ Len(sl) + 1 \notin DOMAIN sl
        /\ Len(more) >= Len(sl) /\ Len(more) <= Len(sl) + 1
    BY <1>1, <2>2, Zenon DEF OneMore
  <2> QED
    BY <1>4, <2>3, <2>4, Zenon
<1> QED
  BY <1>3, <1>4

\* What the correction of a receipt old with replacement s adds.
TotalsCorrected(sl, more, old, new, s) ==
    LET held(x) == IF old.purpose = "DEPOSIT" THEN x ELSE 0
        cash(x, channel) == IF channel = "CASH" THEN x ELSE 0
    IN  /\ TotalOf(more, "received") = TotalOf(sl, "received") + held(new)
        /\ TotalOf(more, "reversed") = TotalOf(sl, "reversed") + held(old.amount)
        /\ TotalOf(more, "allocated") = TotalOf(sl, "allocated") - held(old.allocated) + held(s.allocated)
        /\ TotalOf(more, "reserved") = TotalOf(sl, "reserved")
        /\ TotalOf(more, "refunded") = TotalOf(sl, "refunded")
        /\ TotalOf(more, "paid") = TotalOf(sl, "paid") - old.allocated + s.allocated
        /\ TotalOf(more, "cash") = TotalOf(sl, "cash") + (cash(new, s.channel) - cash(old.amount, old.channel))

\* Receipt old, the n-th of sl, is corrected to s.
CorrectedTo(sl, n, old, new, s, more) ==
    /\ old = sl[n] /\ old.reserved = 0 /\ old.refunded = 0 /\ old.reversed = 0
    /\ s.purpose = old.purpose /\ s.amount = new /\ s.reserved = 0 /\ s.refunded = 0 /\ s.reversed = 0
    /\ new # 0 => s \in Slips
    /\ new = 0 => s.allocated = 0
    /\ more = WithReceipt([sl EXCEPT ![n] = Reversed(old)], new, s)

LEMMA CorrectedSums ==
    ASSUME NEW sl \in Seq(Slips), NEW n \in DOMAIN sl, NEW old \in Slips, NEW new \in Nat, NEW s, NEW more,
           CorrectedTo(sl, n, old, new, s, more)
    PROVE  TotalsCorrected(sl, more, old, new, s)
<1> DEFINE was == Reversed(old)
<1>1. /\ was \in Slips /\ was.purpose = old.purpose /\ was.channel = old.channel
      /\ was.amount = old.amount /\ was.allocated = 0 /\ was.reversed = old.amount
      /\ was.reserved = 0 /\ was.refunded = 0
  <2>1. old.reserved = 0 /\ old.refunded = 0
    BY DEF CorrectedTo
  <2> QED
    BY <2>1, ReversedIs
<1>0. \A x \in Slips : x.amount \in Nat /\ x.allocated \in Nat
  BY GuestMoneyAssumption DEF Slips, Amounts
<1>2. /\ old.amount \in Nat /\ old.allocated \in Nat /\ s.allocated \in Int
      /\ (new = 0 => s.allocated = 0) /\ s.purpose = old.purpose /\ s.amount = new
      /\ s.reserved = 0 /\ s.refunded = 0 /\ s.reversed = 0
      /\ old.reserved = 0 /\ old.refunded = 0 /\ old.reversed = 0 /\ old = sl[n]
  BY <1>0 DEF CorrectedTo
<1>3. ASSUME NEW part \in Parts
      PROVE  TotalOf(more, part) = TotalOf(sl, part) - PartsOf(old)[part] + PartsOf(was)[part]
                                   + (IF new = 0 THEN 0 ELSE PartsOf(s)[part])
  <2> HIDE DEF was
  <2>1. more = WithReceipt([sl EXCEPT ![n] = was], new, s)
    BY DEF was, CorrectedTo
  <2>2. CASE new # 0
    <3>1. s \in Slips
      BY <2>2 DEF CorrectedTo
    <3> QED
      BY <1>1, <1>2, <2>1, <2>2, <3>1, CorrectedTotals
  <2>3. CASE new = 0
    <3>1. more = WithReceipt([sl EXCEPT ![n] = was], new, old)
      BY <2>1, <2>3 DEF WithReceipt
    <3>2. TotalOf(more, part) = TotalOf(sl, part) - PartsOf(sl[n])[part] + PartsOf(was)[part]
                                   + (IF new = 0 THEN 0 ELSE PartsOf(old)[part])
      BY <1>1, <3>1, CorrectedTotals
    <3> QED
      BY <1>2, <2>3, <3>2
  <2> QED
    BY <2>2, <2>3
<1> HIDE DEF was
<1>4. \A part \in Parts : TotalOf(sl, part) \in Int
  BY TotalTypes
<1> DEFINE held(x) == IF old.purpose = "DEPOSIT" THEN x ELSE 0
<1>5. /\ PartsOf(old)["received"] = held(old.amount) /\ PartsOf(was)["received"] = held(old.amount)
      /\ PartsOf(s)["received"] = held(new)
      /\ PartsOf(old)["reversed"] = 0 /\ PartsOf(was)["reversed"] = held(old.amount)
      /\ PartsOf(s)["reversed"] = 0
      /\ PartsOf(old)["allocated"] = held(old.allocated) /\ PartsOf(was)["allocated"] = 0
      /\ PartsOf(s)["allocated"] = held(s.allocated)
      /\ PartsOf(old)["reserved"] = 0 /\ PartsOf(was)["reserved"] = 0 /\ PartsOf(s)["reserved"] = 0
      /\ PartsOf(old)["refunded"] = 0 /\ PartsOf(was)["refunded"] = 0 /\ PartsOf(s)["refunded"] = 0
  BY <1>1, <1>2, PartValues DEF DepositParts
<1>6. /\ PartsOf(old)["paid"] = old.allocated /\ PartsOf(was)["paid"] = 0 /\ PartsOf(s)["paid"] = s.allocated
      /\ PartsOf(old)["cash"] = (IF old.channel = "CASH" THEN old.amount ELSE 0)
      /\ PartsOf(was)["cash"] = 0
      /\ PartsOf(s)["cash"] = (IF s.channel = "CASH" THEN new ELSE 0)
  BY <1>1, <1>2, PartValues
<1>7. /\ held(old.amount) \in Int /\ held(old.allocated) \in Int /\ held(s.allocated) \in Int /\ held(new) \in Int
      /\ (new = 0 => held(new) = 0 /\ held(s.allocated) = 0)
  BY <1>2
<1>8. {"received", "reversed", "allocated", "reserved", "refunded", "paid", "cash"} \subseteq Parts
  BY DEF Parts, DepositParts
<1> HIDE DEF held
<1> DEFINE added(part) == IF new = 0 THEN 0 ELSE PartsOf(s)[part]
<1>9. \A part \in Parts :
          TotalOf(more, part) = TotalOf(sl, part) - PartsOf(old)[part] + PartsOf(was)[part] + added(part)
  BY <1>3
<1>10. /\ added("received") = held(new) /\ added("allocated") = held(s.allocated)
       /\ added("reversed") = 0 /\ added("reserved") = 0 /\ added("refunded") = 0
  BY <1>5, <1>7
<1> HIDE DEF added
<1>11. TotalOf(more, "received") = TotalOf(sl, "received") + held(new)
  <2>1. TotalOf(more, "received") = TotalOf(sl, "received") - held(old.amount) + held(old.amount) + held(new)
    BY <1>5, <1>8, <1>9, <1>10
  <2> QED
    BY <1>4, <1>7, <1>8, <2>1
<1>12. TotalOf(more, "reversed") = TotalOf(sl, "reversed") + held(old.amount)
  <2>1. TotalOf(more, "reversed") = TotalOf(sl, "reversed") - 0 + held(old.amount) + 0
    BY <1>5, <1>8, <1>9, <1>10
  <2> QED
    BY <1>4, <1>7, <1>8, <2>1
<1>13. TotalOf(more, "allocated") = TotalOf(sl, "allocated") - held(old.allocated) + held(s.allocated)
  <2>1. TotalOf(more, "allocated") = TotalOf(sl, "allocated") - held(old.allocated) + 0 + held(s.allocated)
    BY <1>5, <1>8, <1>9, <1>10
  <2> QED
    BY <1>4, <1>7, <1>8, <2>1
<1>14. TotalOf(more, "reserved") = TotalOf(sl, "reserved") /\ TotalOf(more, "refunded") = TotalOf(sl, "refunded")
  <2>1. TotalOf(more, "reserved") = TotalOf(sl, "reserved") - 0 + 0 + 0
    BY <1>5, <1>8, <1>9, <1>10
  <2>2. TotalOf(more, "refunded") = TotalOf(sl, "refunded") - 0 + 0 + 0
    BY <1>5, <1>8, <1>9, <1>10
  <2> QED
    BY <1>4, <1>8, <2>1, <2>2
<1>15. TotalOf(more, "paid") = TotalOf(sl, "paid") - old.allocated + s.allocated
  <2>1. added("paid") = s.allocated
    BY <1>2, <1>6 DEF added
  <2>2. TotalOf(more, "paid") = TotalOf(sl, "paid") - old.allocated + 0 + s.allocated
    BY <1>6, <1>8, <1>9, <2>1
  <2> QED
    BY <1>2, <1>4, <1>8, <2>2
<1>16. TotalOf(more, "cash") = TotalOf(sl, "cash") + ((IF s.channel = "CASH" THEN new ELSE 0)
                                                     - (IF old.channel = "CASH" THEN old.amount ELSE 0))
  <2> DEFINE u == IF s.channel = "CASH" THEN new ELSE 0
             v == IF old.channel = "CASH" THEN old.amount ELSE 0
             e == IF new = 0 THEN 0 ELSE PartsOf(s)["cash"]
             t == TotalOf(sl, "cash")
  <2>1. u \in Int /\ v \in Int /\ t \in Int /\ e = u /\ (PartsOf(old)["cash"] = v) /\ (PartsOf(was)["cash"] = 0)
    BY <1>2, <1>4, <1>6, <1>8
  <2>2. TotalOf(more, "cash") = t - PartsOf(old)["cash"] + PartsOf(was)["cash"] + e
    BY <1>3, <1>8
  <2> HIDE DEF u, v, e, t
  <2>3. TotalOf(more, "cash") = t + (u - v)
    BY <2>1, <2>2
  <2> QED
    BY <2>3 DEF u, v, t
<1> QED
  BY <1>11, <1>12, <1>13, <1>14, <1>15, <1>16 DEF TotalsCorrected, held

\* A replacement is refused if the charge or the drawer would not bear it; what
\* the reversed receipt had paid is paid again as far as the replacement goes.
LEMMA ApproveCorrectionKeeps ==
    ASSUME MoneyInv, NEW c \in Corrections, ApproveCorrection(c) PROVE MoneyInv'
<1> DEFINE n == correction[c].slip
           old == slips[n]
           new == correction[c].amount
           channel == correction[c].channel
           moved == IF old.purpose = "PAYMENT" THEN new ELSE IF new < old.allocated THEN new ELSE old.allocated
           attempt == IF ByProvider(c) THEN c ELSE "desk"
           s == NewSlip(old.purpose, channel, new, moved, attempt)
           held(x) == IF old.purpose = "DEPOSIT" THEN x ELSE 0
<1>1. /\ UNCHANGED <<inHouse, intent, invoice, asking, told, refund, payback, heard, lateCase>>
      /\ correction[c].state = "PENDING" /\ old.reserved = 0 /\ old.refunded = 0 /\ old.reversed = 0
      /\ Len(slips) < MaxSlips
      /\ moved > 0 => Chargeable(moved, paid - old.allocated, {})
      /\ paid' = paid - old.allocated + moved
      /\ correction' = [correction EXCEPT ![c].state = "EXECUTED"] /\ due' = due \ {c}
  BY DEF ApproveCorrection, Correctable, invoicing, refunding, Unbound
<1>2. /\ slips' = WithReceipt([slips EXCEPT ![n].allocated = 0, ![n].reversed = old.amount], new, s)
      /\ acct' = (IF old.purpose = "PAYMENT" THEN acct
                  ELSE [acct EXCEPT !.received = acct.received + new, !.reversed = acct.reversed + old.amount,
                                    !.allocated = acct.allocated - old.allocated + moved])
      /\ till' = Till((IF channel = "CASH" THEN new ELSE 0) - (IF old.channel = "CASH" THEN old.amount ELSE 0), 0)
      /\ CashAllows(till')
  BY DEF ApproveCorrection, WithReceipt, DepositCorrected, CashDelta
<1>3. /\ n \in DOMAIN slips /\ correction[c] \in CorrectionRow /\ correction \in [Corrections -> CorrectionRow]
      /\ (new # 0 => new \in Amounts) /\ channel \in AnyChannel
  BY <1>1 DEF MoneyInv, CorrectionsFit, InvoiceTypes, CorrectionRow
<1>4. /\ slips \in Seq(Slips) /\ old \in Slips /\ refund \in [Refunds -> RefundRow] /\ acct \in Account
      /\ till.posted \in Nat /\ till.reserved \in Nat /\ paid \in Nat /\ Len(slips) \in Nat
      /\ DOMAIN slips = 1 .. Len(slips)
  BY <1>3, MoneyTypes
<1>5. /\ new \in Nat /\ old.amount \in Nat /\ old.allocated \in Nat
      /\ old.purpose \in {"DEPOSIT", "PAYMENT"}
  <2>1. \A x \in Slips : x.amount \in Nat /\ x.allocated \in Nat /\ x.purpose \in {"DEPOSIT", "PAYMENT"}
    BY GuestMoneyAssumption DEF Slips, Amounts
  <2>2. \A x \in CorrectionRow : x.amount \in Nat
    BY GuestMoneyAssumption DEF CorrectionRow, Amounts
  <2> QED
    BY <1>3, <1>4, <2>1, <2>2
<1>6. moved \in Nat /\ moved <= new /\ (new = 0 => moved = 0)
  BY <1>5
<1>7. /\ s.purpose = old.purpose /\ s.channel = channel /\ s.amount = new /\ s.allocated = moved
      /\ s.reserved = 0 /\ s.refunded = 0 /\ s.reversed = 0 /\ s.attempt = attempt
      /\ new # 0 => s \in Slips
  <2>1. attempt \in Corrections \cup {"desk"}
    OBVIOUS
  <2> HIDE DEF moved, attempt, new, channel, old
  <2> QED
    BY <1>3, <1>5, <1>6, <2>1 DEF NewSlip, Slips
<1>8. slips' = WithReceipt([slips EXCEPT ![n] = Reversed(old)], new, s)
  <2>1. [slips EXCEPT ![n].allocated = 0, ![n].reversed = old.amount] = [slips EXCEPT ![n] = Reversed(old)]
    BY <1>3, <1>4 DEF Reversed, Slips
  <2> QED
    BY <1>2, <2>1, Zenon
<1> HIDE DEF s, attempt
<1>9. CorrectedTo(slips, n, old, new, s, slips')
  BY <1>1, <1>6, <1>7, <1>8 DEF CorrectedTo
<1>10. TotalsCorrected(slips, slips', old, new, s)
  <2> HIDE DEF old, n, new, moved
  <2> QED
    BY <1>3, <1>4, <1>5, <1>9, CorrectedSums, Zenon
<1> DEFINE was == Reversed(old)
<1>11. /\ was \in Slips /\ Spendable(was) = 0 /\ was.purpose = old.purpose /\ was.attempt = old.attempt
       /\ was.reserved = 0
  <2> HIDE DEF old, n
  <2> QED
    BY <1>1, <1>4, ReversedIs
<1> HIDE DEF was
<1>12. ReceiptsBecome(slips, n, was, new, s, slips')
  <2>1. slips' = WithReceipt([slips EXCEPT ![n] = was], new, s)
    BY <1>8 DEF was
  <2> HIDE DEF old, n, new, moved, channel
  <2> QED
    BY <1>3, <1>4, <1>5, <1>7, <1>11, <2>1, CorrectedReceipts, Zenon
<1>13. /\ slips' \in Seq(Slips) /\ Len(slips') >= Len(slips) /\ Len(slips') <= Len(slips) + 1
       /\ DOMAIN slips' = DOMAIN slips \cup (IF new = 0 THEN {} ELSE {Len(slips) + 1})
       /\ slips'[n] = was /\ \A m \in DOMAIN slips \ {n} : slips'[m] = slips[m]
       /\ new # 0 => slips'[Len(slips) + 1] = s
       /\ Len(slips) + 1 \notin DOMAIN slips
  BY <1>12, Zenon DEF ReceiptsBecome
<1>14. /\ TotalOf(slips', "received") = TotalOf(slips, "received") + held(new)
       /\ TotalOf(slips', "reversed") = TotalOf(slips, "reversed") + held(old.amount)
       /\ TotalOf(slips', "allocated") = TotalOf(slips, "allocated") - held(old.allocated) + held(moved)
       /\ TotalOf(slips', "reserved") = TotalOf(slips, "reserved")
       /\ TotalOf(slips', "refunded") = TotalOf(slips, "refunded")
       /\ TotalOf(slips', "paid") = TotalOf(slips, "paid") - old.allocated + moved
       /\ TotalOf(slips', "cash") = TotalOf(slips, "cash")
             + ((IF channel = "CASH" THEN new ELSE 0) - (IF old.channel = "CASH" THEN old.amount ELSE 0))
  <2> HIDE DEF old, new, moved, channel
  <2> QED
    BY <1>7, <1>10, Zenon DEF TotalsCorrected
<1> HIDE DEF moved
<1>15. /\ acct'.received = acct.received + held(new) /\ acct'.reversed = acct.reversed + held(old.amount)
       /\ acct'.allocated = acct.allocated - held(old.allocated) + held(moved)
       /\ acct'.reserved = acct.reserved /\ acct'.refunded = acct.refunded /\ acct'.frozen = acct.frozen
       /\ acct' \in Balances
  <2> HIDE DEF old, new, n
  <2>1. acct \in Balances /\ acct.received \in Nat /\ acct.reversed \in Nat /\ acct.allocated \in Nat
    BY <1>4 DEF Account, Balances
  <2>2. CASE old.purpose = "PAYMENT"
    <3>1. acct' = acct
      BY <1>2, <2>2
    <3>2. held(new) = 0 /\ held(old.amount) = 0 /\ held(old.allocated) = 0 /\ held(moved) = 0
      BY <2>2
    <3> HIDE DEF held
    <3> QED
      BY <2>1, <3>1, <3>2
  <2>3. CASE old.purpose = "DEPOSIT"
    <3> DEFINE u == acct.received + new
               v == acct.reversed + old.amount
               w == acct.allocated - old.allocated + moved
    <3>1. acct' = [acct EXCEPT !.received = u, !.reversed = v, !.allocated = w]
      BY <1>2, <2>3
    <3>2. u \in Int /\ v \in Int /\ w \in Int
      BY <1>5, <1>6, <2>1
    <3>3. /\ u = acct.received + held(new) /\ v = acct.reversed + held(old.amount)
          /\ w = acct.allocated - held(old.allocated) + held(moved)
      BY <2>3
    <3> HIDE DEF u, v, w, held
    <3>4. /\ acct'.received = u /\ acct'.reversed = v /\ acct'.allocated = w
          /\ acct'.reserved = acct.reserved /\ acct'.refunded = acct.refunded /\ acct'.frozen = acct.frozen
          /\ acct' \in Balances
      BY <2>1, <3>1, <3>2 DEF Balances
    <3> QED
      BY <3>3, <3>4
  <2> QED
    BY <1>5, <2>2, <2>3
<1> HIDE DEF held
<1>16. /\ acct.received = TotalOf(slips, "received") /\ acct.reversed = TotalOf(slips, "reversed")
       /\ acct.allocated = TotalOf(slips, "allocated") /\ acct.reserved = TotalOf(slips, "reserved")
       /\ acct.refunded = TotalOf(slips, "refunded") /\ paid = TotalOf(slips, "paid")
  BY DEF MoneyInv, AccountFits, ChargeFits, DepositParts
<1>17. \A part \in DepositParts : acct'[part] = TotalOf(slips', part)
  BY <1>14, <1>15, <1>16, Zenon DEF DepositParts
<1>18. paid' = TotalOf(slips', "paid")
  BY <1>1, <1>14, <1>16
<1>19. \A part \in Parts : part # "cash" => TotalOf(slips', part) \in Nat
  BY <1>13, TotalTypes
<1>20. acct' \in Account /\ paid' \in Nat
  BY <1>15, <1>17, <1>18, <1>19 DEF DepositParts, Parts, Account, Balances
<1>21. AccountFits' /\ ChargeFits'
  BY <1>17, <1>18 DEF AccountFits, ChargeFits
<1>22. HeldFits' /\ paid' \in 0 .. RoomCharge
  <2> DEFINE h == HeldByIntents({})
  <2>1. HeldByIntents({})' = h /\ h \in Nat /\ paid + h <= RoomCharge
    BY <1>1, HeldNat DEF HeldByIntents, MoneyInv, HeldFits
  <2>2. moved > 0 => moved <= RoomCharge - (paid - old.allocated) - h
    BY <1>1 DEF Chargeable
  <2> DEFINE before == paid
             after == paid'
             a == old.allocated
  <2>3. after = before - a + moved /\ before \in Nat /\ after \in Nat /\ a \in Nat /\ moved \in Nat
        /\ RoomCharge \in Nat /\ h \in Nat /\ before + h <= RoomCharge
        /\ (moved > 0 => moved <= RoomCharge - (before - a) - h)
    BY <1>1, <1>4, <1>5, <1>6, <1>20, <2>1, <2>2, GuestMoneyAssumption
  <2> HIDE DEF h, before, after, a, old, new, n, channel
  <2>4. after + h <= RoomCharge /\ after \in 0 .. RoomCharge
    BY <2>3
  <2>5. HeldFits' <=> paid' + HeldByIntents({})' <= RoomCharge
    BY DEF HeldFits
  <2>6. paid' = after
    BY DEF after
  <2> QED
    BY <2>1, <2>4, <2>5, <2>6
<1>23. DrawerFits' /\ till' \in [posted : Nat, reserved : Nat]
  <2> DEFINE d == (IF channel = "CASH" THEN new ELSE 0) - (IF old.channel = "CASH" THEN old.amount ELSE 0)
  <2>1. d \in Int
    BY <1>5
  <2>2. till' = [posted |-> till.posted + d, reserved |-> till.reserved + 0]
    BY <1>2 DEF Till
  <2>3. TotalOf(slips', "cash") = TotalOf(slips, "cash") + d
    BY <1>14
  <2> HIDE DEF d
  <2>4. /\ till.posted = DrawerFloat + TotalOf(slips, "cash") - RefundsTotal(refund, "cashDone")
        /\ till.reserved = RefundsTotal(refund, "cashOpen")
    BY DEF MoneyInv, DrawerFits
  <2>5. TotalOf(slips, "cash") \in Int /\ RefundsTotal(refund, "cashDone") \in Int
    BY <1>4, TotalTypes, RefundTotalTypes DEF Parts, RefundParts
  <2>6. till'.posted = till.posted + d /\ till'.reserved = till.reserved
    BY <1>4, <2>2
  <2>7. till'.posted >= 0 /\ till'.reserved <= till'.posted
    BY <1>2 DEF CashAllows
  <2>8. till'.posted \in Nat
    BY <1>4, <2>1, <2>6, <2>7
  <2>9. till' \in [posted : Nat, reserved : Nat]
    BY <1>4, <2>2, <2>6, <2>8
  <2>10. till'.posted = DrawerFloat + TotalOf(slips', "cash") - RefundsTotal(refund', "cashDone")
    <3>1. refund' = refund
      BY <1>1
    <3> QED
      BY <2>1, <2>3, <2>4, <2>5, <2>6, <3>1, GuestMoneyAssumption
  <2>11. till'.reserved = RefundsTotal(refund', "cashOpen")
    BY <1>1, <2>4, <2>6
  <2> QED
    BY <2>7, <2>9, <2>10, <2>11 DEF DrawerFits
<1>24. SlipsFit'
  <2>1. slips[n].reserved = ReservedOf(refund, n)
    BY <1>3 DEF MoneyInv, SlipsFit
  <2>2. ReservedOf(refund, Len(slips) + 1) = 0
    <3>1. \A r \in Refunds : Reserves(refund[r], Len(slips) + 1) = 0
      BY <1>13 DEF MoneyInv, RefundsFit, RefundFits, Reserves
    <3> QED
      BY <3>1, NothingReserved
  <2>3. Spendable(s) >= 0 /\ s.reserved = 0
    <3> HIDE DEF new
    <3> QED
      BY <1>5, <1>6, <1>7 DEF Spendable
  <2> SUFFICES ASSUME NEW m \in DOMAIN slips'
               PROVE  Spendable(slips'[m]) >= 0 /\ slips'[m].reserved = ReservedOf(refund', m)
    BY DEF SlipsFit
  <2>4. refund' = refund
    BY <1>1
  <2>5. CASE m = n
    BY <1>1, <1>11, <1>13, <2>1, <2>4, <2>5
  <2>6. CASE m \in DOMAIN slips \ {n}
    BY <1>13, <2>4, <2>6 DEF MoneyInv, SlipsFit
  <2>7. CASE m = Len(slips) + 1 /\ new # 0
    BY <1>13, <2>2, <2>3, <2>4, <2>7
  <2> QED
    BY <1>13, <2>5, <2>6, <2>7
<1>25. \A m \in DOMAIN slips : slips'[m].purpose = slips[m].purpose /\ slips'[m].attempt = slips[m].attempt
  BY <1>11, <1>13
<1>26. AccountTypes' /\ Len(slips') >= 1
  <2>1. Len(slips') <= MaxSlips /\ Len(slips') >= 1
    BY <1>1, <1>4, <1>13, GuestMoneyAssumption DEF MoneyInv
  <2>2. inHouse' \in BOOLEAN
    BY <1>1 DEF MoneyInv, AccountTypes
  <2> QED
    BY <1>13, <1>20, <1>22, <1>23, <2>1, <2>2 DEF AccountTypes, Account
<1>27. ReceiptsFit'
  <2>1. c \notin Intents /\ "desk" \notin Intents
    BY GuestMoneyAssumption
  <2>2. attempt \notin Intents
    BY <2>1 DEF attempt
  <2>3. \A i \in Intents : SlipsOf(i)' = SlipsOf(i)
    BY <1>7, <1>13, <1>25, <2>2 DEF SlipsOf
  <2> QED
    BY <1>1, <1>13, <2>3, ReceiptsKept
<1>28. RefundedFits' /\ FrozenFits' /\ RefundsFit' /\ RefundTypes'
  <2>1. RefundedFits' /\ FrozenFits'
    BY <1>1, <1>15 DEF MoneyInv, RefundedFits, FrozenFits
  <2>2. RefundsFit'
    BY <1>1, <1>13, <1>25, KeptByGrowth
  <2> QED
    BY <1>1, <2>1, <2>2, KeptRows
<1>29. /\ correction' \in [Corrections -> CorrectionRow] /\ correction'[c].state = "EXECUTED"
       /\ correction'[c].slip = n /\ correction'[c].amount = correction[c].amount
       /\ correction'[c].channel = correction[c].channel
       /\ \A d \in Corrections \ {c} : correction'[d] = correction[d]
  BY <1>1, <1>3 DEF CorrectionRow
<1>30. InvoiceTypes' /\ IntentsFit' /\ CancelledFits'
  <2>1. InvoiceTypes'
    BY <1>1, <1>29 DEF MoneyInv, InvoiceTypes
  <2> QED
    BY <1>1, <2>1, KeptRows
<1>31. CorrectionsFit'
  <2> SUFFICES ASSUME NEW d \in Corrections
               PROVE  /\ correction'[d].state # "none" => correction'[d].slip \in DOMAIN slips'
                      /\ invoice'[d] # "none" => correction'[d].state # "none" /\ ByProvider(d)'
                      /\ correction'[d].state = "REJECTED" => invoice'[d] \in {"none", "VOIDED"}
    BY DEF CorrectionsFit
  <2>1. CASE d = c
    BY <1>1, <1>3, <1>13, <1>29, <2>1 DEF MoneyInv, CorrectionsFit, ByProvider
  <2>2. CASE d # c
    BY <1>1, <1>13, <1>29, <2>2 DEF MoneyInv, CorrectionsFit, ByProvider
  <2> QED
    BY <2>1, <2>2
<1>32. ShiftBoundWhileOpen'
  <2>1. c \notin Intents /\ c \notin Refunds
    BY GuestMoneyAssumption
  <2> QED
    BY <1>1, <1>29, <2>1 DEF MoneyInv, ShiftBoundWhileOpen, Pending
<1>33. ClosedStayIsSettled'
  BY <1>29 DEF ClosedStayIsSettled
<1> QED
  BY <1>21, <1>22, <1>23, <1>24, <1>26, <1>27, <1>28, <1>30, <1>31, <1>32, <1>33 DEF MoneyInv

-----------------------------------------------------------------------------
(* The invariant holds of every behaviour.                                 *)

LEMMA MoneyInit == ASSUME GuestMoneyInit PROVE MoneyInv
<1> DEFINE s == [purpose |-> "DEPOSIT", channel |-> DepositBy, amount |-> Deposit, allocated |-> 0,
                 reserved |-> 0, refunded |-> 0, reversed |-> 0, attempt |-> "desk"]
<1>1. slips = <<s>> /\ s \in Slips
  <2>1. Deposit \in Amounts /\ DepositBy \in AnyChannel
    BY GuestMoneyAssumption DEF Amounts, AnyChannel
  <2> QED
    BY <2>1 DEF GuestMoneyInit, Slips
<1>2. /\ s.purpose = "DEPOSIT" /\ s.channel = DepositBy /\ s.amount = Deposit /\ s.allocated = 0 /\ s.reserved = 0
      /\ s.refunded = 0 /\ s.reversed = 0 /\ s.attempt = "desk"
  OBVIOUS
<1> HIDE DEF s
<1>3. /\ slips \in Seq(Slips) /\ Len(slips) = 1 /\ slips[1] = s /\ DOMAIN slips = {1}
  BY <1>1
<1>4. \A part \in Parts : TotalOf(slips, part) = PartsOf(s)[part]
  <2> SUFFICES ASSUME NEW part \in Parts PROVE TotalOf(slips, part) = PartsOf(s)[part]
    OBVIOUS
  <2> DEFINE f == [n \in DOMAIN slips |-> PartsOf(slips[n])[part]]
  <2>1. TotalOf(slips, part) = SumFunctionOnSet(f, {1}) /\ f[1] = PartsOf(s)[part] /\ f[1] \in Int
    BY <1>1, <1>3, PartTypes DEF TotalOf, SumFunction
  <2> HIDE DEF f
  <2>2. SumFunctionOnSet(f, {} \cup {1}) = SumFunctionOnSet(f, {}) + f[1] /\ SumFunctionOnSet(f, {}) = 0
    BY <2>1, FS_EmptySet, SumEnters, SumZero
  <2>3. {} \cup {1} = {1}
    OBVIOUS
  <2> QED
    BY <2>1, <2>2, <2>3
<1>5. \A r \in Refunds : refund[r].state = "none" /\ lateCase[r].covered = 0
  BY DEF GuestMoneyInit
<1>6. /\ \A part \in RefundParts : RefundsTotal(refund, part) = 0
      /\ \A n : ReservedOf(refund, n) = 0
      /\ CoveredOf(lateCase) = 0
  <2>1. ASSUME NEW part \in RefundParts PROVE RefundsTotal(refund, part) = 0
    <3> DEFINE f == [r \in Refunds |-> RefundPartsOf(refund[r])[part]]
    <3>1. RefundsTotal(refund, part) = SumFunctionOnSet(f, Refunds) /\ \A r \in Refunds : f[r] = 0
      BY <1>5, RefundPartValues DEF RefundsTotal, SumFunction, RefundParts
    <3> HIDE DEF f
    <3> QED
      BY <3>1, SumZero, GuestMoneyAssumption
  <2>2. ASSUME NEW n PROVE ReservedOf(refund, n) = 0
    BY <1>5, NothingReserved DEF Reserves
  <2>3. CoveredOf(lateCase) = 0
    <3> DEFINE f == [r \in Refunds |-> lateCase[r].covered]
    <3>1. CoveredOf(lateCase) = SumFunctionOnSet(f, Refunds) /\ \A r \in Refunds : f[r] = 0
      BY <1>5 DEF CoveredOf, SumFunction
    <3> HIDE DEF f
    <3> QED
      BY <3>1, SumZero, GuestMoneyAssumption
  <2> QED
    BY <2>1, <2>2, <2>3
<1>7. HeldByIntents({}) = 0
  <2>1. \A j \in Intents \ {} : intent[j].state # "PENDING"
    BY DEF GuestMoneyInit
  <2> QED
    BY <2>1, NothingHeld, HeldIsOf
<1>8. /\ PartsOf(s)["received"] = Deposit /\ PartsOf(s)["reversed"] = 0 /\ PartsOf(s)["allocated"] = 0
      /\ PartsOf(s)["reserved"] = 0 /\ PartsOf(s)["refunded"] = 0 /\ PartsOf(s)["paid"] = 0
      /\ PartsOf(s)["cash"] = IF DepositBy = "CASH" THEN Deposit ELSE 0
  BY <1>2, PartValues, GuestMoneyAssumption
<1>9. AccountTypes /\ Len(slips) >= 1
  <2>1. DrawerFloat + (IF DepositBy = "CASH" THEN Deposit ELSE 0) \in Nat
    BY GuestMoneyAssumption
  <2> QED
    BY <1>3, <2>1, GuestMoneyAssumption DEF GuestMoneyInit, AccountTypes
<1>10. InvoiceTypes
  <2>1. "CASH" \in AnyChannel
    BY DEF AnyChannel
  <2> QED
    BY <1>1, <1>3, <2>1 DEF GuestMoneyInit, InvoiceTypes, IntentRow, CorrectionRow
<1>11. RefundTypes
  <2>1. "CASH" \in AnyChannel
    BY DEF AnyChannel
  <2> QED
    BY <2>1 DEF GuestMoneyInit, RefundTypes, RefundRow, LateRow
<1>12. SlipsFit
  BY <1>2, <1>3, <1>6, GuestMoneyAssumption DEF SlipsFit, Spendable
<1>13. AccountFits /\ ChargeFits
  BY <1>4, <1>8 DEF GuestMoneyInit, AccountFits, ChargeFits, DepositParts, Parts
<1>14. DrawerFits
  <2> DEFINE x == IF DepositBy = "CASH" THEN Deposit ELSE 0
  <2>1. x \in Nat /\ DrawerFloat \in Nat
    BY GuestMoneyAssumption
  <2>2. TotalOf(slips, "cash") = x
    BY <1>4, <1>8 DEF Parts
  <2>3. RefundsTotal(refund, "cashDone") = 0 /\ RefundsTotal(refund, "cashOpen") = 0
    BY <1>6 DEF RefundParts
  <2>4. till.posted = DrawerFloat + x /\ till.reserved = 0
    BY DEF GuestMoneyInit
  <2> HIDE DEF x
  <2> QED
    BY <2>1, <2>2, <2>3, <2>4 DEF DrawerFits
<1>15. RefundedFits /\ HeldFits
  BY <1>6, <1>7, GuestMoneyAssumption DEF GuestMoneyInit, RefundedFits, HeldFits, RefundParts
<1>16. IntentsFit /\ CancelledFits
  BY DEF GuestMoneyInit, IntentsFit, CancelledFits, Pending
<1>17. ReceiptsFit
  BY <1>2, <1>3, GuestMoneyAssumption DEF GuestMoneyInit, ReceiptsFit, SlipsOf
<1>18. RefundsFit
  BY DEF GuestMoneyInit, RefundsFit, RefundFits, ProviderFits, ReleaseFits, CaseFits
<1>19. FrozenFits /\ CorrectionsFit
  BY DEF GuestMoneyInit, FrozenFits, StaysFrozen, CorrectionsFit
<1>20. ShiftBoundWhileOpen /\ ClosedStayIsSettled
  BY DEF GuestMoneyInit, ShiftBoundWhileOpen, ClosedStayIsSettled, Pending
<1> QED
  BY <1>9, <1>10, <1>11, <1>12, <1>13, <1>14, <1>15, <1>16, <1>17, <1>18, <1>19, <1>20 DEF MoneyInv

LEMMA MoneyStep == ASSUME MoneyInv, [GuestMoneyNext]_guestMoneyVars PROVE MoneyInv'
<1>1. CASE UNCHANGED guestMoneyVars
  BY <1>1, KeptAccount, KeptRows DEF MoneyInv, AccountTypes, guestMoneyVars, money, invoicing, refunding
<1>2. CASE \E a \in Amounts, ch \in Channels : PayAtDesk(ch, a)
  BY <1>2, PayAtDeskKeeps
<1>3. CASE \E a \in Amounts, n \in DOMAIN slips : Allocate(n, a)
  BY <1>3, AllocateKeeps
<1>4. ASSUME NEW i \in Intents,
             \/ \E a \in Amounts : CreateIntent(i, a)
             \/ AskAboutIntent(i) \/ ProviderTells(i) \/ ApplyIntent(i) \/ VoidIntent(i)
      PROVE  MoneyInv'
  BY <1>4, CreateIntentKeeps, AskAboutIntentKeeps, ProviderTellsKeeps, ApplyIntentKeeps, VoidIntentKeeps
<1>5. CASE \E x \in Intents \cup Corrections : GuestCaptures(x)
  BY <1>5, GuestCapturesKeeps
<1>6. ASSUME NEW r \in Refunds,
             \E n \in DOMAIN slips, a \in Amounts, ch \in Channels, routed \in BOOLEAN : Reserve(r, n, a, ch, routed)
      PROVE  MoneyInv'
  BY <1>6, ReserveKeeps
<1>7. ASSUME NEW r \in Refunds,
             \/ \E state \in {"COMPLETED", "RELEASED"} : FinishCashRefund(r, state)
             \/ \E approve \in BOOLEAN : DecideRoute(r, approve)
             \/ PayRoutedByHand(r) \/ RecordSuccess(r) \/ ReleaseRouted(r)
      PROVE  MoneyInv'
  BY <1>7, FinishCashRefundKeeps, DecideRouteKeeps, PayRoutedByHandKeeps, RecordSuccessKeeps, ReleaseRoutedKeeps
<1>8. ASSUME NEW r \in Refunds, MarkSent(r) \/ Send(r) \/ ProviderPaysBack(r) \/ AskAboutRefund(r) PROVE MoneyInv'
  BY <1>8, MarkSentKeeps, SendKeeps, ProviderPaysBackKeeps, AskAboutRefundKeeps
<1>9. ASSUME NEW r \in Refunds,
             \/ RecordLateSuccess(r) \/ ClaimCase(r)
             \/ \E outcome \in {"FINAL", "SUCCEEDED"} : ResolveCase(r, outcome)
      PROVE  MoneyInv'
  BY <1>9, RecordLateSuccessKeeps, ClaimCaseKeeps, ResolveCaseKeeps
<1>10. ASSUME NEW c \in Corrections,
              \/ \E n \in DOMAIN slips, a \in {0} \cup Amounts, ch \in Channels, routed \in BOOLEAN :
                    RequestCorrection(c, n, a, ch, routed)
              \/ InvoiceCorrection(c) \/ RejectCorrection(c) \/ ApproveCorrection(c)
       PROVE  MoneyInv'
  BY <1>10, RequestCorrectionKeeps, InvoiceCorrectionKeeps, RejectCorrectionKeeps, ApproveCorrectionKeeps
<1>11. CASE CheckOutSettled
  BY <1>11, CheckOutKeeps
<1> QED
  BY <1>1, <1>2, <1>3, <1>4, <1>5, <1>6, <1>7, <1>8, <1>9, <1>10, <1>11, Zenon DEF GuestMoneyNext

\* What the invariant says of the properties the runs check.
LEMMA MoneyInvTypes == MoneyInv => GuestMoneyTypeOK
<1> SUFFICES ASSUME MoneyInv PROVE GuestMoneyTypeOK
  OBVIOUS
<1>1. due \subseteq Intents \cup Refunds \cup Corrections
  BY DEF MoneyInv, ShiftBoundWhileOpen
<1> QED
  BY <1>1 DEF MoneyInv, AccountTypes, InvoiceTypes, RefundTypes, IntentRow, CorrectionRow, RefundRow, LateRow,
              GuestMoneyTypeOK

LEMMA MoneyInvAgrees == MoneyInv => GuestMoneyAgrees
<1> SUFFICES ASSUME MoneyInv PROVE GuestMoneyAgrees
  OBVIOUS
<1>1. \A part : SlipTotal(part) = TotalOf(slips, part) /\ RefundTotal(part) = RefundsTotal(refund, part)
  BY DEF SlipTotal, TotalOf, RefundTotal, RefundsTotal
<1>2. \A n : ReservedOn(n) = ReservedOf(refund, n)
  BY DEF ReservedOn, ReservedOf, Reserves
<1>3. LedgerAgrees
  BY <1>1, <1>2 DEF MoneyInv, SlipsFit, AccountFits, DepositParts, LedgerAgrees
<1>4. DrawerAgrees
  BY <1>1 DEF MoneyInv, DrawerFits, DrawerAgrees
<1>5. ChargeNotOverpaid
  BY <1>1 DEF MoneyInv, HeldFits, ChargeFits, ChargeNotOverpaid
<1> QED
  BY <1>3, <1>4, <1>5 DEF GuestMoneyAgrees

LEMMA MoneyInvSettled == MoneyInv => GuestMoneyIsSettled
<1> SUFFICES ASSUME MoneyInv PROVE GuestMoneyIsSettled
  OBVIOUS
<1>1. DeadInvoiceIsUnpayable
  <2>1. ASSUME NEW i \in Intents
        PROVE  Cardinality({n \in DOMAIN slips : slips[n].attempt = i}) = (IF intent[i].state = "APPLIED" THEN 1 ELSE 0)
    <3>1. CASE intent[i].state = "APPLIED"
      <4>1. PICK n \in DOMAIN slips : SlipsOf(i) = {n}
        BY <3>1 DEF MoneyInv, ReceiptsFit
      <4> QED
        BY <3>1, <4>1, FS_Singleton DEF SlipsOf
    <3>2. CASE intent[i].state # "APPLIED"
      BY <3>2, FS_EmptySet DEF MoneyInv, ReceiptsFit, SlipsOf
    <3> QED
      BY <3>1, <3>2
  <2> QED
    BY <2>1 DEF MoneyInv, CancelledFits, CorrectionsFit, DeadInvoiceIsUnpayable
<1>2. ReleasedIsDecided
  BY DEF MoneyInv, RefundsFit, ReleaseFits, ReleasedIsDecided
<1>3. LateSuccessIsPosted
  <2>1. RefundTotal("done") = RefundsTotal(refund, "done") /\ Covered = CoveredOf(lateCase)
    BY DEF RefundTotal, RefundsTotal, Covered, CoveredOf
  <2> QED
    BY <2>1 DEF MoneyInv, RefundedFits, RefundsFit, CaseFits, FrozenFits, StaysFrozen, LateSuccessIsPosted
<1> QED
  BY <1>1, <1>2, <1>3 DEF MoneyInv, GuestMoneyIsSettled

\* The types of the money records, for every deposit and charge, and any number of
\* receipts, intents, refunds and corrections: among them that neither the account
\* nor the drawer is ever negative.
THEOREM MoneyIsTyped == GuestMoneySpec => []GuestMoneyTypeOK
BY MoneyInit, MoneyStep, MoneyInvTypes, PTL DEF GuestMoneySpec

\* The account, the drawer and the charge agree with the receipts and the refunds
\* (GuestFinance.save, cash and charge), whatever is paid back late or corrected.
THEOREM MoneyAgrees == GuestMoneySpec => []GuestMoneyAgrees
BY MoneyInit, MoneyStep, MoneyInvAgrees, PTL DEF GuestMoneySpec

\* What was cancelled, rejected, released or closed stays so, and what is open is
\* seen to be open (GuestPayments.cancel, RoutedRefunds.release and resolve_case,
\* shift_obligation, CheckoutService.close).
THEOREM MoneyIsSettled == GuestMoneySpec => []GuestMoneyIsSettled
BY MoneyInit, MoneyStep, MoneyInvSettled, PTL DEF GuestMoneySpec
=============================================================================
