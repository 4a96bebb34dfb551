--------------------------- MODULE ShiftCashProofs ---------------------------
(***************************************************************************)
(* Proofs about ShiftCash for any staff, drawers, amounts, transfers and   *)
(* obligations, and any number of shifts.  Transfers and obligations need  *)
(* not be finitely many: those that are pending are, so that what a drawer *)
(* holds back can be added up.                                             *)
(***************************************************************************)
EXTENDS ShiftCash, FiniteSums

\* A shift that was opened has an owner and a drawer; its work item is closed
\* with it.
ShiftRowsFit ==
    \A s \in Shifts :
        /\ shift[s].state = "NONE" <=> s > opened
        /\ shift[s].work = "NONE" <=> s > opened
        /\ shift[s].work = "CLOSED" <=> shift[s].state = "CLOSED"
        /\ s <= opened => shift[s].owner \in Staff /\ shift[s].drawer \in Drawers

\* The current shift of a drawer is a shift of this drawer.
DrawerRowsFit ==
    \A d \in Drawers :
        /\ drawer[d].shift # NoShift =>
              drawer[d].shift <= opened /\ shift[drawer[d].shift].drawer = d
        /\ drawer[d].shift = NoShift => custody[d] = NoCustody

\* Handovers and takeovers are of shifts that were opened, a takeover that is
\* done closed its shift, and what they rely on was counted.
WorkRowsFit ==
    \A s \in Shifts :
        /\ handover[s].submitted => s <= opened /\ counted[shift[s].drawer]
        /\ takeover[s].replacement # None => s <= opened
        /\ takeover[s].done => shift[s].state = "CLOSED"
        /\ takeover[s].count.usable =>
              takeover[s].replacement # None /\ ~takeover[s].done /\ counted[shift[s].drawer]

PendingTransfers == {t \in Transfers : transfer[t].state = "PENDING"}
PendingObligations == {o \in Obligations : obligation[o].state = "PENDING"}

\* What is pending names a shift that was opened and drawers that exist.
ClaimRowsFit ==
    /\ \A o \in PendingObligations :
          /\ obligation[o].shift \in Shifts /\ obligation[o].shift <= opened
          /\ obligation[o].drawer = shift[obligation[o].shift].drawer
    /\ \A t \in PendingTransfers :
          /\ transfer[t].source \in Drawers /\ transfer[t].dest \in Drawers
          /\ transfer[t].source # transfer[t].dest
    /\ IsFiniteSet(PendingTransfers) /\ IsFiniteSet(PendingObligations)

RowsFit == ShiftRowsFit /\ DrawerRowsFit /\ WorkRowsFit /\ ClaimRowsFit

CashInv ==
    /\ TypeOK /\ RowsFit
    /\ LiveShiftsApart /\ WorkersMayWork /\ PromisesAreCovered /\ ClosedOwesNothing
    /\ HandoverFreezesDrawer /\ CashHasKeeper /\ TakenOverByAnother

-----------------------------------------------------------------------------
(* Rows, and what a drawer holds back.                                     *)

\* The fields of the rows.
LEMMA CashRows ==
    ASSUME CashInv
    PROVE  /\ \A d \in Drawers : /\ drawer[d] \in Drawer
                                 /\ drawer[d].posted \in Cash /\ drawer[d].reserved \in Cash
                                 /\ drawer[d].shift \in ShiftId
           /\ \A s \in Shifts : /\ shift[s] \in Shift /\ handover[s] \in Handover
                                /\ takeover[s] \in Takeover
           /\ \A o \in Obligations : obligation[o] \in Obligation /\ obligation[o].amount \in Nat
           /\ \A t \in Transfers : transfer[t] \in Transfer /\ transfer[t].amount \in Nat
           /\ MaxCash \in Nat /\ MaxShifts \in Nat /\ opened \in 0 .. MaxShifts
<1>1. /\ \A d \in Drawers : drawer[d] \in Drawer
      /\ \A s \in Shifts : shift[s] \in Shift /\ handover[s] \in Handover /\ takeover[s] \in Takeover
      /\ \A o \in Obligations : obligation[o] \in Obligation
      /\ \A t \in Transfers : transfer[t] \in Transfer
      /\ opened \in 0 .. MaxShifts
  BY DEF CashInv, TypeOK
<1>2. \A x \in Drawer : x.posted \in Cash /\ x.reserved \in Cash /\ x.shift \in ShiftId
  BY DEF Drawer
<1>3. (\A x \in Obligation : x.amount \in Nat) /\ (\A x \in Transfer : x.amount \in Nat)
  <2>1. Amounts \cup {0} \subseteq Nat
    BY CashAssumption
  <2> QED
    BY <2>1 DEF Obligation, Transfer
<1> QED
  BY <1>1, <1>2, <1>3, CashAssumption

\* What is added up for a drawer.
LEMMA ReserveRows ==
    ASSUME CashInv, NEW d
    PROVE  /\ IsFiniteSet(TransfersFrom(d)) /\ IsFiniteSet(ObligationsOf(d))
           /\ \A t \in TransfersFrom(d) : AmountIn(transfer)[t] \in Nat
           /\ \A o \in ObligationsOf(d) : AmountIn(obligation)[o] \in Nat
           /\ ReservedOf(d) \in Nat
<1>1. TransfersFrom(d) \subseteq PendingTransfers /\ ObligationsOf(d) \subseteq PendingObligations
  BY DEF TransfersFrom, ObligationsOf, PendingTransfers, PendingObligations
<1>2. IsFiniteSet(TransfersFrom(d)) /\ IsFiniteSet(ObligationsOf(d))
  BY <1>1, FS_Subset DEF CashInv, RowsFit, ClaimRowsFit
<1>3. DOMAIN transfer = Transfers /\ DOMAIN obligation = Obligations
  BY DEF CashInv, TypeOK
<1>4. /\ \A t \in TransfersFrom(d) : AmountIn(transfer)[t] \in Nat
      /\ \A o \in ObligationsOf(d) : AmountIn(obligation)[o] \in Nat
  BY <1>3, CashRows DEF TransfersFrom, ObligationsOf, AmountIn
<1>5. /\ SumFunctionOnSet(AmountIn(transfer), TransfersFrom(d)) \in Nat
      /\ SumFunctionOnSet(AmountIn(obligation), ObligationsOf(d)) \in Nat
  BY <1>2, <1>4, SumNat
<1> QED
  BY <1>2, <1>4, <1>5 DEF ReservedOf

\* A new obligation holds its amount back in its drawer.
LEMMA ObligationMade ==
    ASSUME CashInv, UNCHANGED transfer, NEW o \in Obligations, NEW row \in Obligation,
           obligation[o].state # "PENDING", row.state = "PENDING",
           obligation' = [obligation EXCEPT ![o] = row]
    PROVE  /\ \A d : ReservedOf(d)' = ReservedOf(d) + (IF d = row.drawer THEN row.amount ELSE 0)
           /\ IsFiniteSet(PendingObligations)'
<1>1. /\ DOMAIN obligation = Obligations /\ DOMAIN obligation' = Obligations
      /\ obligation'[o] = row /\ \A p \in Obligations \ {o} : obligation'[p] = obligation[p]
  BY DEF CashInv, TypeOK
<1>2. row.amount \in Nat
  <2>1. Amounts \cup {0} \subseteq Nat
    BY CashAssumption
  <2> QED
    BY <2>1 DEF Obligation
<1>3. /\ AmountIn(obligation')[o] = row.amount
      /\ \A p \in Obligations \ {o} : AmountIn(obligation')[p] = AmountIn(obligation)[p]
  BY <1>1 DEF AmountIn
<1>4. ASSUME NEW d
      PROVE  ReservedOf(d)' = ReservedOf(d) + (IF d = row.drawer THEN row.amount ELSE 0)
  <2> DEFINE S == ObligationsOf(d)
             f == AmountIn(obligation)
             h == AmountIn(obligation')
  <2>1. o \notin S /\ S \subseteq Obligations
    BY DEF ObligationsOf
  <2>2. IsFiniteSet(S) /\ \A p \in S : f[p] \in Int /\ h[p] = f[p]
    <3>1. IsFiniteSet(S) /\ \A p \in S : f[p] \in Nat
      BY ReserveRows
    <3>2. \A p \in S : h[p] = f[p]
      BY <1>3, <2>1
    <3> HIDE DEF S, f, h
    <3> QED
      BY <3>1, <3>2
  <2>3. SumFunctionOnSet(AmountIn(transfer), TransfersFrom(d))' =
            SumFunctionOnSet(AmountIn(transfer), TransfersFrom(d))
    BY DEF TransfersFrom, AmountIn
  <2>4. /\ SumFunctionOnSet(AmountIn(transfer), TransfersFrom(d)) \in Int
        /\ SumFunctionOnSet(f, S) \in Int
    BY ReserveRows, SumType
  <2>5. CASE d = row.drawer
    <3>1. ObligationsOf(d)' = S \cup {o}
      BY <1>1, <2>5 DEF ObligationsOf
    <3>2. h[o] = row.amount
      BY <1>3
    <3> HIDE DEF S, f, h
    <3>3. SumFunctionOnSet(h, S \cup {o}) = SumFunctionOnSet(f, S) + row.amount
      BY <1>2, <2>1, <2>2, <3>2, SumEnters
    <3>4. SumFunctionOnSet(AmountIn(obligation), ObligationsOf(d))' = SumFunctionOnSet(f, S) + row.amount
      BY <3>1, <3>3, Zenon DEF h
    <3> QED
      BY <1>2, <2>3, <2>4, <2>5, <3>4 DEF ReservedOf, S, f
  <2>6. CASE d # row.drawer
    <3>1. ObligationsOf(d)' = S
      BY <1>1, <2>6 DEF ObligationsOf
    <3> HIDE DEF S, f, h
    <3>2. SumFunctionOnSet(f, S) = SumFunctionOnSet(h, S)
      BY <2>2, SumAgree
    <3>3. SumFunctionOnSet(AmountIn(obligation), ObligationsOf(d))' = SumFunctionOnSet(f, S)
      BY <3>1, <3>2, Zenon DEF h
    <3> QED
      BY <2>3, <2>4, <2>6, <3>3 DEF ReservedOf, S, f
  <2> QED
    BY <2>5, <2>6
<1>5. IsFiniteSet(PendingObligations)'
  <2>1. PendingObligations' = PendingObligations \cup {o}
    BY <1>1 DEF PendingObligations
  <2>2. IsFiniteSet(PendingObligations)
    BY DEF CashInv, RowsFit, ClaimRowsFit
  <2> QED
    BY <2>1, <2>2, FS_AddElement
<1> QED
  BY <1>4, <1>5

\* An obligation that ends held back at most what the drawer did.
LEMMA ObligationEnds ==
    ASSUME CashInv, UNCHANGED transfer, NEW o \in Obligations, obligation[o].state = "PENDING",
           obligation' = [obligation EXCEPT ![o].state = "DONE"]
    PROVE  /\ \A d : ReservedOf(d)' =
                        ReservedOf(d) - (IF d = obligation[o].drawer THEN obligation[o].amount ELSE 0)
           /\ obligation[o].amount <= ReservedOf(obligation[o].drawer)
           /\ IsFiniteSet(PendingObligations)'
           /\ obligation' \in [Obligations -> Obligation]
           /\ obligation'[o].state = "DONE" /\ \A p \in Obligations \ {o} : obligation'[p] = obligation[p]
<1>1. /\ DOMAIN obligation = Obligations /\ DOMAIN obligation' = Obligations /\ obligation[o] \in Obligation
      /\ obligation'[o] = [obligation[o] EXCEPT !.state = "DONE"]
      /\ \A p \in Obligations \ {o} : obligation'[p] = obligation[p] /\ obligation[p] \in Obligation
  BY DEF CashInv, TypeOK
<1>2. obligation'[o].state = "DONE" /\ obligation'[o] \in Obligation /\ obligation[o].amount \in Nat
  <2>1. obligation'[o].state = "DONE" /\ obligation'[o] \in Obligation
    BY <1>1 DEF Obligation, Progress
  <2> QED
    BY <2>1, CashRows
<1>3. /\ AmountIn(obligation)[o] = obligation[o].amount
      /\ \A p \in Obligations \ {o} : AmountIn(obligation')[p] = AmountIn(obligation)[p]
  BY <1>1 DEF AmountIn
<1>4. ASSUME NEW d
      PROVE  /\ ReservedOf(d)' =
                   ReservedOf(d) - (IF d = obligation[o].drawer THEN obligation[o].amount ELSE 0)
             /\ d = obligation[o].drawer => obligation[o].amount <= ReservedOf(d)
  <2> DEFINE S == ObligationsOf(d)
             f == AmountIn(obligation)
             h == AmountIn(obligation')
  <2>1. S \subseteq Obligations
    BY DEF ObligationsOf
  <2>2. IsFiniteSet(S) /\ \A p \in S : f[p] \in Nat
    BY ReserveRows
  <2>3. SumFunctionOnSet(AmountIn(transfer), TransfersFrom(d))' =
            SumFunctionOnSet(AmountIn(transfer), TransfersFrom(d))
    BY DEF TransfersFrom, AmountIn
  <2>4. /\ SumFunctionOnSet(AmountIn(transfer), TransfersFrom(d)) \in Nat
        /\ SumFunctionOnSet(f, S) \in Nat
    BY ReserveRows, SumNat
  <2>5. CASE d = obligation[o].drawer
    <3>1. ObligationsOf(d)' = S \ {o} /\ o \in S
      BY <1>1, <1>2, <2>5 DEF ObligationsOf
    <3>2. f[o] = obligation[o].amount /\ \A p \in S \ {o} : h[p] = f[p]
      BY <1>3, <2>1
    <3> HIDE DEF S, f, h
    <3>3. SumFunctionOnSet(h, S \ {o}) = SumFunctionOnSet(f, S) - f[o]
      <4>1. \A p \in S : f[p] \in Int
        BY <2>2
      <4> QED
        BY <2>2, <3>1, <3>2, <4>1, SumLeaves
    <3>4. f[o] <= SumFunctionOnSet(f, S)
      BY <2>2, <3>1, SumCovers
    <3>5. SumFunctionOnSet(AmountIn(obligation), ObligationsOf(d))' =
              SumFunctionOnSet(f, S) - obligation[o].amount
      BY <3>1, <3>2, <3>3, Zenon DEF h
    <3> QED
      BY <1>2, <2>3, <2>4, <2>5, <3>2, <3>4, <3>5 DEF ReservedOf, S, f
  <2>6. CASE d # obligation[o].drawer
    <3>1. ObligationsOf(d)' = S /\ o \notin S
      BY <1>1, <1>2, <2>6 DEF ObligationsOf
    <3>2. \A p \in S : h[p] = f[p]
      BY <1>3, <2>1, <3>1
    <3> HIDE DEF S, f, h
    <3>3. SumFunctionOnSet(f, S) = SumFunctionOnSet(h, S)
      BY <2>2, <3>2, SumAgree
    <3>4. SumFunctionOnSet(AmountIn(obligation), ObligationsOf(d))' = SumFunctionOnSet(f, S)
      BY <3>1, <3>3, Zenon DEF h
    <3> QED
      BY <2>3, <2>4, <2>6, <3>4 DEF ReservedOf, S, f
  <2> QED
    BY <2>5, <2>6
<1>5. IsFiniteSet(PendingObligations)'
  <2>1. PendingObligations' \subseteq PendingObligations
    BY <1>1, <1>2 DEF PendingObligations
  <2>2. IsFiniteSet(PendingObligations)
    BY DEF CashInv, RowsFit, ClaimRowsFit
  <2> QED
    BY <2>1, <2>2, FS_Subset
<1>6. obligation' \in [Obligations -> Obligation]
  <2>1. obligation' = [p \in Obligations |-> obligation'[p]]
    BY DEF CashInv, TypeOK
  <2> QED
    BY <1>1, <1>2, <2>1
<1> QED
  BY <1>1, <1>2, <1>4, <1>5, <1>6

\* A new transfer holds its amount back where it comes from.
LEMMA TransferMade ==
    ASSUME CashInv, UNCHANGED obligation, NEW o \in Transfers, NEW row \in Transfer,
           transfer[o].state # "PENDING", row.state = "PENDING",
           transfer' = [transfer EXCEPT ![o] = row]
    PROVE  /\ \A d : ReservedOf(d)' = ReservedOf(d) + (IF d = row.source THEN row.amount ELSE 0)
           /\ IsFiniteSet(PendingTransfers)'
<1>1. /\ DOMAIN transfer = Transfers /\ DOMAIN transfer' = Transfers
      /\ transfer'[o] = row /\ \A p \in Transfers \ {o} : transfer'[p] = transfer[p]
  BY DEF CashInv, TypeOK
<1>2. row.amount \in Nat
  <2>1. Amounts \cup {0} \subseteq Nat
    BY CashAssumption
  <2> QED
    BY <2>1 DEF Transfer
<1>3. /\ AmountIn(transfer')[o] = row.amount
      /\ \A p \in Transfers \ {o} : AmountIn(transfer')[p] = AmountIn(transfer)[p]
  BY <1>1 DEF AmountIn
<1>4. ASSUME NEW d
      PROVE  ReservedOf(d)' = ReservedOf(d) + (IF d = row.source THEN row.amount ELSE 0)
  <2> DEFINE S == TransfersFrom(d)
             f == AmountIn(transfer)
             h == AmountIn(transfer')
  <2>1. o \notin S /\ S \subseteq Transfers
    BY DEF TransfersFrom
  <2>2. IsFiniteSet(S) /\ \A p \in S : f[p] \in Int /\ h[p] = f[p]
    <3>1. IsFiniteSet(S) /\ \A p \in S : f[p] \in Nat
      BY ReserveRows
    <3>2. \A p \in S : h[p] = f[p]
      BY <1>3, <2>1
    <3> HIDE DEF S, f, h
    <3> QED
      BY <3>1, <3>2
  <2>3. SumFunctionOnSet(AmountIn(obligation), ObligationsOf(d))' =
            SumFunctionOnSet(AmountIn(obligation), ObligationsOf(d))
    BY DEF ObligationsOf, AmountIn
  <2>4. /\ SumFunctionOnSet(AmountIn(obligation), ObligationsOf(d)) \in Int
        /\ SumFunctionOnSet(f, S) \in Int
    BY ReserveRows, SumType
  <2>5. CASE d = row.source
    <3>1. TransfersFrom(d)' = S \cup {o}
      BY <1>1, <2>5 DEF TransfersFrom
    <3>2. h[o] = row.amount
      BY <1>3
    <3> HIDE DEF S, f, h
    <3>3. SumFunctionOnSet(h, S \cup {o}) = SumFunctionOnSet(f, S) + row.amount
      BY <1>2, <2>1, <2>2, <3>2, SumEnters
    <3>4. SumFunctionOnSet(AmountIn(transfer), TransfersFrom(d))' = SumFunctionOnSet(f, S) + row.amount
      BY <3>1, <3>3, Zenon DEF h
    <3> QED
      BY <1>2, <2>3, <2>4, <2>5, <3>4 DEF ReservedOf, S, f
  <2>6. CASE d # row.source
    <3>1. TransfersFrom(d)' = S
      BY <1>1, <2>6 DEF TransfersFrom
    <3> HIDE DEF S, f, h
    <3>2. SumFunctionOnSet(f, S) = SumFunctionOnSet(h, S)
      BY <2>2, SumAgree
    <3>3. SumFunctionOnSet(AmountIn(transfer), TransfersFrom(d))' = SumFunctionOnSet(f, S)
      BY <3>1, <3>2, Zenon DEF h
    <3> QED
      BY <2>3, <2>4, <2>6, <3>3 DEF ReservedOf, S, f
  <2> QED
    BY <2>5, <2>6
<1>5. IsFiniteSet(PendingTransfers)'
  <2>1. PendingTransfers' = PendingTransfers \cup {o}
    BY <1>1 DEF PendingTransfers
  <2>2. IsFiniteSet(PendingTransfers)
    BY DEF CashInv, RowsFit, ClaimRowsFit
  <2> QED
    BY <2>1, <2>2, FS_AddElement
<1> QED
  BY <1>4, <1>5

\* A transfer that ends held back at most what its source did.
LEMMA TransferEnds ==
    ASSUME CashInv, UNCHANGED obligation, NEW o \in Transfers, transfer[o].state = "PENDING",
           transfer' = [transfer EXCEPT ![o].state = "DONE"]
    PROVE  /\ \A d : ReservedOf(d)' =
                        ReservedOf(d) - (IF d = transfer[o].source THEN transfer[o].amount ELSE 0)
           /\ transfer[o].amount <= ReservedOf(transfer[o].source)
           /\ IsFiniteSet(PendingTransfers)'
           /\ transfer' \in [Transfers -> Transfer]
           /\ transfer'[o].state = "DONE" /\ \A p \in Transfers \ {o} : transfer'[p] = transfer[p]
<1>1. /\ DOMAIN transfer = Transfers /\ DOMAIN transfer' = Transfers /\ transfer[o] \in Transfer
      /\ transfer'[o] = [transfer[o] EXCEPT !.state = "DONE"]
      /\ \A p \in Transfers \ {o} : transfer'[p] = transfer[p] /\ transfer[p] \in Transfer
  BY DEF CashInv, TypeOK
<1>2. transfer'[o].state = "DONE" /\ transfer'[o] \in Transfer /\ transfer[o].amount \in Nat
  <2>1. transfer'[o].state = "DONE" /\ transfer'[o] \in Transfer
    BY <1>1 DEF Transfer, Progress
  <2> QED
    BY <2>1, CashRows
<1>3. /\ AmountIn(transfer)[o] = transfer[o].amount
      /\ \A p \in Transfers \ {o} : AmountIn(transfer')[p] = AmountIn(transfer)[p]
  BY <1>1 DEF AmountIn
<1>4. ASSUME NEW d
      PROVE  /\ ReservedOf(d)' =
                   ReservedOf(d) - (IF d = transfer[o].source THEN transfer[o].amount ELSE 0)
             /\ d = transfer[o].source => transfer[o].amount <= ReservedOf(d)
  <2> DEFINE S == TransfersFrom(d)
             f == AmountIn(transfer)
             h == AmountIn(transfer')
  <2>1. S \subseteq Transfers
    BY DEF TransfersFrom
  <2>2. IsFiniteSet(S) /\ \A p \in S : f[p] \in Nat
    BY ReserveRows
  <2>3. SumFunctionOnSet(AmountIn(obligation), ObligationsOf(d))' =
            SumFunctionOnSet(AmountIn(obligation), ObligationsOf(d))
    BY DEF ObligationsOf, AmountIn
  <2>4. /\ SumFunctionOnSet(AmountIn(obligation), ObligationsOf(d)) \in Nat
        /\ SumFunctionOnSet(f, S) \in Nat
    BY ReserveRows, SumNat
  <2>5. CASE d = transfer[o].source
    <3>1. TransfersFrom(d)' = S \ {o} /\ o \in S
      BY <1>1, <1>2, <2>5 DEF TransfersFrom
    <3>2. f[o] = transfer[o].amount /\ \A p \in S \ {o} : h[p] = f[p]
      BY <1>3, <2>1
    <3> HIDE DEF S, f, h
    <3>3. SumFunctionOnSet(h, S \ {o}) = SumFunctionOnSet(f, S) - f[o]
      <4>1. \A p \in S : f[p] \in Int
        BY <2>2
      <4> QED
        BY <2>2, <3>1, <3>2, <4>1, SumLeaves
    <3>4. f[o] <= SumFunctionOnSet(f, S)
      BY <2>2, <3>1, SumCovers
    <3>5. SumFunctionOnSet(AmountIn(transfer), TransfersFrom(d))' =
              SumFunctionOnSet(f, S) - transfer[o].amount
      BY <3>1, <3>2, <3>3, Zenon DEF h
    <3> QED
      BY <1>2, <2>3, <2>4, <2>5, <3>2, <3>4, <3>5 DEF ReservedOf, S, f
  <2>6. CASE d # transfer[o].source
    <3>1. TransfersFrom(d)' = S /\ o \notin S
      BY <1>1, <1>2, <2>6 DEF TransfersFrom
    <3>2. \A p \in S : h[p] = f[p]
      BY <1>3, <2>1, <3>1
    <3> HIDE DEF S, f, h
    <3>3. SumFunctionOnSet(f, S) = SumFunctionOnSet(h, S)
      BY <2>2, <3>2, SumAgree
    <3>4. SumFunctionOnSet(AmountIn(transfer), TransfersFrom(d))' = SumFunctionOnSet(f, S)
      BY <3>1, <3>3, Zenon DEF h
    <3> QED
      BY <2>3, <2>4, <2>6, <3>4 DEF ReservedOf, S, f
  <2> QED
    BY <2>5, <2>6
<1>5. IsFiniteSet(PendingTransfers)'
  <2>1. PendingTransfers' \subseteq PendingTransfers
    BY <1>1, <1>2 DEF PendingTransfers
  <2>2. IsFiniteSet(PendingTransfers)
    BY DEF CashInv, RowsFit, ClaimRowsFit
  <2> QED
    BY <2>1, <2>2, FS_Subset
<1>6. transfer' \in [Transfers -> Transfer]
  <2>1. transfer' = [p \in Transfers |-> transfer'[p]]
    BY DEF CashInv, TypeOK
  <2> QED
    BY <1>1, <1>2, <2>1
<1> QED
  BY <1>1, <1>2, <1>4, <1>5, <1>6

\* What a drawer holds back depends on nothing else.
LEMMA ReservedStays ==
    ASSUME UNCHANGED claims, NEW d
    PROVE  ReservedOf(d)' = ReservedOf(d)
<1>1. TransfersFrom(d)' = TransfersFrom(d) /\ ObligationsOf(d)' = ObligationsOf(d)
  BY DEF claims, TransfersFrom, ObligationsOf
<1>2. AmountIn(transfer)' = AmountIn(transfer) /\ AmountIn(obligation)' = AmountIn(obligation)
  BY DEF claims, AmountIn
<1> QED
  BY <1>1, <1>2 DEF ReservedOf

LEMMA InitCashInv == Init => CashInv
<1> SUFFICES ASSUME Init PROVE CashInv
  OBVIOUS
<1> USE CashAssumption
<1>1. /\ \A s \in Shifts :
            /\ shift[s] = [owner |-> None, drawer |-> None, state |-> "NONE", work |-> "NONE",
                           late |-> FALSE]
            /\ takeover[s] = [claimant |-> None, replacement |-> None, done |-> FALSE,
                              count |-> NoCount]
            /\ handover[s] = NoHandover
      /\ \A d \in Drawers : /\ drawer[d] = [posted |-> 0, reserved |-> 0, shift |-> NoShift]
                            /\ custody[d] = NoCustody
      /\ \A t \in Transfers : transfer[t].state = "NONE"
      /\ \A o \in Obligations : obligation[o].state = "NONE"
      /\ opened = 0
  BY DEF Init
<1>2. TypeOK
  <2>1. 0 \in Cash /\ NoShift \in ShiftId /\ None \in Account
    BY DEF Cash, ShiftId, Account, NoShift
  <2>2. /\ drawer \in [Drawers -> Drawer]
        /\ custody \in [Drawers -> Custody]
    BY <2>1 DEF Init, Drawer, Custody, NoCustody
  <2>3. shift \in [Shifts -> Shift] /\ takeover \in [Shifts -> Takeover]
    BY <2>1 DEF Init, Shift, Takeover, Count, NoCount
  <2>4. handover \in [Shifts -> Handover]
    BY <2>1 DEF Init, Handover, NoHandover
  <2>5. transfer \in [Transfers -> Transfer] /\ obligation \in [Obligations -> Obligation]
    BY <2>1 DEF Init, Transfer, Obligation, Progress
  <2>6. opened \in 0 .. MaxShifts
    BY DEF Init
  <2>8. locked \in BOOLEAN /\ counted \in [Drawers -> BOOLEAN]
    BY DEF Init
  <2>7. member \in [Staff -> SUBSET Roles]
    BY DEF Init, Roles
  <2> QED
    BY <2>2, <2>3, <2>4, <2>5, <2>6, <2>7, <2>8 DEF TypeOK
<1>3. ShiftRowsFit
  BY <1>1 DEF ShiftRowsFit, Shifts
<1>4. DrawerRowsFit /\ CashHasKeeper
  BY <1>1 DEF DrawerRowsFit, CashHasKeeper
<1>5. WorkRowsFit
  BY <1>1 DEF WorkRowsFit, NoHandover, NoCount
<1>6. PendingTransfers = {} /\ PendingObligations = {}
  BY <1>1 DEF PendingTransfers, PendingObligations
<1>7. ClaimRowsFit
  BY <1>6, FS_EmptySet DEF ClaimRowsFit
<1>8. BookValid
  <2>1. \A d \in Drawers : TransfersFrom(d) = {} /\ ObligationsOf(d) = {}
    BY <1>1 DEF TransfersFrom, ObligationsOf
  <2>2. \A d \in Drawers : ReservedOf(d) = 0
    BY <2>1, SumEmpty DEF ReservedOf
  <2> QED
    BY <1>1, <2>2 DEF BookValid, Available
<1>9. LiveShiftsApart /\ WorkersMayWork /\ ClosedOwesNothing /\ TakenOverByAnother
  BY <1>1 DEF LiveShiftsApart, Live, WorkersMayWork, ClosedOwesNothing, TakenOverByAnother
<1>10. HandoverFreezesDrawer
  BY <1>1 DEF HandoverFreezesDrawer, NoHandover
<1> QED
  BY <1>2, <1>3, <1>4, <1>5, <1>7, <1>8, <1>9, <1>10 DEF CashInv, RowsFit, PromisesAreCovered

-----------------------------------------------------------------------------
(* Steps that open and close no shift.                                     *)

\* No shift begins or ends, and no drawer changes hands.
SameKeepers ==
    /\ UNCHANGED <<opened, custody>>
    /\ \A s \in Shifts :
          /\ shift'[s].owner = shift[s].owner /\ shift'[s].drawer = shift[s].drawer
          /\ \/ shift'[s].state = shift[s].state
             \/ Live(s) /\ shift'[s].state \in {"OPEN", "SUBMITTED"}
          /\ \/ shift'[s].work = shift[s].work
             \/ shift[s].work = "OPEN" /\ shift'[s].work = "BLOCKED"
          /\ takeover'[s].done = takeover[s].done
    /\ \A d \in Drawers : drawer'[d].shift = drawer[d].shift

\* A shift that was opened has a drawer, and a live one works it.
LEMMA ShiftFacts ==
    ASSUME CashInv, NEW s \in Shifts
    PROVE  /\ shift[s].state # "NONE" => /\ s <= opened /\ shift[s].owner \in Staff
                                         /\ shift[s].drawer \in Drawers
           /\ Live(s) => /\ drawer[shift[s].drawer].shift = s
                         /\ custody[shift[s].drawer] = NoCustody
           /\ shift[s].work \in {"OPEN", "BLOCKED"} => Live(s)
<1>1. s \in Nat /\ opened \in Nat /\ s # NoShift
  BY CashRows DEF Shifts, NoShift
<1>2. shift[s].state # "NONE" => s <= opened
  BY <1>1 DEF CashInv, RowsFit, ShiftRowsFit
<1>3. shift[s].state # "NONE" => shift[s].owner \in Staff /\ shift[s].drawer \in Drawers
  BY <1>2 DEF CashInv, RowsFit, ShiftRowsFit
<1>4. Live(s) => drawer[shift[s].drawer].shift = s
  BY DEF CashInv, LiveShiftsApart
<1>5. Live(s) => custody[shift[s].drawer] = NoCustody
  BY <1>1, <1>3, <1>4 DEF CashInv, CashHasKeeper, Live
<1>6. shift[s].work \in {"OPEN", "BLOCKED"} => Live(s)
  <2>1. shift[s] \in Shift
    BY CashRows
  <2>2. shift[s].state \in {"NONE", "OPEN", "SUBMITTED", "CLOSED"}
    BY <2>1 DEF Shift
  <2>3. shift[s].state = "NONE" => shift[s].work = "NONE"
    BY <1>1 DEF CashInv, RowsFit, ShiftRowsFit
  <2>4. shift[s].state = "CLOSED" => shift[s].work = "CLOSED"
    BY DEF CashInv, RowsFit, ShiftRowsFit
  <2> QED
    BY <2>2, <2>3, <2>4 DEF Live
<1> QED
  BY <1>2, <1>3, <1>4, <1>5, <1>6

LEMMA KeepersStay ==
    ASSUME CashInv, SameKeepers
    PROVE  ShiftRowsFit' /\ DrawerRowsFit' /\ LiveShiftsApart' /\ CashHasKeeper'
<1>1. \A s \in Shifts :
         /\ Live(s)' <=> Live(s)
         /\ shift'[s].state = "NONE" <=> shift[s].state = "NONE"
         /\ shift'[s].state = "CLOSED" <=> shift[s].state = "CLOSED"
  BY DEF SameKeepers, Live
<1>2. ShiftRowsFit'
  <2> SUFFICES ASSUME NEW s \in Shifts
               PROVE  /\ shift'[s].state = "NONE" <=> s > opened'
                      /\ shift'[s].work = "NONE" <=> s > opened'
                      /\ shift'[s].work = "CLOSED" <=> shift'[s].state = "CLOSED"
                      /\ s <= opened' => shift'[s].owner \in Staff /\ shift'[s].drawer \in Drawers
    BY DEF ShiftRowsFit
  <2>1. opened' = opened /\ shift'[s].owner = shift[s].owner /\ shift'[s].drawer = shift[s].drawer
    BY DEF SameKeepers
  <2>2. /\ shift'[s].work = "NONE" <=> shift[s].work = "NONE"
        /\ shift'[s].work = "CLOSED" <=> shift[s].work = "CLOSED"
    BY DEF SameKeepers
  <2> QED
    BY <1>1, <2>1, <2>2 DEF CashInv, RowsFit, ShiftRowsFit
<1>3. DrawerRowsFit'
  <2> SUFFICES ASSUME NEW d \in Drawers
               PROVE  /\ drawer'[d].shift # NoShift =>
                            /\ drawer'[d].shift <= opened'
                            /\ shift'[drawer'[d].shift].drawer = d
                      /\ drawer'[d].shift = NoShift => custody'[d] = NoCustody
    BY DEF DrawerRowsFit
  <2>1. drawer'[d].shift = drawer[d].shift /\ opened' = opened /\ custody' = custody
    BY DEF SameKeepers
  <2>2. drawer[d].shift # NoShift => drawer[d].shift \in Shifts
    BY CashRows DEF ShiftId
  <2>3. drawer[d].shift # NoShift =>
           shift'[drawer[d].shift].drawer = shift[drawer[d].shift].drawer
    BY <2>2 DEF SameKeepers
  <2> QED
    BY <2>1, <2>3 DEF CashInv, RowsFit, DrawerRowsFit
<1>4. LiveShiftsApart'
  <2>1. \A s \in Shifts : Live(s) => drawer'[shift[s].drawer].shift = s
    BY ShiftFacts DEF SameKeepers, Live
  <2>2. \A s, other \in Shifts :
           Live(s) /\ Live(other) /\ shift[s].owner = shift[other].owner => s = other
    BY DEF CashInv, LiveShiftsApart
  <2>3. \A s \in Shifts : shift'[s].owner = shift[s].owner /\ shift'[s].drawer = shift[s].drawer
    BY DEF SameKeepers
  <2> QED
    BY <1>1, <2>1, <2>2, <2>3 DEF LiveShiftsApart
<1>5. CashHasKeeper'
  <2> SUFFICES ASSUME NEW d \in Drawers, NEW s, s = drawer[d].shift, s # NoShift
               PROVE  \/ Live(s)' /\ custody'[d] = NoCustody
                      \/ /\ shift'[s].state = "CLOSED"
                         /\ custody'[d].owner # None /\ custody'[d].shift = s
                      \/ /\ shift'[s].state = "CLOSED"
                         /\ custody'[d] = NoCustody /\ takeover'[s].done
    BY DEF CashHasKeeper, SameKeepers
  <2>1. s \in Shifts
    BY CashRows DEF ShiftId
  <2>2. custody' = custody /\ takeover'[s].done = takeover[s].done
    BY <2>1 DEF SameKeepers
  <2>3. \/ Live(s) /\ custody[d] = NoCustody
        \/ shift[s].state = "CLOSED" /\ custody[d].owner # None /\ custody[d].shift = s
        \/ shift[s].state = "CLOSED" /\ custody[d] = NoCustody /\ takeover[s].done
    BY DEF CashInv, CashHasKeeper
  <2> QED
    BY <1>1, <2>1, <2>2, <2>3
<1> QED
  BY <1>2, <1>3, <1>4, <1>5

\* A drawer under handover: its shift works no more, and nothing is pending.
LEMMA Frozen ==
    ASSUME CashInv, NEW s \in Shifts, handover[s].submitted
    PROVE  /\ s <= opened /\ shift[s].drawer \in Drawers
           /\ drawer[shift[s].drawer] =
                  [posted |-> handover[s].expected, reserved |-> 0, shift |-> s]
           /\ shift[s].state \in {"SUBMITTED", "CLOSED"}
           /\ handover[s].custody <=> shift[s].state = "CLOSED"
           /\ ~Pending(s, shift[s].drawer)
           /\ ~takeover[s].count.usable
<1>1. s <= opened /\ shift[s].owner \in Staff /\ shift[s].drawer \in Drawers
  BY DEF CashInv, RowsFit, WorkRowsFit, ShiftRowsFit
<1>2. /\ drawer[shift[s].drawer] = [posted |-> handover[s].expected, reserved |-> 0, shift |-> s]
      /\ ~Pending(s, shift[s].drawer)
      /\ handover[s].custody => custody[shift[s].drawer].shift = s
      /\ shift[s].state = "SUBMITTED" <=> ~handover[s].custody
  BY DEF CashInv, HandoverFreezesDrawer
<1>3. s # NoShift /\ drawer[shift[s].drawer].shift = s
  BY <1>2 DEF Shifts, NoShift
<1>4. ASSUME handover[s].custody
      PROVE  shift[s].state = "CLOSED"
  <2>1. custody[shift[s].drawer] # NoCustody
    BY <1>2, <1>3, <1>4 DEF NoCustody
  <2> QED
    BY <1>1, <1>3, <2>1 DEF CashInv, CashHasKeeper
<1>5. handover[s].custody \in BOOLEAN
  BY CashRows DEF Handover
<1>6. shift[s].state \in {"SUBMITTED", "CLOSED"}
  BY <1>2, <1>4, <1>5
<1>7. ~takeover[s].count.usable
  BY <1>6 DEF CashInv, RowsFit, WorkRowsFit, TakenOverByAnother
<1> QED
  BY <1>1, <1>2, <1>4, <1>5, <1>6, <1>7

\* No money moves, no shift changes its state and no handover begins or ends:
\* members, the subscription, and who counts or takes over what.
QuietStep ==
    /\ UNCHANGED <<opened, custody, drawer, claims>>
    /\ \A s \in Shifts :
          /\ shift'[s].owner = shift[s].owner /\ shift'[s].drawer = shift[s].drawer
          /\ shift'[s].state = shift[s].state
          /\ \/ shift'[s].work = shift[s].work
             \/ shift[s].work = "OPEN" /\ shift'[s].work = "BLOCKED"
          /\ shift'[s].work = "OPEN" => Receptionist(shift[s].owner)'
          /\ handover'[s].submitted = handover[s].submitted
          /\ handover'[s].custody = handover[s].custody
          /\ handover'[s].expected = handover[s].expected
          /\ takeover'[s].done = takeover[s].done
          /\ takeover'[s].replacement = None <=> takeover[s].replacement = None
          /\ \/ takeover'[s].replacement = takeover[s].replacement
             \/ takeover'[s].replacement # shift[s].owner
          /\ \/ ~takeover'[s].count.usable
             \/ takeover[s].count.usable
             \/ /\ takeover[s].replacement # None /\ ~takeover[s].done
                /\ counted'[shift[s].drawer]
    /\ \A d \in Drawers : counted[d] => counted'[d]

LEMMA QuietKeeps ==
    ASSUME CashInv, TypeOK', QuietStep
    PROVE  CashInv'
<1>1. SameKeepers
  BY DEF QuietStep, SameKeepers
<1>2. ShiftRowsFit' /\ DrawerRowsFit' /\ LiveShiftsApart' /\ CashHasKeeper'
  BY <1>1, KeepersStay
<1>3. WorkRowsFit'
  <2> SUFFICES ASSUME NEW s \in Shifts
               PROVE  /\ handover'[s].submitted => s <= opened' /\ counted'[shift'[s].drawer]
                      /\ takeover'[s].replacement # None => s <= opened'
                      /\ takeover'[s].done => shift'[s].state = "CLOSED"
                      /\ takeover'[s].count.usable =>
                            /\ takeover'[s].replacement # None /\ ~takeover'[s].done
                            /\ counted'[shift'[s].drawer]
    BY DEF WorkRowsFit
  <2>1. opened' = opened /\ shift'[s].drawer = shift[s].drawer /\ shift'[s].state = shift[s].state
    BY DEF QuietStep
  <2>2. /\ handover[s].submitted => s <= opened /\ counted[shift[s].drawer]
        /\ takeover[s].replacement # None => s <= opened
        /\ takeover[s].done => shift[s].state = "CLOSED"
        /\ takeover[s].count.usable =>
              takeover[s].replacement # None /\ ~takeover[s].done /\ counted[shift[s].drawer]
    BY DEF CashInv, RowsFit, WorkRowsFit
  <2>3. s <= opened => shift[s].drawer \in Drawers
    BY DEF CashInv, RowsFit, ShiftRowsFit
  <2>4. s <= opened /\ counted[shift[s].drawer] => counted'[shift[s].drawer]
    BY <2>3 DEF QuietStep
  <2>5. /\ handover'[s].submitted = handover[s].submitted
        /\ takeover'[s].done = takeover[s].done
        /\ takeover'[s].replacement = None <=> takeover[s].replacement = None
        /\ \/ ~takeover'[s].count.usable
           \/ takeover[s].count.usable
           \/ /\ takeover[s].replacement # None /\ ~takeover[s].done
              /\ counted'[shift[s].drawer]
    BY DEF QuietStep
  <2> QED
    BY <2>1, <2>2, <2>4, <2>5
<1>4. ClaimRowsFit'
  <2>1. PendingTransfers' = PendingTransfers /\ PendingObligations' = PendingObligations
    BY DEF QuietStep, claims, PendingTransfers, PendingObligations
  <2>2. /\ transfer' = transfer /\ obligation' = obligation /\ opened' = opened
        /\ \A s \in Shifts : shift'[s].drawer = shift[s].drawer
    BY DEF QuietStep, claims
  <2> QED
    BY <2>1, <2>2 DEF CashInv, RowsFit, ClaimRowsFit
<1>5. WorkersMayWork'
  <2>1. \A s \in Shifts : Live(s)' <=> Live(s)
    BY DEF QuietStep, Live
  <2>2. \A s \in Shifts : shift'[s].work = "OPEN" =>
           shift[s].work = "OPEN" /\ shift'[s].owner = shift[s].owner
           /\ Receptionist(shift[s].owner)'
    BY DEF QuietStep
  <2> QED
    BY <2>1, <2>2 DEF CashInv, WorkersMayWork, Receptionist
<1>6. PromisesAreCovered'
  <2>1. \A d \in Drawers : ReservedOf(d)' = ReservedOf(d)
    BY ReservedStays DEF QuietStep
  <2> QED
    BY <2>1 DEF QuietStep, claims, CashInv, PromisesAreCovered, BookValid, Available
<1>7. ClosedOwesNothing'
  BY DEF QuietStep, claims, CashInv, ClosedOwesNothing
<1>8. HandoverFreezesDrawer'
  BY DEF QuietStep, claims, CashInv, HandoverFreezesDrawer, Pending
<1>9. TakenOverByAnother'
  <2> SUFFICES ASSUME NEW s \in Shifts, takeover'[s].replacement # None, ~takeover'[s].done
               PROVE  /\ shift'[s].state = "OPEN" /\ shift'[s].work = "BLOCKED"
                      /\ takeover'[s].replacement # shift'[s].owner
    BY DEF TakenOverByAnother
  <2>1. takeover[s].replacement # None /\ ~takeover[s].done
    BY DEF QuietStep
  <2>2. /\ shift[s].state = "OPEN" /\ shift[s].work = "BLOCKED"
        /\ takeover[s].replacement # shift[s].owner
    BY <2>1 DEF CashInv, TakenOverByAnother
  <2> QED
    BY <2>2 DEF QuietStep
<1> QED
  BY <1>2, <1>3, <1>4, <1>5, <1>6, <1>7, <1>8, <1>9 DEF CashInv, RowsFit

-----------------------------------------------------------------------------
(* Steps that move or promise money.                                       *)

\* Cash moves, or is promised, or a promise ends; a drawer under handover is
\* left alone, and what is new is promised in a shift that is worked.
MoneyStep ==
    /\ UNCHANGED <<people, keepers, handover>>
    /\ \A d \in Drawers :
          /\ drawer'[d].shift = drawer[d].shift
          /\ drawer'[d].reserved = ReservedOf(d)' /\ Available(d)' >= 0
    /\ \A s \in Shifts :
          /\ handover[s].submitted =>
                /\ drawer'[shift[s].drawer] = drawer[shift[s].drawer]
                /\ counted'[shift[s].drawer] = counted[shift[s].drawer]
          /\ takeover'[s].done = takeover[s].done
          /\ takeover'[s].replacement = takeover[s].replacement
    /\ \/ \A s \in Shifts : ~takeover'[s].count.usable
       \/ UNCHANGED <<takeover, counted>>
    /\ IsFiniteSet(PendingTransfers)' /\ IsFiniteSet(PendingObligations)'
    /\ \A o \in Obligations : obligation'[o].state = "PENDING" =>
          \/ /\ obligation[o].state = "PENDING"
             /\ obligation'[o].drawer = obligation[o].drawer
             /\ obligation'[o].shift = obligation[o].shift
             /\ obligation'[o].amount = obligation[o].amount
          \/ /\ obligation'[o].shift \in Shifts
             /\ shift[obligation'[o].shift].state = "OPEN"
             /\ obligation'[o].drawer = shift[obligation'[o].shift].drawer
    /\ \A t \in Transfers : transfer'[t].state = "PENDING" =>
          \/ /\ transfer[t].state = "PENDING"
             /\ transfer'[t].source = transfer[t].source
             /\ transfer'[t].dest = transfer[t].dest
             /\ transfer'[t].sourceShift = transfer[t].sourceShift
             /\ transfer'[t].destShift = transfer[t].destShift
          \/ /\ transfer'[t].source \in Drawers /\ transfer'[t].dest \in Drawers
             /\ transfer'[t].source # transfer'[t].dest
             /\ ~Blocked(transfer'[t].source) /\ ~Blocked(transfer'[t].dest)
             /\ transfer'[t].sourceShift = drawer[transfer'[t].source].shift
             /\ transfer'[t].destShift = drawer[transfer'[t].dest].shift

LEMMA MoneyKeepsClaims ==
    ASSUME CashInv, MoneyStep
    PROVE  ClaimRowsFit' /\ PromisesAreCovered' /\ ClosedOwesNothing'
<1>1. /\ shift' = shift /\ opened' = opened
      /\ \A d \in Drawers : drawer'[d].shift = drawer[d].shift
  BY DEF MoneyStep, keepers
<1>2. ASSUME NEW o \in Obligations, obligation'[o].state = "PENDING"
      PROVE  /\ obligation'[o].shift \in Shifts /\ obligation'[o].shift <= opened
             /\ obligation'[o].drawer = shift[obligation'[o].shift].drawer
             /\ shift[obligation'[o].shift].state # "CLOSED"
             /\ obligation'[o].amount > 0 =>
                   drawer[obligation'[o].drawer].shift = obligation'[o].shift
  <2>1. CASE /\ obligation[o].state = "PENDING"
             /\ obligation'[o].drawer = obligation[o].drawer
             /\ obligation'[o].shift = obligation[o].shift
             /\ obligation'[o].amount = obligation[o].amount
    <3>1. /\ obligation[o].shift \in Shifts /\ obligation[o].shift <= opened
          /\ obligation[o].drawer = shift[obligation[o].shift].drawer
      BY <2>1 DEF CashInv, RowsFit, ClaimRowsFit, PendingObligations
    <3>2. shift[obligation[o].shift].state # "CLOSED"
      BY <2>1, <3>1 DEF CashInv, ClosedOwesNothing
    <3>3. obligation[o].amount > 0 => drawer[obligation[o].drawer].shift = obligation[o].shift
      BY <2>1 DEF CashInv, PromisesAreCovered, BookValid
    <3> QED
      BY <2>1, <3>1, <3>2, <3>3
  <2>2. CASE /\ obligation'[o].shift \in Shifts
             /\ shift[obligation'[o].shift].state = "OPEN"
             /\ obligation'[o].drawer = shift[obligation'[o].shift].drawer
    BY <2>2, ShiftFacts DEF Live
  <2> QED
    BY <1>2, <2>1, <2>2 DEF MoneyStep
<1>3. ASSUME NEW t \in Transfers, transfer'[t].state = "PENDING"
      PROVE  /\ transfer'[t].source \in Drawers /\ transfer'[t].dest \in Drawers
             /\ transfer'[t].source # transfer'[t].dest
             /\ drawer[transfer'[t].source].shift = transfer'[t].sourceShift
             /\ drawer[transfer'[t].dest].shift = transfer'[t].destShift
             /\ \A s \in Shifts : shift[s].state = "CLOSED" =>
                   s # transfer'[t].sourceShift /\ s # transfer'[t].destShift
  <2>1. CASE /\ transfer[t].state = "PENDING"
             /\ transfer'[t].source = transfer[t].source
             /\ transfer'[t].dest = transfer[t].dest
             /\ transfer'[t].sourceShift = transfer[t].sourceShift
             /\ transfer'[t].destShift = transfer[t].destShift
    <3>1. /\ transfer[t].source \in Drawers /\ transfer[t].dest \in Drawers
          /\ transfer[t].source # transfer[t].dest
      BY <2>1 DEF CashInv, RowsFit, ClaimRowsFit, PendingTransfers
    <3>2. /\ drawer[transfer[t].source].shift = transfer[t].sourceShift
          /\ drawer[transfer[t].dest].shift = transfer[t].destShift
      BY <2>1 DEF CashInv, PromisesAreCovered, BookValid
    <3>3. \A s \in Shifts : shift[s].state = "CLOSED" =>
             s # transfer[t].sourceShift /\ s # transfer[t].destShift
      BY <2>1 DEF CashInv, ClosedOwesNothing
    <3> QED
      BY <2>1, <3>1, <3>2, <3>3
  <2>2. CASE /\ transfer'[t].source \in Drawers /\ transfer'[t].dest \in Drawers
             /\ transfer'[t].source # transfer'[t].dest
             /\ ~Blocked(transfer'[t].source) /\ ~Blocked(transfer'[t].dest)
             /\ transfer'[t].sourceShift = drawer[transfer'[t].source].shift
             /\ transfer'[t].destShift = drawer[transfer'[t].dest].shift
    <3>1. \A s \in Shifts : s # NoShift
      BY DEF Shifts, NoShift
    <3> QED
      BY <2>2, <3>1 DEF Blocked
  <2> QED
    BY <1>3, <2>1, <2>2 DEF MoneyStep
<1>4. ClaimRowsFit'
  <2>1. IsFiniteSet(PendingTransfers)' /\ IsFiniteSet(PendingObligations)'
    BY DEF MoneyStep
  <2> QED
    BY <1>1, <1>2, <1>3, <2>1 DEF ClaimRowsFit, PendingTransfers, PendingObligations
<1>5. PromisesAreCovered'
  <2>1. \A d \in Drawers : drawer'[d].reserved = ReservedOf(d)' /\ Available(d)' >= 0
    BY DEF MoneyStep
  <2>2. \A t \in Transfers : transfer'[t].state = "PENDING" =>
           /\ drawer'[transfer'[t].source].shift = transfer'[t].sourceShift
           /\ drawer'[transfer'[t].dest].shift = transfer'[t].destShift
    BY <1>1, <1>3
  <2>3. \A o \in Obligations : obligation'[o].state = "PENDING" /\ obligation'[o].amount > 0 =>
           drawer'[obligation'[o].drawer].shift = obligation'[o].shift
    <3> SUFFICES ASSUME NEW o \in Obligations, obligation'[o].state = "PENDING",
                        obligation'[o].amount > 0
                 PROVE  drawer'[obligation'[o].drawer].shift = obligation'[o].shift
      OBVIOUS
    <3>1. obligation'[o].drawer \in Drawers
      BY <1>2 DEF CashInv, RowsFit, ShiftRowsFit
    <3> QED
      BY <1>1, <1>2, <3>1
  <2> QED
    BY <2>1, <2>2, <2>3 DEF PromisesAreCovered, BookValid
<1>6. ClosedOwesNothing'
  BY <1>1, <1>2, <1>3 DEF ClosedOwesNothing
<1> QED
  BY <1>4, <1>5, <1>6

LEMMA MoneyKeeps ==
    ASSUME CashInv, TypeOK', MoneyStep
    PROVE  CashInv'
<1>1. /\ shift' = shift /\ opened' = opened /\ custody' = custody /\ handover' = handover
      /\ member' = member
  BY DEF MoneyStep, keepers, people
<1>2. \A s \in Shifts : /\ takeover'[s].done = takeover[s].done
                        /\ takeover'[s].replacement = takeover[s].replacement
  BY DEF MoneyStep
<1>3. SameKeepers
  BY <1>1, <1>2 DEF SameKeepers, MoneyStep
<1>4. ShiftRowsFit' /\ DrawerRowsFit' /\ LiveShiftsApart' /\ CashHasKeeper'
  BY <1>3, KeepersStay
<1>5. ClaimRowsFit' /\ PromisesAreCovered' /\ ClosedOwesNothing'
  BY MoneyKeepsClaims
<1>6. WorkRowsFit'
  <2>1. \A s \in Shifts : handover[s].submitted => s <= opened /\ counted'[shift[s].drawer]
    BY DEF MoneyStep, CashInv, RowsFit, WorkRowsFit
  <2>2. \A s \in Shifts : takeover'[s].count.usable =>
           takeover[s].replacement # None /\ ~takeover[s].done /\ counted'[shift[s].drawer]
    BY DEF MoneyStep, CashInv, RowsFit, WorkRowsFit
  <2>3. \A s \in Shifts : /\ takeover[s].replacement # None => s <= opened
                          /\ takeover[s].done => shift[s].state = "CLOSED"
    BY DEF CashInv, RowsFit, WorkRowsFit
  <2> QED
    BY <1>1, <1>2, <2>1, <2>2, <2>3 DEF WorkRowsFit
<1>7. WorkersMayWork' /\ TakenOverByAnother'
  BY <1>1, <1>2 DEF CashInv, WorkersMayWork, Live, Receptionist, TakenOverByAnother
<1>8. HandoverFreezesDrawer'
  <2> SUFFICES ASSUME NEW s \in Shifts
               PROVE  /\ shift[s].state = "SUBMITTED" <=> handover[s].submitted /\ ~handover[s].custody
                      /\ handover[s].submitted =>
                            /\ drawer'[shift[s].drawer] =
                                  [posted |-> handover[s].expected, reserved |-> 0, shift |-> s]
                            /\ ~Pending(s, shift[s].drawer)'
                            /\ handover[s].custody => custody[shift[s].drawer].shift = s
    BY <1>1 DEF HandoverFreezesDrawer
  <2>1. /\ shift[s].state = "SUBMITTED" <=> handover[s].submitted /\ ~handover[s].custody
        /\ handover[s].submitted /\ handover[s].custody => custody[shift[s].drawer].shift = s
    BY DEF CashInv, HandoverFreezesDrawer
  <2>2. ASSUME handover[s].submitted
        PROVE  /\ drawer'[shift[s].drawer] =
                     [posted |-> handover[s].expected, reserved |-> 0, shift |-> s]
               /\ ~Pending(s, shift[s].drawer)'
    <3>1. /\ shift[s].drawer \in Drawers /\ s # NoShift
          /\ drawer[shift[s].drawer] =
                [posted |-> handover[s].expected, reserved |-> 0, shift |-> s]
          /\ shift[s].state # "OPEN"
          /\ ~Pending(s, shift[s].drawer)
      BY <2>2, Frozen DEF Shifts, NoShift
    <3>2. drawer'[shift[s].drawer] = drawer[shift[s].drawer]
      BY <2>2 DEF MoneyStep
    <3>3. Blocked(shift[s].drawer)
      BY <3>1 DEF Blocked
    <3>4. \A o \in Obligations : obligation'[o].state = "PENDING" => obligation'[o].shift # s
      BY <3>1 DEF MoneyStep, Pending
    <3>5. \A t \in Transfers : transfer'[t].state = "PENDING" =>
             shift[s].drawer \notin {transfer'[t].source, transfer'[t].dest}
      BY <3>1, <3>3 DEF MoneyStep, Pending
    <3> QED
      BY <1>1, <3>1, <3>2, <3>4, <3>5 DEF Pending
  <2> QED
    BY <2>1, <2>2
<1> QED
  BY <1>4, <1>5, <1>6, <1>7, <1>8 DEF CashInv, RowsFit

-----------------------------------------------------------------------------
(* Steps that begin or end a handover or a takeover.                       *)

\* The handover of shift s begins or is returned, or its takeover begins.
HandoverStep(s) ==
    LET d == shift[s].drawer IN
    /\ s \in Shifts /\ s <= opened /\ drawer[d].shift = s
    /\ UNCHANGED <<people, drawer, claims>>
    /\ SameKeepers
    /\ \A q \in Shifts \ {s} :
          /\ shift'[q] = shift[q] /\ handover'[q] = handover[q] /\ takeover'[q] = takeover[q]
    /\ \A e \in Drawers \ {d} : counted'[e] = counted[e]
    /\ shift'[s].work = shift[s].work
    /\ shift'[s].state = "SUBMITTED" <=> handover'[s].submitted /\ ~handover'[s].custody
    /\ handover'[s].submitted =>
          /\ drawer[d] = [posted |-> handover'[s].expected, reserved |-> 0, shift |-> s]
          /\ ~Pending(s, d) /\ counted'[d]
          /\ handover'[s].custody => custody[d].shift = s
    /\ takeover'[s].count.usable =>
          /\ takeover'[s].replacement # None /\ ~takeover'[s].done
          /\ counted'[d]
    /\ takeover'[s].replacement # None /\ ~takeover'[s].done =>
          /\ shift'[s].state = "OPEN" /\ shift'[s].work = "BLOCKED"
          /\ takeover'[s].replacement # shift[s].owner

LEMMA HandoverStepKeeps ==
    ASSUME CashInv, TypeOK', NEW s, HandoverStep(s)
    PROVE  CashInv'
<1> DEFINE d == shift[s].drawer
<1>1. /\ s \in Shifts /\ s <= opened /\ drawer[d].shift = s /\ SameKeepers
      /\ member' = member /\ drawer' = drawer /\ transfer' = transfer /\ obligation' = obligation
      /\ opened' = opened /\ custody' = custody
  BY DEF HandoverStep, SameKeepers, people, claims
<1>2. ShiftRowsFit' /\ DrawerRowsFit' /\ LiveShiftsApart' /\ CashHasKeeper'
  BY <1>1, KeepersStay
<1>3. \A q \in Shifts : /\ shift'[q].owner = shift[q].owner /\ shift'[q].drawer = shift[q].drawer
                        /\ Live(q)' <=> Live(q)
                        /\ shift'[q].state = "CLOSED" <=> shift[q].state = "CLOSED"
                        /\ shift'[q].work = shift[q].work
                        /\ takeover'[q].done = takeover[q].done
  <2>1. \A q \in Shifts : shift'[q].work = shift[q].work
    BY DEF HandoverStep
  <2> QED
    BY <1>1, <2>1 DEF SameKeepers, Live
<1>4. ASSUME NEW q \in Shifts \ {s}, handover[q].submitted \/ takeover[q].count.usable
      PROVE  shift[q].drawer \in Drawers \ {d}
  <2>1. drawer[shift[q].drawer].shift = q /\ shift[q].drawer \in Drawers
    <3>1. CASE handover[q].submitted
      <4>1. /\ shift[q].drawer \in Drawers
            /\ drawer[shift[q].drawer] =
                  [posted |-> handover[q].expected, reserved |-> 0, shift |-> q]
        BY <3>1, Frozen
      <4> QED
        BY <4>1
    <3>2. CASE takeover[q].count.usable
      BY <3>2, ShiftFacts DEF CashInv, RowsFit, WorkRowsFit, TakenOverByAnother, Live
    <3> QED
      BY <1>4, <3>1, <3>2
  <2>2. q # s
    OBVIOUS
  <2> QED
    BY <1>1, <2>1, <2>2
<1>5. WorkRowsFit'
  <2> SUFFICES ASSUME NEW q \in Shifts
               PROVE  /\ handover'[q].submitted => q <= opened /\ counted'[shift[q].drawer]
                      /\ takeover'[q].replacement # None => q <= opened
                      /\ takeover'[q].done => shift'[q].state = "CLOSED"
                      /\ takeover'[q].count.usable =>
                            /\ takeover'[q].replacement # None /\ ~takeover'[q].done
                            /\ counted'[shift[q].drawer]
    BY <1>1, <1>3 DEF WorkRowsFit
  <2>1. takeover'[q].done => shift'[q].state = "CLOSED"
    BY <1>3 DEF CashInv, RowsFit, WorkRowsFit
  <2>2. CASE q = s
    BY <1>1, <2>1, <2>2 DEF HandoverStep
  <2>3. CASE q # s
    <3>1. q \in Shifts \ {s}
      BY <2>3
    <3>2. handover'[q] = handover[q] /\ takeover'[q] = takeover[q]
      BY <3>1 DEF HandoverStep
    <3>3. handover[q].submitted \/ takeover[q].count.usable =>
             counted'[shift[q].drawer] = counted[shift[q].drawer]
      BY <1>4, <3>1 DEF HandoverStep
    <3> QED
      BY <2>1, <3>2, <3>3 DEF CashInv, RowsFit, WorkRowsFit
  <2> QED
    BY <2>2, <2>3
<1>6. ClaimRowsFit'
  <2>1. PendingTransfers' = PendingTransfers /\ PendingObligations' = PendingObligations
    BY <1>1 DEF PendingTransfers, PendingObligations
  <2> QED
    BY <1>1, <1>3, <2>1 DEF CashInv, RowsFit, ClaimRowsFit
<1>7. WorkersMayWork'
  BY <1>1, <1>3 DEF CashInv, WorkersMayWork, Receptionist
<1>8. PromisesAreCovered'
  <2>1. \A e \in Drawers : ReservedOf(e)' = ReservedOf(e)
    BY ReservedStays DEF HandoverStep
  <2> QED
    BY <1>1, <2>1 DEF CashInv, PromisesAreCovered, BookValid, Available
<1>9. ClosedOwesNothing'
  BY <1>1, <1>3 DEF CashInv, ClosedOwesNothing
<1>10. HandoverFreezesDrawer'
  <2> SUFFICES ASSUME NEW q \in Shifts
               PROVE  /\ shift'[q].state = "SUBMITTED" <=> handover'[q].submitted /\ ~handover'[q].custody
                      /\ handover'[q].submitted =>
                            /\ drawer[shift[q].drawer] =
                                  [posted |-> handover'[q].expected, reserved |-> 0, shift |-> q]
                            /\ ~Pending(q, shift[q].drawer)
                            /\ handover'[q].custody => custody[shift[q].drawer].shift = q
    <3>1. \A q \in Shifts : Pending(q, shift[q].drawer)' <=> Pending(q, shift[q].drawer)
      BY <1>1, <1>3 DEF Pending
    <3>2. \A q \in Shifts : shift'[q].drawer = shift[q].drawer
      BY <1>3
    <3> QED
      BY <1>1, <3>1, <3>2 DEF HandoverFreezesDrawer
  <2>1. CASE q = s
    BY <2>1 DEF HandoverStep
  <2>2. CASE q # s
    <3>1. shift'[q] = shift[q] /\ handover'[q] = handover[q]
      BY <2>2 DEF HandoverStep
    <3> QED
      BY <3>1 DEF CashInv, HandoverFreezesDrawer
  <2> QED
    BY <2>1, <2>2
<1>11. TakenOverByAnother'
  <2> SUFFICES ASSUME NEW q \in Shifts, takeover'[q].replacement # None, ~takeover'[q].done
               PROVE  /\ shift'[q].state = "OPEN" /\ shift'[q].work = "BLOCKED"
                      /\ takeover'[q].replacement # shift'[q].owner
    BY DEF TakenOverByAnother
  <2>1. CASE q = s
    BY <1>3, <2>1 DEF HandoverStep
  <2>2. CASE q # s
    <3>1. shift'[q] = shift[q] /\ takeover'[q] = takeover[q]
      BY <2>2 DEF HandoverStep
    <3> QED
      BY <3>1 DEF CashInv, TakenOverByAnother
  <2> QED
    BY <2>1, <2>2
<1> QED
  BY <1>2, <1>5, <1>6, <1>7, <1>8, <1>9, <1>10, <1>11 DEF CashInv, RowsFit

-----------------------------------------------------------------------------
(* Steps in which a drawer gets its next keeper.                           *)

\* Account a becomes the keeper of drawer d, whose shift s ends (or had ended,
\* or never was): by a shift of its own, by custody, or, if a takeover closed s
\* for a locked hotel, not at all.
KeeperChange(s, d, a) ==
    LET n == opened + 1 IN
    /\ d \in Drawers /\ a \in Staff /\ s = drawer[d].shift
    /\ UNCHANGED <<people, claims>>
    /\ drawer[d].reserved = 0
    /\ \A o \in PendingObligations : obligation[o].shift # s
    /\ \A t \in PendingTransfers : d \notin {transfer[t].source, transfer[t].dest}
    /\ s = NoShift => Continues(a)
    /\ opened' = IF Continues(a) THEN n ELSE opened
    /\ Continues(a) =>
          /\ opened < MaxShifts /\ shift'[n] = NewShift(a, d)
          /\ \A q \in Shifts \ {s} : ~(Live(q) /\ shift[q].owner = a)
    /\ s # NoShift =>
          /\ shift'[s].state = "CLOSED" /\ shift'[s].work = "CLOSED"
          /\ shift'[s].owner = shift[s].owner /\ shift'[s].drawer = shift[s].drawer
          /\ ~handover'[s].submitted
          /\ takeover'[s].replacement = None \/ takeover'[s].done
    /\ \A q \in Shifts \ {s} :
          /\ ~(Continues(a) /\ q = n) => shift'[q] = shift[q]
          /\ handover'[q] = handover[q] /\ takeover'[q].done = takeover[q].done
    /\ \A q \in Shifts : /\ takeover'[q].replacement = takeover[q].replacement
                         /\ ~takeover'[q].count.usable
    /\ drawer'[d].shift = IF Continues(a) THEN n ELSE s
    /\ drawer'[d].reserved = 0 /\ drawer'[d].posted \in Cash
    /\ \/ custody'[d] = CustodyAfter(s, d, a)
       \/ s # NoShift /\ custody'[d] = NoCustody /\ takeover'[s].done
    /\ \A e \in Drawers \ {d} :
          drawer'[e] = drawer[e] /\ custody'[e] = custody[e] /\ counted'[e] = counted[e]

\* The shift that ends and the one that begins, among the others.
LEMMA KeeperChangeFacts ==
    ASSUME CashInv, NEW s, NEW d, NEW a, KeeperChange(s, d, a)
    PROVE  /\ s \in ShiftId /\ opened \in Nat /\ opened' \in Nat /\ opened <= opened'
           /\ s # NoShift => s \in Shifts /\ s <= opened /\ shift[s].drawer = d
           /\ Continues(a) => /\ opened + 1 \in Shifts /\ opened' = opened + 1
                              /\ shift[opened + 1].state = "NONE"
           /\ ~Continues(a) => opened' = opened /\ s \in Shifts
           /\ s # opened + 1 /\ opened + 1 # NoShift
           /\ \A q \in Shifts \ {s} : q <= opened => shift'[q] = shift[q]
           /\ \A q \in Shifts \ {s} : q # opened + 1 => shift'[q] = shift[q]
           /\ \A q \in Shifts : q <= opened => shift'[q].owner = shift[q].owner
                                               /\ shift'[q].drawer = shift[q].drawer
           /\ \A q \in Shifts \ {s} : shift[q].drawer \in Drawers /\ drawer[shift[q].drawer].shift = q
                                         => shift[q].drawer \in Drawers \ {d}
<1>1. /\ d \in Drawers /\ s = drawer[d].shift
      /\ s = NoShift => Continues(a)
      /\ opened' = IF Continues(a) THEN opened + 1 ELSE opened
      /\ Continues(a) => opened < MaxShifts
  BY DEF KeeperChange
<1>2. s \in ShiftId /\ opened \in Nat /\ MaxShifts \in Nat
  BY <1>1, CashRows
<1>3. s # NoShift => s \in Shifts /\ s <= opened /\ shift[s].drawer = d
  BY <1>1, <1>2 DEF ShiftId, CashInv, RowsFit, DrawerRowsFit
<1>4. s # opened + 1 /\ opened + 1 # NoShift
  BY <1>2, <1>3 DEF NoShift, Shifts
<1>5. Continues(a) => opened + 1 \in Shifts /\ opened' = opened + 1
  BY <1>1, <1>2 DEF Shifts
<1>6. Continues(a) => shift[opened + 1].state = "NONE"
  BY <1>2, <1>5 DEF CashInv, RowsFit, ShiftRowsFit
<1>7. ~Continues(a) => opened' = opened /\ s \in Shifts
  BY <1>1, <1>3
<1>8. \A q \in Shifts \ {s} : q # opened + 1 => shift'[q] = shift[q]
  BY DEF KeeperChange
<1>9. \A q \in Shifts : q <= opened => q # opened + 1
  BY <1>2 DEF Shifts
<1>10. \A q \in Shifts \ {s} : q <= opened => shift'[q] = shift[q]
  BY <1>8, <1>9
<1>11. s \in Shifts => shift'[s].owner = shift[s].owner /\ shift'[s].drawer = shift[s].drawer
  BY DEF KeeperChange, Shifts, NoShift
<1>12. \A q \in Shifts : q <= opened => shift'[q].owner = shift[q].owner
                                        /\ shift'[q].drawer = shift[q].drawer
  BY <1>10, <1>11
<1>13. opened' \in Nat /\ opened <= opened'
  BY <1>1, <1>2
<1> QED
  BY <1>1, <1>2, <1>3, <1>4, <1>5, <1>6, <1>7, <1>8, <1>10, <1>12, <1>13

LEMMA KeeperChangeShifts ==
    ASSUME CashInv, NEW s, NEW d, NEW a, KeeperChange(s, d, a)
    PROVE  ShiftRowsFit' /\ DrawerRowsFit' /\ LiveShiftsApart' /\ WorkersMayWork' /\ CashHasKeeper'
<1> DEFINE n == opened + 1
<1>1. /\ s \in ShiftId /\ opened \in Nat /\ opened' \in Nat /\ opened <= opened'
      /\ s # NoShift => s \in Shifts /\ s <= opened /\ shift[s].drawer = d
      /\ Continues(a) => n \in Shifts /\ opened' = n /\ shift[n].state = "NONE"
      /\ ~Continues(a) => opened' = opened /\ s \in Shifts
      /\ s # n /\ n # NoShift
  BY KeeperChangeFacts
<1>2. /\ d \in Drawers /\ a \in Staff /\ s = drawer[d].shift
      /\ member' = member
      /\ drawer'[d].shift = IF Continues(a) THEN n ELSE s
      /\ Continues(a) =>
            /\ shift'[n] = NewShift(a, d)
            /\ \A q \in Shifts \ {s} : ~(Live(q) /\ shift[q].owner = a)
      /\ s # NoShift =>
            /\ shift'[s].state = "CLOSED" /\ shift'[s].work = "CLOSED"
            /\ shift'[s].owner = shift[s].owner /\ shift'[s].drawer = shift[s].drawer
      /\ \A e \in Drawers \ {d} : drawer'[e] = drawer[e] /\ custody'[e] = custody[e]
      /\ \A q \in Shifts \ {s} : takeover'[q].done = takeover[q].done
  BY DEF KeeperChange, people
<1>3. Continues(a) => /\ shift'[n].owner = a /\ shift'[n].drawer = d
                      /\ shift'[n].state = "OPEN" /\ shift'[n].work = "OPEN"
  BY <1>2 DEF NewShift
<1>4. ASSUME NEW q \in Shifts \ {s}, ~(Continues(a) /\ q = n)
      PROVE  shift'[q] = shift[q]
  BY <1>4 DEF KeeperChange
<1>5. \A q \in Shifts : q \in Nat /\ q # NoShift
  BY DEF Shifts, NoShift
<1>6. ShiftRowsFit'
  <2> SUFFICES ASSUME NEW q \in Shifts
               PROVE  /\ shift'[q].state = "NONE" <=> q > opened'
                      /\ shift'[q].work = "NONE" <=> q > opened'
                      /\ shift'[q].work = "CLOSED" <=> shift'[q].state = "CLOSED"
                      /\ q <= opened' => shift'[q].owner \in Staff /\ shift'[q].drawer \in Drawers
    BY DEF ShiftRowsFit
  <2>1. CASE Continues(a) /\ q = n
    BY <1>1, <1>2, <1>3, <2>1
  <2>2. CASE q = s
    BY <1>1, <1>2, <1>5, <2>2 DEF CashInv, RowsFit, ShiftRowsFit
  <2>3. CASE q # s /\ ~(Continues(a) /\ q = n)
    <3>1. shift'[q] = shift[q]
      BY <1>4, <2>3
    <3>2. q > opened' <=> q > opened
      BY <1>1, <1>5, <2>3
    <3>3. q <= opened' <=> q <= opened
      BY <1>1, <1>5, <2>3
    <3> QED
      BY <3>1, <3>2, <3>3 DEF CashInv, RowsFit, ShiftRowsFit
  <2> QED
    BY <2>1, <2>2, <2>3
<1>7. DrawerRowsFit'
  <2> SUFFICES ASSUME NEW e \in Drawers
               PROVE  /\ drawer'[e].shift # NoShift =>
                            /\ drawer'[e].shift <= opened'
                            /\ shift'[drawer'[e].shift].drawer = e
                      /\ drawer'[e].shift = NoShift => custody'[e] = NoCustody
    BY DEF DrawerRowsFit
  <2>1. CASE e = d
    BY <1>1, <1>2, <1>3, <1>5, <2>1
  <2>2. CASE e # d
    <3>1. drawer'[e] = drawer[e] /\ custody'[e] = custody[e]
      BY <1>2, <2>2
    <3>2. CASE drawer[e].shift = NoShift
      BY <3>1, <3>2 DEF CashInv, RowsFit, DrawerRowsFit
    <3>3. CASE drawer[e].shift # NoShift
      <4>1. drawer[e].shift \in Shifts
        BY <3>3, CashRows DEF ShiftId
      <4>2. drawer[e].shift <= opened /\ shift[drawer[e].shift].drawer = e
        BY <3>3 DEF CashInv, RowsFit, DrawerRowsFit
      <4>3. shift'[drawer[e].shift].drawer = shift[drawer[e].shift].drawer
        BY <4>1, <4>2, KeeperChangeFacts
      <4>4. drawer[e].shift <= opened'
        BY <1>1, <1>5, <4>1, <4>2
      <4> QED
        BY <3>1, <3>3, <4>2, <4>3, <4>4
    <3> QED
      BY <3>2, <3>3
  <2> QED
    BY <2>1, <2>2
<1>8. ASSUME NEW q \in Shifts, Live(q)', ~(Continues(a) /\ q = n)
      PROVE  /\ q # s /\ Live(q) /\ shift'[q] = shift[q]
             /\ shift[q].drawer \in Drawers \ {d} /\ drawer[shift[q].drawer].shift = q
  <2>1. q # s
    BY <1>2, <1>5, <1>8 DEF Live
  <2>2. shift'[q] = shift[q] /\ Live(q)
    BY <1>4, <1>8, <2>1 DEF Live
  <2>3. shift[q].drawer \in Drawers /\ drawer[shift[q].drawer].shift = q
    BY <2>2, ShiftFacts DEF Live
  <2>4. shift[q].drawer # d
    BY <1>2, <2>1, <2>3
  <2> QED
    BY <2>1, <2>2, <2>3, <2>4
<1>9. LiveShiftsApart'
  <2>1. ASSUME NEW q \in Shifts, Live(q)'
        PROVE  drawer'[shift'[q].drawer].shift = q
    <3>1. CASE Continues(a) /\ q = n
      BY <1>2, <1>3, <3>1
    <3>2. CASE ~(Continues(a) /\ q = n)
      BY <1>2, <1>8, <2>1, <3>2
    <3> QED
      BY <3>1, <3>2
  <2>2. ASSUME NEW q \in Shifts, NEW r \in Shifts, Live(q)', Live(r)',
               shift'[q].owner = shift'[r].owner
        PROVE  q = r
    <3>1. CASE ~(Continues(a) /\ q = n) /\ ~(Continues(a) /\ r = n)
      <4>1. /\ Live(q) /\ shift'[q] = shift[q] /\ Live(r) /\ shift'[r] = shift[r]
        BY <1>8, <2>2, <3>1
      <4> QED
        BY <2>2, <4>1 DEF CashInv, LiveShiftsApart
    <3>2. CASE Continues(a) /\ q = n /\ r # n
      <4>1. r # s /\ Live(r) /\ shift'[r] = shift[r]
        BY <1>8, <2>2, <3>2
      <4> QED
        BY <1>2, <1>3, <2>2, <3>2, <4>1
    <3>3. CASE Continues(a) /\ r = n /\ q # n
      <4>1. q # s /\ Live(q) /\ shift'[q] = shift[q]
        BY <1>8, <2>2, <3>3
      <4> QED
        BY <1>2, <1>3, <2>2, <3>3, <4>1
    <3> QED
      BY <3>1, <3>2, <3>3
  <2> QED
    BY <2>1, <2>2 DEF LiveShiftsApart
<1>10. WorkersMayWork'
  <2> SUFFICES ASSUME NEW q \in Shifts, shift'[q].work = "OPEN"
               PROVE  Live(q)' /\ "RECEPTION" \in member'[shift'[q].owner]
    BY DEF WorkersMayWork, Receptionist
  <2>1. CASE Continues(a) /\ q = n
    BY <1>2, <1>3, <2>1 DEF Live, Receptionist, Continues
  <2>2. CASE ~(Continues(a) /\ q = n)
    <3>1. q # s
      BY <1>2, <1>5
    <3>2. shift'[q] = shift[q]
      BY <1>4, <2>2, <3>1
    <3> QED
      BY <1>2, <3>2 DEF CashInv, WorkersMayWork, Live, Receptionist
  <2> QED
    BY <2>1, <2>2
<1>11. CashHasKeeper'
  <2> SUFFICES ASSUME NEW e \in Drawers, NEW q, q = drawer'[e].shift, q # NoShift
               PROVE  \/ Live(q)' /\ custody'[e] = NoCustody
                      \/ /\ shift'[q].state = "CLOSED"
                         /\ custody'[e].owner # None /\ custody'[e].shift = q
                      \/ /\ shift'[q].state = "CLOSED"
                         /\ custody'[e] = NoCustody /\ takeover'[q].done
    BY DEF CashHasKeeper
  <2>1. \/ custody'[d] = CustodyAfter(s, d, a)
        \/ s # NoShift /\ custody'[d] = NoCustody /\ takeover'[s].done
    BY DEF KeeperChange
  <2>2. CASE e = d /\ Continues(a)
    BY <1>2, <1>3, <2>1, <2>2 DEF CustodyAfter, Live
  <2>3. CASE e = d /\ ~Continues(a)
    <3>1. q = s /\ shift'[s].state = "CLOSED"
      BY <1>1, <1>2, <1>5, <2>3
    <3>2. CASE custody'[d] = CustodyAfter(s, d, a)
      <4>1. custody'[d].owner = a /\ custody'[d].shift = s /\ a # None
        BY <1>2, <2>3, <3>2, NoneAssumption DEF CustodyAfter
      <4> QED
        BY <2>3, <3>1, <4>1
    <3> QED
      BY <2>1, <2>3, <3>1, <3>2
  <2>4. CASE e # d
    <3>1. drawer'[e] = drawer[e] /\ custody'[e] = custody[e] /\ q = drawer[e].shift
      BY <1>2, <2>4
    <3>2. q \in Shifts /\ q <= opened /\ shift[q].drawer = e
      BY <3>1, CashRows DEF ShiftId, CashInv, RowsFit, DrawerRowsFit
    <3>3. q # s
      BY <1>1, <1>5, <2>4, <3>2
    <3>4. shift'[q] = shift[q] /\ takeover'[q].done = takeover[q].done
      BY <1>2, <3>2, <3>3, KeeperChangeFacts
    <3>5. \/ Live(q) /\ custody[e] = NoCustody
          \/ /\ shift[q].state = "CLOSED"
             /\ custody[e].owner # None /\ custody[e].shift = q
          \/ /\ shift[q].state = "CLOSED"
             /\ custody[e] = NoCustody /\ takeover[q].done
      BY <3>1 DEF CashInv, CashHasKeeper
    <3> QED
      BY <3>1, <3>4, <3>5 DEF Live
  <2> QED
    BY <2>2, <2>3, <2>4
<1> QED
  BY <1>6, <1>7, <1>9, <1>10, <1>11

LEMMA KeeperChangeWork ==
    ASSUME CashInv, NEW s, NEW d, NEW a, KeeperChange(s, d, a)
    PROVE  WorkRowsFit' /\ HandoverFreezesDrawer' /\ TakenOverByAnother'
<1> DEFINE n == opened + 1
<1>1. /\ s \in ShiftId /\ opened \in Nat /\ opened' \in Nat /\ opened <= opened'
      /\ s # NoShift => s \in Shifts /\ s <= opened /\ shift[s].drawer = d
      /\ Continues(a) => n \in Shifts /\ opened' = n /\ shift[n].state = "NONE"
      /\ s # n
      /\ \A q \in Shifts \ {s} : q <= opened => shift'[q] = shift[q]
      /\ \A q \in Shifts \ {s} : q # n => shift'[q] = shift[q]
  BY KeeperChangeFacts
<1>2. /\ claims' = claims
      /\ Continues(a) => shift'[n] = NewShift(a, d)
      /\ s # NoShift =>
            /\ shift'[s].state = "CLOSED"
            /\ ~handover'[s].submitted
            /\ takeover'[s].replacement = None \/ takeover'[s].done
      /\ \A e \in Drawers \ {d} :
            drawer'[e] = drawer[e] /\ custody'[e] = custody[e] /\ counted'[e] = counted[e]
      /\ \A q \in Shifts \ {s} : handover'[q] = handover[q] /\ takeover'[q].done = takeover[q].done
      /\ \A q \in Shifts : /\ takeover'[q].replacement = takeover[q].replacement
                           /\ ~takeover'[q].count.usable
  BY DEF KeeperChange
<1>3. \A q \in Shifts : q \in Nat /\ q # NoShift
  BY DEF Shifts, NoShift
<1>4. ASSUME NEW q \in Shifts \ {s}, handover[q].submitted
      PROVE  /\ q <= opened /\ shift'[q] = shift[q] /\ shift[q].drawer \in Drawers \ {d}
             /\ ~Pending(q, shift[q].drawer)
  <2>1. /\ q <= opened /\ shift[q].drawer \in Drawers
        /\ drawer[shift[q].drawer] = [posted |-> handover[q].expected, reserved |-> 0, shift |-> q]
        /\ ~Pending(q, shift[q].drawer)
    BY <1>4, Frozen
  <2>2. shift[q].drawer \in Drawers \ {d}
    BY <2>1, KeeperChangeFacts
  <2> QED
    BY <1>1, <2>1, <2>2
<1>5. WorkRowsFit'
  <2> SUFFICES ASSUME NEW q \in Shifts
               PROVE  /\ handover'[q].submitted => q <= opened' /\ counted'[shift'[q].drawer]
                      /\ takeover'[q].replacement # None => q <= opened'
                      /\ takeover'[q].done => shift'[q].state = "CLOSED"
    BY <1>2 DEF WorkRowsFit
  <2>1. /\ handover[q].submitted => q <= opened /\ counted[shift[q].drawer]
        /\ takeover[q].replacement # None => q <= opened
        /\ takeover[q].done => shift[q].state = "CLOSED"
    BY DEF CashInv, RowsFit, WorkRowsFit
  <2>2. takeover'[q].replacement # None => q <= opened'
    BY <1>1, <1>2, <1>3, <2>1
  <2>3. CASE q = s
    BY <1>2, <1>3, <2>2, <2>3
  <2>4. CASE q # s
    <3>1. handover'[q] = handover[q] /\ takeover'[q].done = takeover[q].done
      BY <1>2, <2>4
    <3>2. handover[q].submitted => q <= opened' /\ counted'[shift'[q].drawer]
      BY <1>1, <1>2, <1>3, <1>4, <2>1, <2>4
    <3>3. takeover[q].done => shift'[q].state = "CLOSED"
      <4>1. takeover[q].done => q # n
        BY <1>1, <2>1, <1>3 DEF CashInv, RowsFit, ShiftRowsFit
      <4> QED
        BY <1>1, <2>1, <2>4, <4>1
    <3> QED
      BY <2>2, <3>1, <3>2, <3>3
  <2> QED
    BY <2>3, <2>4
<1>6. HandoverFreezesDrawer'
  <2>1. ASSUME NEW q \in Shifts \ {s}
        PROVE  shift'[q].state = "SUBMITTED" <=> handover[q].submitted /\ ~handover[q].custody
    <3>1. shift[q].state = "SUBMITTED" <=> handover[q].submitted /\ ~handover[q].custody
      BY DEF CashInv, HandoverFreezesDrawer
    <3>2. CASE Continues(a) /\ q = n
      <4>1. ~handover[q].submitted
        BY <1>1, <1>3, <1>4, <3>2
      <4>2. shift'[q].state = "OPEN"
        BY <1>2, <3>2 DEF NewShift
      <4> QED
        BY <4>1, <4>2
    <3>3. CASE ~(Continues(a) /\ q = n)
      BY <3>1, <3>3 DEF KeeperChange
    <3> QED
      BY <3>2, <3>3
  <2>2. ASSUME NEW q \in Shifts \ {s}, handover[q].submitted
        PROVE  /\ drawer'[shift'[q].drawer] =
                     [posted |-> handover[q].expected, reserved |-> 0, shift |-> q]
               /\ ~Pending(q, shift[q].drawer)'
               /\ handover[q].custody => custody'[shift'[q].drawer].shift = q
    <3>1. /\ shift'[q] = shift[q] /\ shift[q].drawer \in Drawers \ {d}
          /\ ~Pending(q, shift[q].drawer)
      BY <1>4, <2>2
    <3>2. ~Pending(q, shift[q].drawer)'
      BY <1>2, <3>1 DEF claims, Pending
    <3> QED
      BY <1>2, <2>2, <3>1, <3>2 DEF CashInv, HandoverFreezesDrawer
  <2> QED
    BY <1>2, <1>3, <2>1, <2>2 DEF HandoverFreezesDrawer
<1>7. TakenOverByAnother'
  <2> SUFFICES ASSUME NEW q \in Shifts, takeover'[q].replacement # None, ~takeover'[q].done
               PROVE  /\ shift'[q].state = "OPEN" /\ shift'[q].work = "BLOCKED"
                      /\ takeover'[q].replacement # shift'[q].owner
    BY DEF TakenOverByAnother
  <2>1. q # s
    BY <1>2, <1>3
  <2>2. takeover[q].replacement # None /\ ~takeover[q].done
    BY <1>2, <2>1
  <2>3. q <= opened
    BY <2>2 DEF CashInv, RowsFit, WorkRowsFit
  <2>4. shift'[q] = shift[q]
    BY <1>1, <2>1, <2>3
  <2> QED
    BY <1>2, <2>2, <2>4 DEF CashInv, TakenOverByAnother
<1> QED
  BY <1>5, <1>6, <1>7

LEMMA KeeperChangeClaims ==
    ASSUME CashInv, NEW s, NEW d, NEW a, KeeperChange(s, d, a)
    PROVE  ClaimRowsFit' /\ PromisesAreCovered' /\ ClosedOwesNothing'
<1>1. /\ opened \in Nat /\ opened' \in Nat /\ opened <= opened'
      /\ s # NoShift => s \in Shifts /\ shift[s].drawer = d
      /\ \A q \in Shifts : q <= opened => shift'[q].drawer = shift[q].drawer
      /\ \A q \in Shifts \ {s} : q # opened + 1 => shift'[q] = shift[q]
  BY KeeperChangeFacts
<1>2. /\ d \in Drawers /\ s = drawer[d].shift
      /\ transfer' = transfer /\ obligation' = obligation
      /\ drawer[d].reserved = 0 /\ drawer'[d].reserved = 0
      /\ \A e \in Drawers \ {d} : drawer'[e] = drawer[e]
      /\ \A o \in PendingObligations : obligation[o].shift # s
      /\ \A t \in PendingTransfers : transfer[t].source # d /\ transfer[t].dest # d
  BY DEF KeeperChange, claims
<1>3. PendingTransfers' = PendingTransfers /\ PendingObligations' = PendingObligations
  BY <1>2 DEF PendingTransfers, PendingObligations
<1>4. \A q \in Shifts : q \in Nat /\ q # NoShift
  BY DEF Shifts, NoShift
<1>5. ClaimRowsFit'
  <2>1. \A o \in PendingObligations :
           /\ obligation[o].shift \in Shifts /\ obligation[o].shift <= opened
           /\ obligation[o].drawer = shift[obligation[o].shift].drawer
    BY DEF CashInv, RowsFit, ClaimRowsFit
  <2>2. \A o \in PendingObligations :
           /\ obligation[o].shift \in Shifts /\ obligation[o].shift <= opened'
           /\ obligation[o].drawer = shift'[obligation[o].shift].drawer
    BY <1>1, <1>4, <2>1
  <2> QED
    BY <1>2, <1>3, <2>2 DEF CashInv, RowsFit, ClaimRowsFit
<1>6. PromisesAreCovered'
  <2>1. ASSUME NEW t \in Transfers, transfer[t].state = "PENDING"
        PROVE  /\ drawer'[transfer[t].source].shift = transfer[t].sourceShift
               /\ drawer'[transfer[t].dest].shift = transfer[t].destShift
    <3>1. t \in PendingTransfers
      BY <2>1 DEF PendingTransfers
    <3>2. transfer[t].source \in Drawers \ {d} /\ transfer[t].dest \in Drawers \ {d}
      BY <1>2, <3>1 DEF CashInv, RowsFit, ClaimRowsFit
    <3> QED
      BY <1>2, <2>1, <3>2 DEF CashInv, PromisesAreCovered, BookValid
  <2>2. ASSUME NEW o \in Obligations, obligation[o].state = "PENDING", obligation[o].amount > 0
        PROVE  drawer'[obligation[o].drawer].shift = obligation[o].shift
    <3>1. o \in PendingObligations
      BY <2>2 DEF PendingObligations
    <3>2. drawer[obligation[o].drawer].shift = obligation[o].shift /\ obligation[o].shift # s
      BY <1>2, <2>2, <3>1 DEF CashInv, PromisesAreCovered, BookValid
    <3>3. obligation[o].drawer \in Drawers
      BY <3>1 DEF CashInv, RowsFit, ClaimRowsFit, ShiftRowsFit
    <3>4. obligation[o].drawer \in Drawers \ {d}
      BY <1>2, <3>2, <3>3
    <3> QED
      BY <1>2, <3>2, <3>4
  <2>3. ASSUME NEW e \in Drawers
        PROVE  drawer'[e].reserved = ReservedOf(e)' /\ Available(e)' >= 0
    <3>1. ReservedOf(e)' = ReservedOf(e)
      BY ReservedStays DEF KeeperChange
    <3>2. drawer[e].reserved = ReservedOf(e) /\ drawer[e].posted - drawer[e].reserved >= 0
      BY DEF CashInv, PromisesAreCovered, BookValid, Available
    <3>3. CASE e = d
      <4>1. drawer'[d].posted \in Nat
        BY CashAssumption DEF KeeperChange, Cash
      <4> QED
        BY <1>2, <3>1, <3>2, <3>3, <4>1 DEF Available
    <3>4. CASE e # d
      BY <1>2, <3>1, <3>2, <3>4 DEF Available
    <3> QED
      BY <3>3, <3>4
  <2> QED
    BY <1>2, <2>1, <2>2, <2>3 DEF PromisesAreCovered, BookValid
<1>7. ClosedOwesNothing'
  <2> SUFFICES ASSUME NEW q \in Shifts, shift'[q].state = "CLOSED"
               PROVE  /\ \A o \in Obligations : obligation[o].state = "PENDING" => obligation[o].shift # q
                      /\ \A t \in Transfers : transfer[t].state = "PENDING" =>
                             q # transfer[t].sourceShift /\ q # transfer[t].destShift
    BY <1>2 DEF ClosedOwesNothing
  <2>1. CASE q = s
    <3>1. \A o \in Obligations : obligation[o].state = "PENDING" => obligation[o].shift # q
      BY <1>2, <2>1 DEF PendingObligations
    <3>2. ASSUME NEW t \in Transfers, transfer[t].state = "PENDING"
          PROVE  q # transfer[t].sourceShift /\ q # transfer[t].destShift
      <4>1. t \in PendingTransfers
        BY <3>2 DEF PendingTransfers
      <4>2. transfer[t].source \in Drawers \ {d} /\ transfer[t].dest \in Drawers \ {d}
        BY <1>2, <4>1 DEF CashInv, RowsFit, ClaimRowsFit
      <4>3. \A e \in Drawers \ {d} : drawer[e].shift # s
        BY <1>1, <1>4, <2>1 DEF CashInv, RowsFit, DrawerRowsFit
      <4>4. /\ drawer[transfer[t].source].shift = transfer[t].sourceShift
            /\ drawer[transfer[t].dest].shift = transfer[t].destShift
        BY <3>2 DEF CashInv, PromisesAreCovered, BookValid
      <4> QED
        BY <2>1, <4>2, <4>3, <4>4
    <3> QED
      BY <3>1, <3>2
  <2>2. CASE q # s
    <3>1. ~(Continues(a) /\ q = opened + 1)
      BY <2>2 DEF KeeperChange, NewShift
    <3>2. shift'[q] = shift[q]
      BY <2>2, <3>1 DEF KeeperChange
    <3> QED
      BY <3>2 DEF CashInv, ClosedOwesNothing
  <2> QED
    BY <2>1, <2>2
<1> QED
  BY <1>5, <1>6, <1>7

LEMMA KeeperChangeKeeps ==
    ASSUME CashInv, TypeOK', NEW s, NEW d, NEW a, KeeperChange(s, d, a)
    PROVE  CashInv'
  BY KeeperChangeShifts, KeeperChangeWork, KeeperChangeClaims DEF CashInv, RowsFit

-----------------------------------------------------------------------------
(* Members, the subscription, claims and counts: no money moves.           *)

LEMMA ChangeMemberStep ==
    ASSUME CashInv, NEW a \in Staff, NEW granted \in Grants[a], ChangeMember(a, granted)
    PROVE  CashInv'
<1>1. /\ member' = [member EXCEPT ![a] = granted]
      /\ shift' = [s \in Shifts |->
            IF shift[s].owner = a /\ shift[s].work = "OPEN" /\ "RECEPTION" \notin granted
            THEN [shift[s] EXCEPT !.work = "BLOCKED"] ELSE shift[s]]
      /\ takeover' = [s \in Shifts |->
            IF takeover[s].claimant = a /\ "MANAGER" \notin granted
            THEN [takeover[s] EXCEPT !.claimant = None] ELSE takeover[s]]
      /\ UNCHANGED <<locked, opened, custody, handover, drawer, transfer, obligation, counted>>
  BY DEF ChangeMember, claims
<1>2. \A s \in Shifts :
         /\ shift'[s] \in Shift
         /\ shift'[s].owner = shift[s].owner /\ shift'[s].drawer = shift[s].drawer
         /\ shift'[s].state = shift[s].state
         /\ \/ shift'[s] = shift[s] /\ ~(shift[s].owner = a /\ "RECEPTION" \notin granted
                                         /\ shift[s].work = "OPEN")
            \/ shift[s].work = "OPEN" /\ shift'[s].work = "BLOCKED"
  <2> SUFFICES ASSUME NEW s \in Shifts
               PROVE  /\ shift'[s] \in Shift
                      /\ shift'[s].owner = shift[s].owner /\ shift'[s].drawer = shift[s].drawer
                      /\ shift'[s].state = shift[s].state
                      /\ \/ shift'[s] = shift[s] /\ ~(shift[s].owner = a /\ "RECEPTION" \notin granted
                                                      /\ shift[s].work = "OPEN")
                         \/ shift[s].work = "OPEN" /\ shift'[s].work = "BLOCKED"
    OBVIOUS
  <2>1. shift[s] \in Shift
    BY CashRows
  <2>2. \A x \in Shift : /\ [x EXCEPT !.work = "BLOCKED"] \in Shift
                         /\ [x EXCEPT !.work = "BLOCKED"].owner = x.owner
                         /\ [x EXCEPT !.work = "BLOCKED"].drawer = x.drawer
                         /\ [x EXCEPT !.work = "BLOCKED"].state = x.state
                         /\ [x EXCEPT !.work = "BLOCKED"].work = "BLOCKED"
    BY DEF Shift
  <2>3. shift'[s] = IF shift[s].owner = a /\ shift[s].work = "OPEN" /\ "RECEPTION" \notin granted
                    THEN [shift[s] EXCEPT !.work = "BLOCKED"] ELSE shift[s]
    BY <1>1
  <2>4. CASE shift[s].owner = a /\ shift[s].work = "OPEN" /\ "RECEPTION" \notin granted
    <3>1. shift'[s] = [shift[s] EXCEPT !.work = "BLOCKED"]
      BY <2>3, <2>4
    <3> QED
      BY <2>1, <2>2, <2>4, <3>1
  <2>5. CASE ~(shift[s].owner = a /\ shift[s].work = "OPEN" /\ "RECEPTION" \notin granted)
    <3>1. shift'[s] = shift[s]
      BY <2>3, <2>5
    <3> QED
      BY <2>1, <2>5, <3>1
  <2> QED
    BY <2>4, <2>5
<1>3. \A s \in Shifts :
         /\ takeover'[s] \in Takeover
         /\ takeover'[s].replacement = takeover[s].replacement
         /\ takeover'[s].done = takeover[s].done /\ takeover'[s].count = takeover[s].count
  <2>1. \A x \in Takeover : /\ [x EXCEPT !.claimant = None] \in Takeover
                            /\ [x EXCEPT !.claimant = None].replacement = x.replacement
                            /\ [x EXCEPT !.claimant = None].done = x.done
                            /\ [x EXCEPT !.claimant = None].count = x.count
    BY DEF Takeover, Account
  <2> QED
    BY <1>1, <2>1, CashRows
<1>4. member' \in [Staff -> SUBSET Roles]
  <2>1. granted \in SUBSET Roles
    BY GrantAssumption DEF Roles
  <2> QED
    BY <1>1, <2>1 DEF CashInv, TypeOK
<1>5. TypeOK'
  <2>1. shift' \in [Shifts -> Shift] /\ takeover' \in [Shifts -> Takeover]
    <3>1. DOMAIN shift' = Shifts /\ shift' = [s \in Shifts |-> shift'[s]]
          /\ takeover' = [s \in Shifts |-> takeover'[s]]
      BY <1>1
    <3> QED
      BY <1>2, <1>3, <3>1
  <2> QED
    BY <1>1, <1>4, <2>1 DEF CashInv, TypeOK
<1>6. QuietStep
  <2>1. \A s \in Shifts : shift'[s].work = "OPEN" => "RECEPTION" \in member'[shift[s].owner]
    <3> SUFFICES ASSUME NEW s \in Shifts, shift'[s].work = "OPEN"
                 PROVE  "RECEPTION" \in member'[shift[s].owner]
      OBVIOUS
    <3>1. shift'[s] = shift[s] /\ (shift[s].owner = a => "RECEPTION" \in granted)
      BY <1>2
    <3>2. "RECEPTION" \in member[shift[s].owner]
      BY <3>1 DEF CashInv, WorkersMayWork, Receptionist
    <3>3. shift[s].owner \in Staff
      BY <3>1, ShiftFacts DEF Live
    <3> QED
      BY <1>1, <3>1, <3>2, <3>3 DEF CashInv, TypeOK
  <2> QED
    BY <1>1, <1>2, <1>3, <2>1 DEF QuietStep, claims, Receptionist
<1> QED
  BY <1>5, <1>6, QuietKeeps

LEMMA ManagerRevokedStep ==
    ASSUME CashInv, NEW a \in Staff, ManagerRevoked(a)
    PROVE  CashInv'
<1>1. /\ member' = [member EXCEPT ![a] = @ \ {"MANAGER"}]
      /\ UNCHANGED <<locked, opened, shift, custody, takeover, handover, drawer, transfer,
                     obligation, counted>>
  BY DEF ManagerRevoked, keepers, claims
<1>2. TypeOK'
  <2>1. member[a] \ {"MANAGER"} \in SUBSET Roles
    BY DEF CashInv, TypeOK
  <2>2. member' \in [Staff -> SUBSET Roles]
    BY <1>1, <2>1 DEF CashInv, TypeOK
  <2> QED
    BY <1>1, <2>2 DEF CashInv, TypeOK
<1>3. \A s \in Shifts : shift[s].work = "OPEN" => "RECEPTION" \in member'[shift[s].owner]
  <2>1. \A x \in Staff : "RECEPTION" \in member[x] => "RECEPTION" \in member'[x]
    BY <1>1 DEF CashInv, TypeOK
  <2> QED
    BY <2>1, ShiftFacts DEF CashInv, WorkersMayWork, Receptionist, Live
<1>4. QuietStep
  BY <1>1, <1>3 DEF QuietStep, claims, Receptionist
<1> QED
  BY <1>2, <1>4, QuietKeeps

LEMMA LockStep ==
    ASSUME CashInv, Lock
    PROVE  CashInv'
<1>1. /\ locked' = TRUE
      /\ UNCHANGED <<member, opened, shift, custody, takeover, handover, drawer, transfer,
                     obligation, counted>>
  BY DEF Lock, keepers, claims
<1>2. TypeOK'
  BY <1>1 DEF CashInv, TypeOK
<1>3. QuietStep
  BY <1>1 DEF QuietStep, claims, Receptionist, CashInv, WorkersMayWork
<1> QED
  BY <1>2, <1>3, QuietKeeps

LEMMA RenewStep ==
    ASSUME CashInv, Renew
    PROVE  CashInv'
<1>1. /\ locked' = FALSE
      /\ shift' = [s \in Shifts |-> [shift[s] EXCEPT !.late = FALSE]]
      /\ UNCHANGED <<member, opened, custody, takeover, handover, drawer, transfer,
                     obligation, counted>>
  BY DEF Renew, claims
<1>2. \A s \in Shifts :
         /\ shift'[s] \in Shift
         /\ shift'[s].owner = shift[s].owner /\ shift'[s].drawer = shift[s].drawer
         /\ shift'[s].state = shift[s].state /\ shift'[s].work = shift[s].work
  <2>1. \A x \in Shift : /\ [x EXCEPT !.late = FALSE] \in Shift
                         /\ [x EXCEPT !.late = FALSE].owner = x.owner
                         /\ [x EXCEPT !.late = FALSE].drawer = x.drawer
                         /\ [x EXCEPT !.late = FALSE].state = x.state
                         /\ [x EXCEPT !.late = FALSE].work = x.work
    BY DEF Shift
  <2> QED
    BY <1>1, <2>1, CashRows
<1>3. TypeOK'
  <2>1. shift' \in [Shifts -> Shift]
    <3>1. shift' = [s \in Shifts |-> shift'[s]]
      BY <1>1
    <3> QED
      BY <1>2, <3>1
  <2> QED
    BY <1>1, <2>1 DEF CashInv, TypeOK
<1>4. QuietStep
  BY <1>1, <1>2 DEF QuietStep, claims, Receptionist, CashInv, WorkersMayWork
<1> QED
  BY <1>3, <1>4, QuietKeeps
\* Only the takeover of shift s changes, and perhaps that its drawer is counted.
LEMMA TakeoverRow ==
    ASSUME CashInv, NEW s \in Shifts, NEW row \in Takeover,
           takeover' = [takeover EXCEPT ![s] = row],
           row.done = takeover[s].done,
           row.replacement = None <=> takeover[s].replacement = None,
           row.replacement # takeover[s].replacement => row.replacement # shift[s].owner,
           row.count.usable =>
               takeover[s].replacement # None /\ ~takeover[s].done /\ counted'[shift[s].drawer],
           counted' \in [Drawers -> BOOLEAN], \A d \in Drawers : counted[d] => counted'[d],
           UNCHANGED <<people, keepers, handover, drawer, claims>>
    PROVE  CashInv'
<1>1. /\ takeover' \in [Shifts -> Takeover]
      /\ takeover'[s] = row /\ \A q \in Shifts \ {s} : takeover'[q] = takeover[q]
  BY DEF CashInv, TypeOK
<1>2. TypeOK'
  BY <1>1 DEF CashInv, TypeOK, people, keepers, claims
<1>3. \A q \in Shifts : takeover[q].count.usable =>
         takeover[q].replacement # None /\ ~takeover[q].done /\ counted[shift[q].drawer]
  BY DEF CashInv, RowsFit, WorkRowsFit
<1>4. \A q \in Shifts :
         /\ takeover'[q].done = takeover[q].done
         /\ takeover'[q].replacement = None <=> takeover[q].replacement = None
         /\ \/ takeover'[q].replacement = takeover[q].replacement
            \/ takeover'[q].replacement # shift[q].owner
         /\ \/ ~takeover'[q].count.usable
            \/ takeover[q].count.usable
            \/ /\ takeover[q].replacement # None /\ ~takeover[q].done
               /\ counted'[shift[q].drawer]
  BY <1>1
<1>5. \A q \in Shifts : shift[q].work = "OPEN" => Receptionist(shift[q].owner)
  BY DEF CashInv, WorkersMayWork
<1>6. member' = member /\ shift' = shift
  BY DEF people, keepers
<1>7. QuietStep
  BY <1>4, <1>5, <1>6 DEF QuietStep, keepers, Receptionist
<1> QED
  BY <1>2, <1>7, QuietKeeps

LEMMA ClaimStep ==
    ASSUME CashInv, NEW a \in Staff, NEW s \in Shifts, Claim(a, s) \/ RecoverClaim(a, s)
    PROVE  CashInv'
<1> DEFINE row == [takeover[s] EXCEPT !.claimant = a]
<1>1. takeover' = [takeover EXCEPT ![s] = row] /\ counted' = counted
      /\ UNCHANGED <<people, keepers, handover, drawer, claims>>
  BY DEF Claim, RecoverClaim
<1>2. /\ row \in Takeover /\ row.done = takeover[s].done
      /\ row.replacement = takeover[s].replacement /\ row.count = takeover[s].count
  BY CashRows DEF Takeover, Account
<1>3. counted' \in [Drawers -> BOOLEAN]
  BY <1>1 DEF CashInv, TypeOK
<1>4. takeover[s].count.usable =>
         takeover[s].replacement # None /\ ~takeover[s].done /\ counted[shift[s].drawer]
  BY DEF CashInv, RowsFit, WorkRowsFit
<1> HIDE DEF row
<1> QED
  BY <1>1, <1>2, <1>3, <1>4, TakeoverRow

LEMMA RecoverReplacementStep ==
    ASSUME CashInv, NEW a \in Staff, NEW s \in Shifts, NEW r \in Staff, RecoverReplacement(a, s, r)
    PROVE  CashInv'
<1> DEFINE row == [takeover[s] EXCEPT !.replacement = r]
<1>1. takeover' = [takeover EXCEPT ![s] = row] /\ counted' = counted
      /\ takeover[s].replacement # None /\ ~takeover[s].done
      /\ MayReplace(r, s)
      /\ UNCHANGED <<people, keepers, handover, drawer, claims>>
  BY DEF RecoverReplacement
<1>2. /\ row \in Takeover /\ row.done = takeover[s].done
      /\ row.replacement = r /\ row.count = takeover[s].count
  BY CashRows DEF Takeover, Account
<1>3. counted' \in [Drawers -> BOOLEAN] /\ r # None
  BY <1>1, NoneAssumption DEF CashInv, TypeOK
<1>4. r # shift[s].owner
  <2>1. shift[s].state = "OPEN"
    BY <1>1 DEF CashInv, TakenOverByAnother
  <2> QED
    BY <1>1, <2>1 DEF MayReplace, HasLiveShift, Live
<1>5. takeover[s].count.usable => counted[shift[s].drawer]
  BY DEF CashInv, RowsFit, WorkRowsFit
<1> HIDE DEF row
<1> QED
  BY <1>1, <1>2, <1>3, <1>4, <1>5, TakeoverRow

LEMMA TakeoverCountStep ==
    ASSUME CashInv, NEW r \in Staff, NEW s \in Shifts, NEW actual \in Counts,
           TakeoverCount(r, s, actual)
    PROVE  CashInv'
<1> DEFINE d == shift[s].drawer
           count == [by |-> r, expected |-> drawer[d].posted, actual |-> actual, usable |-> TRUE]
           row == [takeover[s] EXCEPT !.count = count]
<1>1. takeover' = [takeover EXCEPT ![s] = row] /\ counted' = [counted EXCEPT ![d] = TRUE]
      /\ takeover[s].replacement = r /\ ~takeover[s].done /\ shift[s].state = "OPEN"
      /\ UNCHANGED <<people, keepers, handover, drawer, claims>>
  BY DEF TakeoverCount, TakesOver
<1>2. d \in Drawers /\ r # None
  BY <1>1, ShiftFacts, NoneAssumption
<1>3. count \in Count
  <2>1. drawer[d].posted \in Cash /\ actual \in Cash
    BY <1>2, CashRows, CashAssumption DEF Cash
  <2> QED
    BY <2>1 DEF Count, Account
<1>4. /\ row \in Takeover /\ row.done = takeover[s].done /\ row.replacement = takeover[s].replacement
  <2> HIDE DEF count
  <2> QED
    BY <1>3, CashRows DEF Takeover
<1>5. /\ counted' \in [Drawers -> BOOLEAN] /\ counted'[d]
      /\ \A e \in Drawers : counted[e] => counted'[e]
  BY <1>1, <1>2 DEF CashInv, TypeOK
<1> HIDE DEF row
<1> QED
  BY <1>1, <1>2, <1>4, <1>5, TakeoverRow

LEMMA TakeoverCountExpiresStep ==
    ASSUME CashInv, NEW s \in Shifts, TakeoverCountExpires(s)
    PROVE  CashInv'
<1> DEFINE row == [takeover[s] EXCEPT !.count = NoCount]
<1>1. takeover' = [takeover EXCEPT ![s] = row] /\ counted' = counted
      /\ UNCHANGED <<people, keepers, handover, drawer, claims>>
  BY DEF TakeoverCountExpires
<1>2. /\ row \in Takeover /\ row.done = takeover[s].done
      /\ row.replacement = takeover[s].replacement /\ ~row.count.usable
  <2>1. NoCount \in Count /\ ~NoCount.usable
    BY CashAssumption DEF NoCount, Count, Cash, Account
  <2> QED
    BY <2>1, CashRows DEF Takeover
<1>3. counted' \in [Drawers -> BOOLEAN]
  BY <1>1 DEF CashInv, TypeOK
<1> HIDE DEF row
<1> QED
  BY <1>1, <1>2, <1>3, TakeoverRow

\* The receiver counts, or its count grows old.
LEMMA CountHandoverStep ==
    ASSUME CashInv, NEW s \in Shifts,
           \/ HandoverCountExpires(s)
           \/ \E r \in Staff, actual \in Counts : CountHandover(r, s, actual)
    PROVE  CashInv'
<1> DEFINE old == handover[s]
<1>1. PICK row \in Handover :
         /\ handover' = [handover EXCEPT ![s] = row]
         /\ row.submitted = old.submitted /\ row.custody = old.custody
         /\ row.expected = old.expected
  <2>1. CASE HandoverCountExpires(s)
    <3>1. handover' = [handover EXCEPT ![s] = [handover[s] EXCEPT !.usable = FALSE]]
      BY <2>1 DEF HandoverCountExpires
    <3>2. \A x \in Handover : /\ [x EXCEPT !.usable = FALSE] \in Handover
                              /\ [x EXCEPT !.usable = FALSE].submitted = x.submitted
                              /\ [x EXCEPT !.usable = FALSE].custody = x.custody
                              /\ [x EXCEPT !.usable = FALSE].expected = x.expected
      BY DEF Handover
    <3> QED
      BY <3>1, <3>2, CashRows
  <2>2. CASE \E r \in Staff, actual \in Counts : CountHandover(r, s, actual)
    <3>1. PICK r \in Staff, actual \in Counts : CountHandover(r, s, actual)
      BY <2>2
    <3> DEFINE many == IF old.counts = 2 THEN 2 ELSE old.counts + 1
               new == [old EXCEPT !.counts = many, !.last = actual, !.usable = TRUE]
    <3>2. old \in Handover
      BY CashRows
    <3>3. many \in 0 .. 2
      BY <3>2 DEF Handover
    <3>4. actual \in Cash
      BY CashAssumption DEF Cash
    <3>5. /\ new \in Handover /\ new.submitted = old.submitted /\ new.custody = old.custody
          /\ new.expected = old.expected
      <4> HIDE DEF many, old
      <4> QED
        BY <3>2, <3>3, <3>4 DEF Handover
    <3>6. handover' = [handover EXCEPT ![s] = new]
      BY <3>1, <3>2 DEF CountHandover, Handover
    <3> QED
      BY <3>5, <3>6
  <2> QED
    BY <2>1, <2>2
<1>2. UNCHANGED <<people, keepers, takeover, drawer, claims, counted>>
  BY DEF HandoverCountExpires, CountHandover
<1>3. /\ handover' \in [Shifts -> Handover]
      /\ handover'[s] = row /\ \A q \in Shifts \ {s} : handover'[q] = handover[q]
  BY <1>1 DEF CashInv, TypeOK
<1>4. TypeOK'
  BY <1>2, <1>3 DEF CashInv, TypeOK, people, keepers, claims
<1>5. \A q \in Shifts : /\ handover'[q].submitted = handover[q].submitted
                        /\ handover'[q].custody = handover[q].custody
                        /\ handover'[q].expected = handover[q].expected
  BY <1>1, <1>3
<1>6. \A q \in Shifts : shift[q].work = "OPEN" => Receptionist(shift[q].owner)
  BY DEF CashInv, WorkersMayWork
<1>7. member' = member /\ shift' = shift /\ takeover' = takeover
  BY <1>2 DEF people, keepers
<1>8. QuietStep
  BY <1>2, <1>5, <1>6, <1>7 DEF QuietStep, keepers, Receptionist
<1> QED
  BY <1>4, <1>8, QuietKeeps

-----------------------------------------------------------------------------
(* Guest money, expenses and transfers.                                    *)

\* What stale counts leave of the takeovers.
LEMMA StaleCountsRows ==
    ASSUME CashInv
    PROVE  /\ StaleCounts \in [Shifts -> Takeover]
           /\ \A s \in Shifts : /\ StaleCounts[s].done = takeover[s].done
                                /\ StaleCounts[s].replacement = takeover[s].replacement
                                /\ ~StaleCounts[s].count.usable
<1>1. NoCount \in Count /\ ~NoCount.usable
  BY CashAssumption DEF NoCount, Count, Cash, Account
<1>2. \A x \in Takeover : /\ [x EXCEPT !.count = NoCount] \in Takeover
                          /\ [x EXCEPT !.count = NoCount].done = x.done
                          /\ [x EXCEPT !.count = NoCount].replacement = x.replacement
                          /\ ~[x EXCEPT !.count = NoCount].count.usable
  BY <1>1 DEF Takeover
<1> QED
  BY <1>2, CashRows DEF StaleCounts

\* Where cash moves, no handover waits.
LEMMA OnlyItsShift ==
    ASSUME CashInv, NEW d \in Drawers, NEW s \in Shifts, handover[s].submitted,
           \/ ~Blocked(d)
           \/ drawer[d].shift \in Shifts /\ shift[drawer[d].shift].state = "OPEN"
           \/ \E o \in PendingObligations : obligation[o].shift = drawer[d].shift
           \/ \E t \in PendingTransfers : d \in {transfer[t].source, transfer[t].dest}
    PROVE  shift[s].drawer \in Drawers \ {d}
<1> SUFFICES ASSUME shift[s].drawer = d
             PROVE  FALSE
  BY Frozen
<1>1. /\ drawer[d] = [posted |-> handover[s].expected, reserved |-> 0, shift |-> s]
      /\ shift[s].state \in {"SUBMITTED", "CLOSED"}
      /\ ~Pending(s, d)
  BY Frozen
<1>2. drawer[d].shift = s /\ s # NoShift
  BY <1>1 DEF Shifts, NoShift
<1>3. Blocked(d)
  BY <1>1, <1>2 DEF Blocked
<1> QED
  BY <1>1, <1>2, <1>3 DEF Pending, PendingObligations, PendingTransfers

\* Cash that moves without a new obligation or transfer.
LEMMA CashMoves ==
    ASSUME CashInv, NEW d \in Drawers, NEW row \in Drawer,
           drawer' = [drawer EXCEPT ![d] = row], row.shift = drawer[d].shift,
           counted' = [counted EXCEPT ![d] = FALSE], takeover' = StaleCounts,
           \/ ~Blocked(d)
           \/ drawer[d].shift \in Shifts /\ shift[drawer[d].shift].state = "OPEN"
           \/ \E o \in PendingObligations : obligation[o].shift = drawer[d].shift
           \/ \E t \in PendingTransfers : d \in {transfer[t].source, transfer[t].dest}
    PROVE  /\ drawer' \in [Drawers -> Drawer] /\ counted' \in [Drawers -> BOOLEAN]
           /\ takeover' \in [Shifts -> Takeover]
           /\ drawer'[d] = row /\ \A e \in Drawers \ {d} : drawer'[e] = drawer[e]
           /\ \A e \in Drawers : drawer'[e].shift = drawer[e].shift
           /\ \A s \in Shifts :
                 /\ handover[s].submitted =>
                       /\ drawer'[shift[s].drawer] = drawer[shift[s].drawer]
                       /\ counted'[shift[s].drawer] = counted[shift[s].drawer]
                 /\ takeover'[s].done = takeover[s].done
                 /\ takeover'[s].replacement = takeover[s].replacement
                 /\ ~takeover'[s].count.usable
<1>1. /\ drawer' \in [Drawers -> Drawer] /\ counted' \in [Drawers -> BOOLEAN]
      /\ drawer'[d] = row /\ \A e \in Drawers \ {d} : drawer'[e] = drawer[e]
      /\ \A e \in Drawers \ {d} : counted'[e] = counted[e]
  BY DEF CashInv, TypeOK
<1>2. \A e \in Drawers : drawer'[e].shift = drawer[e].shift
  BY <1>1
<1>3. \A s \in Shifts : handover[s].submitted => shift[s].drawer \in Drawers \ {d}
  BY OnlyItsShift
<1>4. \A s \in Shifts : handover[s].submitted =>
         /\ drawer'[shift[s].drawer] = drawer[shift[s].drawer]
         /\ counted'[shift[s].drawer] = counted[shift[s].drawer]
  BY <1>1, <1>3
<1> QED
  BY <1>1, <1>2, <1>4, StaleCountsRows

\* Guest money moves in drawer d of shift s.
LEMMA GuestCashRows ==
    ASSUME CashInv, NEW s \in Shifts, NEW d \in Drawers, NEW posted \in Int, NEW reserved \in Int,
           GuestCash(s, d, posted, reserved), drawer[d].reserved + reserved >= 0,
           \/ shift[s].state = "OPEN"
           \/ \E o \in PendingObligations : obligation[o].shift = s
    PROVE  /\ drawer' \in [Drawers -> Drawer] /\ counted' \in [Drawers -> BOOLEAN]
           /\ takeover' \in [Shifts -> Takeover]
           /\ drawer[d].shift = s
           /\ drawer'[d].posted = drawer[d].posted + posted
           /\ drawer'[d].reserved = drawer[d].reserved + reserved
           /\ drawer'[d].reserved <= drawer'[d].posted
           /\ \A e \in Drawers \ {d} : drawer'[e] = drawer[e]
           /\ \A e \in Drawers : drawer'[e].shift = drawer[e].shift
           /\ \A q \in Shifts :
                 /\ handover[q].submitted =>
                       /\ drawer'[shift[q].drawer] = drawer[shift[q].drawer]
                       /\ counted'[shift[q].drawer] = counted[shift[q].drawer]
                 /\ takeover'[q].done = takeover[q].done
                 /\ takeover'[q].replacement = takeover[q].replacement
                 /\ ~takeover'[q].count.usable
<1> DEFINE row == [posted |-> drawer[d].posted + posted,
                   reserved |-> drawer[d].reserved + reserved, shift |-> drawer[d].shift]
<1>1. /\ drawer[d].shift = s
      /\ drawer[d].posted + posted \in Cash
      /\ drawer[d].reserved + reserved <= drawer[d].posted + posted
      /\ drawer' = [drawer EXCEPT ![d].posted = @ + posted, ![d].reserved = @ + reserved]
      /\ counted' = [counted EXCEPT ![d] = FALSE] /\ takeover' = StaleCounts
  BY DEF GuestCash, Covered
<1>2. drawer[d] \in Drawer /\ drawer[d].reserved \in Nat /\ drawer[d].shift \in ShiftId
  BY CashRows DEF Cash
<1>3. row \in Drawer
  <2>1. drawer[d].reserved + reserved \in Cash
    BY <1>1, <1>2, CashAssumption DEF Cash
  <2> QED
    BY <1>1, <1>2, <2>1 DEF Drawer
<1>4. drawer' = [drawer EXCEPT ![d] = row]
  <2> DEFINE p == drawer[d].posted + posted
             r == drawer[d].reserved + reserved
             between == [posted |-> p, reserved |-> drawer[d].reserved, shift |-> drawer[d].shift]
  <2>1. [drawer[d] EXCEPT !.posted = p] = between
    BY <1>2 DEF Drawer
  <2>2. [between EXCEPT !.reserved = r] = row /\ between.reserved = drawer[d].reserved
    OBVIOUS
  <2>3. drawer' = [[drawer EXCEPT ![d] = [drawer[d] EXCEPT !.posted = p]]
                      EXCEPT ![d].reserved = @ + reserved]
    BY <1>1 DEF CashInv, TypeOK
  <2> HIDE DEF p, r, between, row
  <2>4. drawer' = [[drawer EXCEPT ![d] = between] EXCEPT ![d].reserved = @ + reserved]
    BY <2>1, <2>3
  <2>5. drawer' = [drawer EXCEPT ![d] = [between EXCEPT !.reserved = r]]
    BY <2>2, <2>4 DEF r, CashInv, TypeOK
  <2> QED
    BY <2>2, <2>5
<1>5. /\ row.posted = drawer[d].posted + posted /\ row.reserved = drawer[d].reserved + reserved
      /\ row.shift = drawer[d].shift
  OBVIOUS
<1>6. \/ drawer[d].shift \in Shifts /\ shift[drawer[d].shift].state = "OPEN"
      \/ \E o \in PendingObligations : obligation[o].shift = drawer[d].shift
  BY <1>1
<1> HIDE DEF row
<1>7. /\ drawer' \in [Drawers -> Drawer] /\ counted' \in [Drawers -> BOOLEAN]
      /\ takeover' \in [Shifts -> Takeover]
      /\ drawer'[d] = row /\ \A e \in Drawers \ {d} : drawer'[e] = drawer[e]
      /\ \A e \in Drawers : drawer'[e].shift = drawer[e].shift
      /\ \A q \in Shifts :
            /\ handover[q].submitted =>
                  /\ drawer'[shift[q].drawer] = drawer[shift[q].drawer]
                  /\ counted'[shift[q].drawer] = counted[shift[q].drawer]
            /\ takeover'[q].done = takeover[q].done
            /\ takeover'[q].replacement = takeover[q].replacement
            /\ ~takeover'[q].count.usable
  BY <1>1, <1>3, <1>4, <1>5, <1>6, CashMoves
<1> QED
  BY <1>1, <1>5, <1>7

\* What the book says of a drawer.
LEMMA BookRows ==
    ASSUME CashInv, NEW d \in Drawers
    PROVE  /\ drawer[d].reserved = ReservedOf(d) /\ ReservedOf(d) \in Nat
           /\ drawer[d].reserved <= drawer[d].posted
           /\ drawer[d].posted \in Nat
<1>1. drawer[d].posted \in Nat /\ drawer[d].reserved \in Nat
  BY CashRows DEF Cash
<1>2. drawer[d].reserved = ReservedOf(d) /\ drawer[d].posted - drawer[d].reserved >= 0
  BY DEF CashInv, PromisesAreCovered, BookValid, Available
<1> QED
  BY <1>1, <1>2

\* Guest money, with the obligation that it serves or that it begins.
LEMMA GuestCashKeeps ==
    ASSUME CashInv, NEW s \in Shifts, NEW d \in Drawers, NEW posted \in Int, NEW reserved \in Int,
           GuestCash(s, d, posted, reserved), drawer[d].reserved + reserved >= 0,
           \/ shift[s].state = "OPEN"
           \/ \E o \in PendingObligations : obligation[o].shift = s,
           UNCHANGED <<people, keepers, handover, transfer>>,
           obligation' \in [Obligations -> Obligation], IsFiniteSet(PendingObligations)',
           \A e \in Drawers : ReservedOf(e)' = ReservedOf(e) + (IF e = d THEN reserved ELSE 0),
           \A o \in Obligations : obligation'[o].state = "PENDING" =>
               \/ obligation'[o] = obligation[o]
               \/ /\ shift[s].state = "OPEN"
                  /\ obligation'[o].shift = s /\ obligation'[o].drawer = shift[s].drawer
    PROVE  CashInv'
<1>1. /\ drawer' \in [Drawers -> Drawer] /\ counted' \in [Drawers -> BOOLEAN]
      /\ takeover' \in [Shifts -> Takeover]
      /\ drawer'[d].reserved = drawer[d].reserved + reserved /\ drawer'[d].reserved <= drawer'[d].posted
      /\ \A e \in Drawers \ {d} : drawer'[e] = drawer[e]
      /\ \A e \in Drawers : drawer'[e].shift = drawer[e].shift
      /\ \A q \in Shifts :
            /\ handover[q].submitted =>
                  /\ drawer'[shift[q].drawer] = drawer[shift[q].drawer]
                  /\ counted'[shift[q].drawer] = counted[shift[q].drawer]
            /\ takeover'[q].done = takeover[q].done
            /\ takeover'[q].replacement = takeover[q].replacement
            /\ ~takeover'[q].count.usable
  BY GuestCashRows
<1>2. TypeOK'
  BY <1>1 DEF CashInv, TypeOK, people, keepers
<1>3. \A e \in Drawers : drawer'[e].reserved = ReservedOf(e)' /\ Available(e)' >= 0
  <2> SUFFICES ASSUME NEW e \in Drawers
               PROVE  drawer'[e].reserved = ReservedOf(e)' /\ drawer'[e].posted - drawer'[e].reserved >= 0
    BY DEF Available
  <2>1. /\ drawer[e].reserved = ReservedOf(e) /\ ReservedOf(e) \in Nat
        /\ drawer[e].posted \in Nat /\ drawer[e].reserved <= drawer[e].posted
    BY BookRows
  <2>2. drawer'[e].posted \in Nat /\ drawer'[e].reserved \in Nat
    BY <1>1, CashAssumption DEF Drawer, Cash
  <2>3. CASE e = d
    BY <1>1, <2>1, <2>2, <2>3
  <2>4. CASE e # d
    <3>1. ReservedOf(e)' = ReservedOf(e)
      BY <2>1, <2>4
    <3> QED
      BY <1>1, <2>1, <2>4, <3>1
  <2> QED
    BY <2>3, <2>4
<1>4. MoneyStep
  <2>1. PendingTransfers' = PendingTransfers /\ transfer' = transfer
    BY DEF PendingTransfers
  <2>2. IsFiniteSet(PendingTransfers)'
    BY <2>1 DEF CashInv, RowsFit, ClaimRowsFit
  <2>3. \A o \in Obligations : obligation'[o].state = "PENDING" =>
           \/ /\ obligation[o].state = "PENDING"
              /\ obligation'[o].drawer = obligation[o].drawer
              /\ obligation'[o].shift = obligation[o].shift
              /\ obligation'[o].amount = obligation[o].amount
           \/ /\ obligation'[o].shift \in Shifts
              /\ shift[obligation'[o].shift].state = "OPEN"
              /\ obligation'[o].drawer = shift[obligation'[o].shift].drawer
    OBVIOUS
  <2> QED
    BY <1>1, <1>3, <2>1, <2>2, <2>3 DEF MoneyStep
<1> QED
  BY <1>2, <1>4, MoneyKeeps

\* An answer or a decision ends an obligation with guest money.
LEMMA GuestCashEnds ==
    ASSUME CashInv, NEW s \in Shifts, NEW o \in Obligations, NEW posted \in Int,
           obligation[o].state = "PENDING", obligation[o].shift = s,
           obligation' = [obligation EXCEPT ![o].state = "DONE"],
           GuestCash(s, obligation[o].drawer, posted, -obligation[o].amount),
           UNCHANGED <<people, keepers, handover, transfer>>
    PROVE  CashInv'
<1> DEFINE d == obligation[o].drawer
           amount == obligation[o].amount
<1>1. /\ \A e : ReservedOf(e)' = ReservedOf(e) - (IF e = d THEN amount ELSE 0)
      /\ amount <= ReservedOf(d)
      /\ IsFiniteSet(PendingObligations)'
      /\ obligation' \in [Obligations -> Obligation]
      /\ obligation'[o].state = "DONE" /\ \A p \in Obligations \ {o} : obligation'[p] = obligation[p]
  BY ObligationEnds
<1>2. o \in PendingObligations /\ amount \in Nat
  BY CashRows DEF PendingObligations
<1>3. d \in Drawers
  BY <1>2 DEF CashInv, RowsFit, ClaimRowsFit, ShiftRowsFit
<1>4. GuestCash(s, d, posted, -amount)
  OBVIOUS
<1> HIDE DEF d, amount
<1>5. \A e \in Drawers : ReservedOf(e)' = ReservedOf(e) + (IF e = d THEN -amount ELSE 0)
  BY <1>1, <1>2, BookRows
<1>6. -amount \in Int /\ drawer[d].reserved + (-amount) >= 0
  BY <1>1, <1>2, <1>3, BookRows
<1>7. \A p \in Obligations : obligation'[p].state = "PENDING" => obligation'[p] = obligation[p]
  BY <1>1
<1> QED
  BY <1>1, <1>2, <1>3, <1>4, <1>5, <1>6, <1>7, GuestCashKeeps

LEMMA ReceiveStep ==
    ASSUME CashInv, NEW a \in Staff, NEW s \in Shifts, NEW amount \in Amounts, Receive(a, s, amount)
    PROVE  CashInv'
<1> DEFINE d == shift[s].drawer
<1>1. /\ shift[s].state = "OPEN" /\ GuestCash(s, d, amount, 0)
      /\ UNCHANGED <<people, keepers, handover, transfer>> /\ obligation' = obligation
      /\ UNCHANGED claims
  BY DEF Receive, Working, claims
<1>2. d \in Drawers /\ amount \in Int
  BY <1>1, ShiftFacts, CashAssumption
<1> HIDE DEF d
<1>3. drawer[d].reserved + 0 >= 0
  BY <1>2, BookRows
<1>4. PendingObligations' = PendingObligations
  BY <1>1 DEF PendingObligations
<1>5. IsFiniteSet(PendingObligations)' /\ obligation' \in [Obligations -> Obligation]
  BY <1>1, <1>4 DEF CashInv, RowsFit, ClaimRowsFit, TypeOK
<1>6. \A e \in Drawers : ReservedOf(e)' = ReservedOf(e) + (IF e = d THEN 0 ELSE 0)
  BY <1>1, ReservedStays, BookRows
<1> QED
  BY <1>1, <1>2, <1>3, <1>5, <1>6, GuestCashKeeps

LEMMA ReserveRefundStep ==
    ASSUME CashInv, NEW a \in Staff, NEW s \in Shifts, NEW o \in Obligations, NEW amount \in Amounts,
           ReserveRefund(a, s, o, amount)
    PROVE  CashInv'
<1> DEFINE d == shift[s].drawer
           row == [state |-> "PENDING", drawer |-> d, shift |-> s, amount |-> amount]
<1>1. /\ shift[s].state = "OPEN" /\ GuestCash(s, d, 0, amount)
      /\ obligation[o].state = "NONE"
      /\ obligation' = [obligation EXCEPT ![o] = row]
      /\ UNCHANGED <<people, keepers, handover, transfer>>
  BY DEF ReserveRefund, Working
<1>2. d \in Drawers /\ amount \in Nat
  BY <1>1, ShiftFacts, CashAssumption
<1>3. /\ row \in Obligation /\ row.state = "PENDING" /\ row.drawer = d /\ row.shift = s
      /\ row.amount = amount
  BY <1>2 DEF Obligation, Progress, ShiftId
<1> HIDE DEF row
<1>4. /\ \A e : ReservedOf(e)' = ReservedOf(e) + (IF e = row.drawer THEN row.amount ELSE 0)
      /\ IsFiniteSet(PendingObligations)'
  <2>1. obligation[o].state # "PENDING"
    BY <1>1
  <2>2. UNCHANGED transfer
    BY <1>1
  <2> QED
    BY <1>1, <1>3, <2>1, <2>2, ObligationMade
<1>5. /\ obligation' \in [Obligations -> Obligation] /\ obligation'[o] = row
      /\ \A p \in Obligations \ {o} : obligation'[p] = obligation[p]
  BY <1>1, <1>3 DEF CashInv, TypeOK
<1>6. \A p \in Obligations : obligation'[p].state = "PENDING" =>
         \/ obligation'[p] = obligation[p]
         \/ /\ shift[s].state = "OPEN"
            /\ obligation'[p].shift = s /\ obligation'[p].drawer = shift[s].drawer
  BY <1>1, <1>3, <1>5
<1>7. \A e \in Drawers : ReservedOf(e)' = ReservedOf(e) + (IF e = d THEN amount ELSE 0)
  BY <1>3, <1>4
<1> HIDE DEF d
<1>8. drawer[d].reserved + amount >= 0
  BY <1>2, BookRows
<1>9. 0 \in Int /\ amount \in Int
  BY <1>2
<1> QED
  BY <1>1, <1>2, <1>4, <1>5, <1>6, <1>7, <1>8, <1>9, GuestCashKeeps

LEMMA CompleteRefundStep ==
    ASSUME CashInv, NEW a \in Staff, NEW s \in Shifts, NEW o \in Obligations, CompleteRefund(a, s, o)
    PROVE  CashInv'
<1>1. -obligation[o].amount \in Int
  BY CashRows
<1> QED
  BY <1>1, GuestCashEnds DEF CompleteRefund

LEMMA ReleaseRefundStep ==
    ASSUME CashInv, NEW a \in Staff, NEW o \in Obligations, ReleaseRefund(a, o)
    PROVE  CashInv'
<1>1. obligation[o].shift \in Shifts
  BY DEF ReleaseRefund, CashInv, RowsFit, ClaimRowsFit, PendingObligations
<1>2. /\ obligation[o].state = "PENDING"
      /\ obligation' = [obligation EXCEPT ![o].state = "DONE"]
      /\ GuestCash(obligation[o].shift, obligation[o].drawer, 0, -obligation[o].amount)
      /\ UNCHANGED <<people, keepers, handover, transfer>>
  BY DEF ReleaseRefund
<1>3. 0 \in Int
  OBVIOUS
<1> QED
  BY <1>1, <1>2, <1>3, GuestCashEnds

LEMMA ApproveCorrectionStep ==
    ASSUME CashInv, NEW a \in Staff, NEW s \in Shifts, NEW o \in Obligations, NEW delta \in Int,
           ApproveCorrection(a, s, o, delta)
    PROVE  CashInv'
<1>1. /\ obligation[o].state = "PENDING" /\ obligation[o].amount = 0
      /\ obligation[o].shift = s
      /\ obligation' = [obligation EXCEPT ![o].state = "DONE"]
      /\ GuestCash(s, obligation[o].drawer, delta, 0)
      /\ UNCHANGED <<people, keepers, handover, transfer>>
  BY DEF ApproveCorrection
<1>2. GuestCash(s, obligation[o].drawer, delta, -obligation[o].amount)
  BY <1>1
<1> QED
  BY <1>1, <1>2, GuestCashEnds

\* Obligations and transfers that hold back no cash.
LEMMA ClaimsOnly ==
    ASSUME CashInv, UNCHANGED <<people, keepers, takeover, handover, drawer, counted>>,
           obligation' \in [Obligations -> Obligation], transfer' \in [Transfers -> Transfer],
           IsFiniteSet(PendingObligations)', IsFiniteSet(PendingTransfers)',
           \A e \in Drawers : ReservedOf(e)' = ReservedOf(e),
           \A o \in Obligations : obligation'[o].state = "PENDING" =>
               \/ obligation'[o] = obligation[o]
               \/ /\ obligation'[o].shift \in Shifts
                  /\ shift[obligation'[o].shift].state = "OPEN"
                  /\ obligation'[o].drawer = shift[obligation'[o].shift].drawer,
           \A t \in Transfers : transfer'[t].state = "PENDING" =>
               /\ transfer[t].state = "PENDING"
               /\ transfer'[t].source = transfer[t].source
               /\ transfer'[t].dest = transfer[t].dest
               /\ transfer'[t].sourceShift = transfer[t].sourceShift
               /\ transfer'[t].destShift = transfer[t].destShift
    PROVE  CashInv'
<1>1. TypeOK'
  BY DEF CashInv, TypeOK, people, keepers
<1>2. \A e \in Drawers : drawer'[e].reserved = ReservedOf(e)' /\ Available(e)' >= 0
  BY DEF CashInv, PromisesAreCovered, BookValid, Available
<1>3. MoneyStep
  BY <1>2 DEF MoneyStep
<1> QED
  BY <1>1, <1>3, MoneyKeeps

LEMMA ObligeStep ==
    ASSUME CashInv, NEW a \in Staff, NEW s \in Shifts, NEW o \in Obligations, Oblige(a, s, o)
    PROVE  CashInv'
<1> DEFINE row == [state |-> "PENDING", drawer |-> shift[s].drawer, shift |-> s, amount |-> 0]
<1>1. /\ shift[s].state = "OPEN" /\ obligation[o].state = "NONE"
      /\ obligation' = [obligation EXCEPT ![o] = row]
      /\ UNCHANGED <<people, keepers, takeover, handover, drawer, counted>> /\ transfer' = transfer
  BY DEF Oblige, Working
<1>2. /\ row \in Obligation /\ row.state = "PENDING" /\ row.drawer = shift[s].drawer
      /\ row.shift = s /\ row.amount = 0
  BY <1>1, ShiftFacts DEF Obligation, Progress, ShiftId
<1> HIDE DEF row
<1>3. /\ \A e : ReservedOf(e)' = ReservedOf(e) + (IF e = row.drawer THEN row.amount ELSE 0)
      /\ IsFiniteSet(PendingObligations)'
  <2>1. obligation[o].state # "PENDING"
    BY <1>1
  <2> QED
    BY <1>1, <1>2, <2>1, ObligationMade
<1>4. \A e \in Drawers : ReservedOf(e)' = ReservedOf(e)
  BY <1>2, <1>3, BookRows
<1>5. /\ obligation' \in [Obligations -> Obligation] /\ obligation'[o] = row
      /\ \A p \in Obligations \ {o} : obligation'[p] = obligation[p]
  BY <1>1, <1>2 DEF CashInv, TypeOK
<1>6. transfer' \in [Transfers -> Transfer] /\ IsFiniteSet(PendingTransfers)'
  <2>1. PendingTransfers' = PendingTransfers
    BY <1>1 DEF PendingTransfers
  <2> QED
    BY <1>1, <2>1 DEF CashInv, TypeOK, RowsFit, ClaimRowsFit
<1>7. \A p \in Obligations : obligation'[p].state = "PENDING" =>
         \/ obligation'[p] = obligation[p]
         \/ /\ obligation'[p].shift \in Shifts
            /\ shift[obligation'[p].shift].state = "OPEN"
            /\ obligation'[p].drawer = shift[obligation'[p].shift].drawer
  BY <1>1, <1>2, <1>5
<1> QED
  BY <1>1, <1>3, <1>4, <1>5, <1>6, <1>7, ClaimsOnly

LEMMA SettleStep ==
    ASSUME CashInv, NEW o \in Obligations, Settle(o)
    PROVE  CashInv'
<1>1. /\ obligation[o].state = "PENDING" /\ obligation[o].amount = 0
      /\ obligation' = [obligation EXCEPT ![o].state = "DONE"]
      /\ UNCHANGED <<people, keepers, takeover, handover, drawer, counted>> /\ transfer' = transfer
  BY DEF Settle
<1>2. /\ \A d : ReservedOf(d)' =
                   ReservedOf(d) - (IF d = obligation[o].drawer THEN obligation[o].amount ELSE 0)
      /\ IsFiniteSet(PendingObligations)'
      /\ obligation' \in [Obligations -> Obligation]
      /\ obligation'[o].state = "DONE" /\ \A p \in Obligations \ {o} : obligation'[p] = obligation[p]
  BY <1>1, ObligationEnds
<1>3. \A e \in Drawers : ReservedOf(e)' = ReservedOf(e)
  BY <1>1, <1>2, BookRows
<1>4. transfer' \in [Transfers -> Transfer] /\ IsFiniteSet(PendingTransfers)'
  <2>1. PendingTransfers' = PendingTransfers
    BY <1>1 DEF PendingTransfers
  <2> QED
    BY <1>1, <2>1 DEF CashInv, TypeOK, RowsFit, ClaimRowsFit
<1>5. \A p \in Obligations : obligation'[p].state = "PENDING" => obligation'[p] = obligation[p]
  BY <1>2
<1> QED
  BY <1>1, <1>2, <1>3, <1>4, <1>5, ClaimsOnly

LEMMA RequestCancelStep ==
    ASSUME CashInv, NEW a \in Staff, NEW t \in Transfers, RequestCancel(a, t)
    PROVE  CashInv'
<1> DEFINE row == [transfer[t] EXCEPT !.cancel = TRUE]
<1>1. /\ transfer' = [transfer EXCEPT ![t] = row]
      /\ UNCHANGED <<people, keepers, takeover, handover, drawer, counted>>
      /\ obligation' = obligation
  BY DEF RequestCancel
<1>2. /\ row \in Transfer /\ row.state = transfer[t].state /\ row.amount = transfer[t].amount
      /\ row.source = transfer[t].source /\ row.dest = transfer[t].dest
      /\ row.sourceShift = transfer[t].sourceShift /\ row.destShift = transfer[t].destShift
  BY CashRows DEF Transfer
<1> HIDE DEF row
<1>3. /\ transfer' \in [Transfers -> Transfer]
      /\ \A p \in Transfers : /\ transfer'[p].state = transfer[p].state
                              /\ transfer'[p].amount = transfer[p].amount
                              /\ transfer'[p].source = transfer[p].source
                              /\ transfer'[p].dest = transfer[p].dest
                              /\ transfer'[p].sourceShift = transfer[p].sourceShift
                              /\ transfer'[p].destShift = transfer[p].destShift
  BY <1>1, <1>2 DEF CashInv, TypeOK
<1>4. PendingTransfers' = PendingTransfers /\ PendingObligations' = PendingObligations
  BY <1>1, <1>3 DEF PendingTransfers, PendingObligations
<1>5. \A e \in Drawers : ReservedOf(e)' = ReservedOf(e)
  <2>1. DOMAIN transfer = Transfers /\ DOMAIN transfer' = Transfers
    BY <1>3 DEF CashInv, TypeOK
  <2>2. AmountIn(transfer)' = AmountIn(transfer) /\ AmountIn(obligation)' = AmountIn(obligation)
    BY <1>1, <1>3, <2>1 DEF AmountIn
  <2>3. \A e : TransfersFrom(e)' = TransfersFrom(e) /\ ObligationsOf(e)' = ObligationsOf(e)
    BY <1>1, <1>3 DEF TransfersFrom, ObligationsOf
  <2> QED
    BY <2>2, <2>3 DEF ReservedOf
<1>6. /\ IsFiniteSet(PendingObligations)' /\ IsFiniteSet(PendingTransfers)'
      /\ obligation' \in [Obligations -> Obligation]
  BY <1>1, <1>4 DEF CashInv, TypeOK, RowsFit, ClaimRowsFit
<1> QED
  BY <1>1, <1>3, <1>5, <1>6, ClaimsOnly

LEMMA SpendStep ==
    ASSUME CashInv, NEW d \in Drawers, NEW amount \in Amounts, Spend(d, amount)
    PROVE  CashInv'
<1> DEFINE row == [drawer[d] EXCEPT !.posted = drawer[d].posted - amount]
<1>1. /\ ~Blocked(d) /\ amount <= drawer[d].posted - drawer[d].reserved
      /\ drawer' = [drawer EXCEPT ![d] = row]
      /\ counted' = [counted EXCEPT ![d] = FALSE] /\ takeover' = StaleCounts
      /\ UNCHANGED <<people, keepers, handover, claims>>
  BY DEF Spend, Available
<1>2. /\ drawer[d].posted - amount \in Cash /\ amount \in Nat
      /\ drawer[d].posted \in Cash /\ drawer[d].reserved \in Nat
      /\ MaxCash \in Nat
  <2>1. /\ drawer[d].posted \in Cash /\ drawer[d].reserved \in Cash /\ MaxCash \in Nat
        /\ amount \in Nat
    BY CashRows, CashAssumption
  <2> QED
    BY <1>1, <2>1 DEF Cash
<1>3. /\ row \in Drawer /\ row.posted = drawer[d].posted - amount
      /\ row.reserved = drawer[d].reserved /\ row.shift = drawer[d].shift
  <2>1. \A x \in Drawer, p \in Cash : /\ [x EXCEPT !.posted = p] \in Drawer
                                      /\ [x EXCEPT !.posted = p].posted = p
                                      /\ [x EXCEPT !.posted = p].reserved = x.reserved
                                      /\ [x EXCEPT !.posted = p].shift = x.shift
    BY DEF Drawer
  <2> QED
    BY <1>2, <2>1, CashRows
<1> HIDE DEF row
<1>4. /\ drawer' \in [Drawers -> Drawer] /\ counted' \in [Drawers -> BOOLEAN]
      /\ takeover' \in [Shifts -> Takeover]
      /\ drawer'[d] = row /\ \A e \in Drawers \ {d} : drawer'[e] = drawer[e]
      /\ \A e \in Drawers : drawer'[e].shift = drawer[e].shift
      /\ \A s \in Shifts :
            /\ handover[s].submitted =>
                  /\ drawer'[shift[s].drawer] = drawer[shift[s].drawer]
                  /\ counted'[shift[s].drawer] = counted[shift[s].drawer]
            /\ takeover'[s].done = takeover[s].done
            /\ takeover'[s].replacement = takeover[s].replacement
            /\ ~takeover'[s].count.usable
  BY <1>1, <1>3, CashMoves
<1>5. TypeOK'
  BY <1>1, <1>4 DEF CashInv, TypeOK, people, keepers, claims
<1>6. \A e \in Drawers : drawer'[e].reserved = ReservedOf(e)' /\ Available(e)' >= 0
  <2> SUFFICES ASSUME NEW e \in Drawers
               PROVE  drawer'[e].reserved = ReservedOf(e)' /\ drawer'[e].posted - drawer'[e].reserved >= 0
    BY DEF Available
  <2>1. ReservedOf(e)' = ReservedOf(e)
    BY <1>1, ReservedStays
  <2>2. CASE e = d
    BY <1>1, <1>2, <1>3, <1>4, <2>1, <2>2, BookRows DEF Cash
  <2>3. CASE e # d
    BY <1>4, <2>1, <2>3, BookRows
  <2> QED
    BY <2>2, <2>3
<1>7. MoneyStep
  <2>1. /\ PendingTransfers' = PendingTransfers /\ PendingObligations' = PendingObligations
        /\ transfer' = transfer /\ obligation' = obligation
    BY <1>1 DEF claims, PendingTransfers, PendingObligations
  <2>2. IsFiniteSet(PendingTransfers)' /\ IsFiniteSet(PendingObligations)'
    BY <2>1 DEF CashInv, RowsFit, ClaimRowsFit
  <2> QED
    BY <1>1, <1>4, <1>6, <2>1, <2>2 DEF MoneyStep
<1> QED
  BY <1>5, <1>7, MoneyKeeps

LEMMA ReserveTransferStep ==
    ASSUME CashInv, NEW a \in Staff, NEW t \in Transfers, NEW source \in Drawers, NEW dest \in Drawers,
           NEW amount \in Amounts, ReserveTransfer(a, t, source, dest, amount)
    PROVE  CashInv'
<1> DEFINE made == [state |-> "PENDING", source |-> source, dest |-> dest,
                    sourceShift |-> drawer[source].shift, destShift |-> drawer[dest].shift,
                    amount |-> amount, initiator |-> a, cancel |-> FALSE]
           row == [drawer[source] EXCEPT !.reserved = drawer[source].reserved + amount]
<1>1. /\ source # dest /\ ~Blocked(source) /\ ~Blocked(dest)
      /\ transfer[t].state = "NONE"
      /\ amount <= drawer[source].posted - drawer[source].reserved
      /\ transfer' = [transfer EXCEPT ![t] = made]
      /\ drawer' = [drawer EXCEPT ![source] = row]
      /\ counted' = [counted EXCEPT ![source] = FALSE] /\ takeover' = StaleCounts
      /\ UNCHANGED <<people, keepers, handover>> /\ obligation' = obligation
  BY DEF ReserveTransfer, Available
<1>2. /\ drawer[source].reserved + amount \in Cash /\ amount \in Nat
      /\ drawer[source].posted \in Nat /\ drawer[source].reserved \in Nat
  <2>1. /\ drawer[source].posted \in Cash /\ drawer[source].reserved \in Cash /\ MaxCash \in Nat
        /\ amount \in Nat
    BY CashRows, CashAssumption
  <2> QED
    BY <1>1, <2>1 DEF Cash
<1>3. /\ row \in Drawer /\ row.posted = drawer[source].posted
      /\ row.reserved = drawer[source].reserved + amount /\ row.shift = drawer[source].shift
  <2>1. \A x \in Drawer, p \in Cash : /\ [x EXCEPT !.reserved = p] \in Drawer
                                      /\ [x EXCEPT !.reserved = p].reserved = p
                                      /\ [x EXCEPT !.reserved = p].posted = x.posted
                                      /\ [x EXCEPT !.reserved = p].shift = x.shift
    BY DEF Drawer
  <2> QED
    BY <1>2, <2>1, CashRows
<1>4. /\ made \in Transfer /\ made.state = "PENDING" /\ made.source = source /\ made.dest = dest
      /\ made.sourceShift = drawer[source].shift /\ made.destShift = drawer[dest].shift
      /\ made.amount = amount
  <2>1. drawer[source].shift \in ShiftId /\ drawer[dest].shift \in ShiftId
    BY CashRows
  <2> QED
    BY <2>1 DEF Transfer, Progress, Account
<1> HIDE DEF row, made
<1>5. /\ drawer' \in [Drawers -> Drawer] /\ counted' \in [Drawers -> BOOLEAN]
      /\ takeover' \in [Shifts -> Takeover]
      /\ drawer'[source] = row /\ \A e \in Drawers \ {source} : drawer'[e] = drawer[e]
      /\ \A e \in Drawers : drawer'[e].shift = drawer[e].shift
      /\ \A s \in Shifts :
            /\ handover[s].submitted =>
                  /\ drawer'[shift[s].drawer] = drawer[shift[s].drawer]
                  /\ counted'[shift[s].drawer] = counted[shift[s].drawer]
            /\ takeover'[s].done = takeover[s].done
            /\ takeover'[s].replacement = takeover[s].replacement
            /\ ~takeover'[s].count.usable
  BY <1>1, <1>3, CashMoves
<1>6. /\ transfer' \in [Transfers -> Transfer] /\ transfer'[t] = made
      /\ \A p \in Transfers \ {t} : transfer'[p] = transfer[p]
  BY <1>1, <1>4 DEF CashInv, TypeOK
<1>7. /\ \A e : ReservedOf(e)' = ReservedOf(e) + (IF e = source THEN amount ELSE 0)
      /\ IsFiniteSet(PendingTransfers)'
  <2>1. transfer[t].state # "PENDING"
    BY <1>1
  <2>2. /\ \A e : ReservedOf(e)' = ReservedOf(e) + (IF e = made.source THEN made.amount ELSE 0)
        /\ IsFiniteSet(PendingTransfers)'
    BY <1>1, <1>4, <2>1, TransferMade
  <2> QED
    BY <1>4, <2>2
<1>8. TypeOK'
  BY <1>1, <1>5, <1>6 DEF CashInv, TypeOK, people, keepers
<1>9. \A e \in Drawers : drawer'[e].reserved = ReservedOf(e)' /\ Available(e)' >= 0
  <2> SUFFICES ASSUME NEW e \in Drawers
               PROVE  drawer'[e].reserved = ReservedOf(e)' /\ drawer'[e].posted - drawer'[e].reserved >= 0
    BY DEF Available
  <2>1. CASE e = source
    BY <1>1, <1>2, <1>3, <1>5, <1>7, <2>1, BookRows
  <2>2. CASE e # source
    <3>1. ReservedOf(e)' = ReservedOf(e)
      BY <1>7, <2>2, BookRows
    <3> QED
      BY <1>5, <2>2, <3>1, BookRows
  <2> QED
    BY <2>1, <2>2
<1>10. MoneyStep
  <2>1. PendingObligations' = PendingObligations
    BY <1>1 DEF PendingObligations
  <2>2. IsFiniteSet(PendingObligations)'
    BY <2>1 DEF CashInv, RowsFit, ClaimRowsFit
  <2>3. \A p \in Transfers : transfer'[p].state = "PENDING" =>
          \/ /\ transfer[p].state = "PENDING"
             /\ transfer'[p].source = transfer[p].source
             /\ transfer'[p].dest = transfer[p].dest
             /\ transfer'[p].sourceShift = transfer[p].sourceShift
             /\ transfer'[p].destShift = transfer[p].destShift
          \/ /\ transfer'[p].source \in Drawers /\ transfer'[p].dest \in Drawers
             /\ transfer'[p].source # transfer'[p].dest
             /\ ~Blocked(transfer'[p].source) /\ ~Blocked(transfer'[p].dest)
             /\ transfer'[p].sourceShift = drawer[transfer'[p].source].shift
             /\ transfer'[p].destShift = drawer[transfer'[p].dest].shift
    BY <1>1, <1>4, <1>6
  <2> QED
    BY <1>1, <1>5, <1>7, <1>9, <2>2, <2>3 DEF MoneyStep
<1> QED
  BY <1>8, <1>10, MoneyKeeps

\* A transfer that ends, however the cash went.
LEMMA TransferOver ==
    ASSUME CashInv, NEW t \in Transfers, transfer[t].state = "PENDING",
           transfer' = [transfer EXCEPT ![t].state = "DONE"],
           UNCHANGED <<people, keepers, handover, obligation>>,
           drawer' \in [Drawers -> Drawer], counted' \in [Drawers -> BOOLEAN],
           takeover' = StaleCounts,
           \A e \in Drawers :
               /\ drawer'[e].shift = drawer[e].shift
               /\ drawer'[e].reserved =
                     drawer[e].reserved - (IF e = transfer[t].source THEN transfer[t].amount ELSE 0)
               /\ drawer'[e].reserved <= drawer'[e].posted
               /\ e \notin {transfer[t].source, transfer[t].dest} =>
                     drawer'[e] = drawer[e] /\ counted'[e] = counted[e]
    PROVE  CashInv'
<1>1. /\ \A e : ReservedOf(e)' =
                   ReservedOf(e) - (IF e = transfer[t].source THEN transfer[t].amount ELSE 0)
      /\ IsFiniteSet(PendingTransfers)'
      /\ transfer' \in [Transfers -> Transfer]
      /\ transfer'[t].state = "DONE" /\ \A p \in Transfers \ {t} : transfer'[p] = transfer[p]
  BY TransferEnds
<1>2. t \in PendingTransfers
  BY DEF PendingTransfers
<1>3. /\ takeover' \in [Shifts -> Takeover]
      /\ \A s \in Shifts : /\ takeover'[s].done = takeover[s].done
                           /\ takeover'[s].replacement = takeover[s].replacement
                           /\ ~takeover'[s].count.usable
  BY StaleCountsRows
<1>4. \A s \in Shifts : handover[s].submitted =>
         /\ drawer'[shift[s].drawer] = drawer[shift[s].drawer]
         /\ counted'[shift[s].drawer] = counted[shift[s].drawer]
  <2> SUFFICES ASSUME NEW s \in Shifts, handover[s].submitted
               PROVE  /\ shift[s].drawer \in Drawers
                      /\ shift[s].drawer \notin {transfer[t].source, transfer[t].dest}
    OBVIOUS
  <2> QED
    BY Frozen DEF Pending
<1>5. TypeOK'
  BY <1>1, <1>3 DEF CashInv, TypeOK, people, keepers
<1>6. \A e \in Drawers : drawer'[e].reserved = ReservedOf(e)' /\ Available(e)' >= 0
  <2> SUFFICES ASSUME NEW e \in Drawers
               PROVE  drawer'[e].reserved = ReservedOf(e)' /\ drawer'[e].posted - drawer'[e].reserved >= 0
    BY DEF Available
  <2>1. drawer'[e].posted \in Nat /\ drawer'[e].reserved \in Nat
    BY CashAssumption DEF Drawer, Cash
  <2> QED
    BY <1>1, <2>1, BookRows
<1>7. MoneyStep
  <2>1. PendingObligations' = PendingObligations /\ obligation' = obligation
    BY DEF PendingObligations
  <2>2. IsFiniteSet(PendingObligations)'
    BY <2>1 DEF CashInv, RowsFit, ClaimRowsFit
  <2>3. \A p \in Transfers : transfer'[p].state = "PENDING" => transfer'[p] = transfer[p]
    BY <1>1
  <2> QED
    BY <1>1, <1>3, <1>4, <1>6, <2>1, <2>2, <2>3 DEF MoneyStep
<1> QED
  BY <1>5, <1>7, MoneyKeeps

\* What a pending transfer holds back.
LEMMA TransferRows ==
    ASSUME CashInv, NEW t \in Transfers, transfer[t].state = "PENDING"
    PROVE  /\ transfer[t].source \in Drawers /\ transfer[t].dest \in Drawers
           /\ transfer[t].source # transfer[t].dest
           /\ transfer[t].amount \in Nat
           /\ transfer[t].amount <= drawer[transfer[t].source].reserved
<1> DEFINE d == transfer[t].source
           done == [transfer EXCEPT ![t].state = "DONE"]
<1>1. /\ d \in Drawers /\ transfer[t].dest \in Drawers /\ d # transfer[t].dest
  BY DEF CashInv, RowsFit, ClaimRowsFit, PendingTransfers
<1>2. transfer[t].amount \in Nat
  BY CashRows
<1>3. t \in TransfersFrom(d)
  BY DEF TransfersFrom
<1>4. /\ IsFiniteSet(TransfersFrom(d)) /\ IsFiniteSet(ObligationsOf(d))
      /\ \A p \in TransfersFrom(d) : AmountIn(transfer)[p] \in Nat
      /\ \A o \in ObligationsOf(d) : AmountIn(obligation)[o] \in Nat
  BY ReserveRows
<1>5. AmountIn(transfer)[t] = transfer[t].amount
  BY DEF AmountIn, CashInv, TypeOK
<1>6. AmountIn(transfer)[t] <= SumFunctionOnSet(AmountIn(transfer), TransfersFrom(d))
  BY <1>3, <1>4, SumCovers
<1>7. /\ SumFunctionOnSet(AmountIn(transfer), TransfersFrom(d)) \in Nat
      /\ SumFunctionOnSet(AmountIn(obligation), ObligationsOf(d)) \in Nat
  BY <1>4, SumNat
<1>8. transfer[t].amount <= ReservedOf(d)
  BY <1>2, <1>5, <1>6, <1>7 DEF ReservedOf
<1> QED
  BY <1>1, <1>2, <1>8, BookRows

LEMMA ReturnedStep ==
    ASSUME CashInv, NEW t \in Transfers, NEW s, Returned(t, s)
    PROVE  CashInv'
<1> DEFINE d == transfer[t].source
           amount == transfer[t].amount
           row == [drawer[d] EXCEPT !.reserved = drawer[d].reserved - amount]
<1>1. /\ transfer[t].state = "PENDING"
      /\ transfer' = [transfer EXCEPT ![t].state = "DONE"]
      /\ drawer' = [drawer EXCEPT ![d] = row]
      /\ counted' = [counted EXCEPT ![d] = FALSE] /\ takeover' = StaleCounts
      /\ UNCHANGED <<people, keepers, handover, obligation>>
  BY DEF Returned
<1>2. d \in Drawers /\ amount \in Nat /\ amount <= drawer[d].reserved
  BY <1>1, TransferRows
<1>3. drawer[d].reserved - amount \in Cash
  <2>1. drawer[d].reserved \in Cash /\ MaxCash \in Nat
    BY <1>2, CashRows
  <2> HIDE DEF d, amount
  <2> QED
    BY <1>2, <2>1 DEF Cash
<1>4. /\ row \in Drawer /\ row.posted = drawer[d].posted
      /\ row.reserved = drawer[d].reserved - amount /\ row.shift = drawer[d].shift
  <2>1. \A x \in Drawer, p \in Cash : /\ [x EXCEPT !.reserved = p] \in Drawer
                                      /\ [x EXCEPT !.reserved = p].reserved = p
                                      /\ [x EXCEPT !.reserved = p].posted = x.posted
                                      /\ [x EXCEPT !.reserved = p].shift = x.shift
    BY DEF Drawer
  <2> QED
    BY <1>2, <1>3, <2>1, CashRows
<1> HIDE DEF row
<1>5. /\ drawer' \in [Drawers -> Drawer] /\ counted' \in [Drawers -> BOOLEAN]
      /\ drawer'[d] = row /\ \A e \in Drawers \ {d} : drawer'[e] = drawer[e]
      /\ \A e \in Drawers \ {d} : counted'[e] = counted[e]
  BY <1>1, <1>2, <1>4 DEF CashInv, TypeOK
<1>6. ASSUME NEW e \in Drawers
      PROVE  /\ drawer'[e].shift = drawer[e].shift
             /\ drawer'[e].reserved = drawer[e].reserved - (IF e = d THEN amount ELSE 0)
             /\ drawer'[e].reserved <= drawer'[e].posted
             /\ e \notin {d, transfer[t].dest} => drawer'[e] = drawer[e] /\ counted'[e] = counted[e]
  <2>1. drawer[e].posted \in Nat /\ drawer[e].reserved \in Nat /\ drawer[e].reserved <= drawer[e].posted
    BY BookRows
  <2> HIDE DEF d, amount
  <2>2. CASE e = d
    BY <1>2, <1>4, <1>5, <2>1, <2>2
  <2>3. CASE e # d
    BY <1>5, <2>1, <2>3
  <2> QED
    BY <2>2, <2>3
<1> QED
  BY <1>1, <1>5, <1>6, TransferOver

LEMMA ConfirmedStep ==
    ASSUME CashInv, NEW t \in Transfers, NEW s, Confirmed(t, s)
    PROVE  CashInv'
<1> DEFINE x == transfer[t].source
           y == transfer[t].dest
           amount == transfer[t].amount
<1>1. /\ transfer[t].state = "PENDING"
      /\ drawer[y].posted + amount <= MaxCash
      /\ transfer' = [transfer EXCEPT ![t].state = "DONE"]
      /\ drawer' = [drawer EXCEPT ![x].posted = @ - amount, ![x].reserved = @ - amount,
                                  ![y].posted = @ + amount]
      /\ counted' = [counted EXCEPT ![x] = FALSE, ![y] = FALSE] /\ takeover' = StaleCounts
      /\ UNCHANGED <<people, keepers, handover, obligation>>
  BY DEF Confirmed
<1>2. x \in Drawers /\ y \in Drawers /\ x # y /\ amount \in Nat /\ amount <= drawer[x].reserved
  BY <1>1, TransferRows
<1> HIDE DEF x, y, amount
<1>3. /\ drawer[x] \in Drawer /\ drawer[x].posted \in Nat /\ drawer[x].reserved \in Nat
      /\ drawer[y] \in Drawer /\ drawer[y].posted \in Nat
      /\ drawer[x].posted <= MaxCash /\ drawer[x].reserved <= MaxCash /\ MaxCash \in Nat
      /\ drawer[x].reserved <= drawer[x].posted
      /\ drawer[x].posted \in Int /\ drawer[x].reserved \in Int
  BY <1>2, CashRows, BookRows DEF Cash
<1>4. /\ drawer[x].posted - amount \in Cash /\ drawer[x].reserved - amount \in Cash
      /\ drawer[y].posted + amount \in Cash
  BY <1>1, <1>2, <1>3 DEF Cash
<1> DEFINE taken == [[drawer[x] EXCEPT !.posted = drawer[x].posted - amount]
                        EXCEPT !.reserved = drawer[x].reserved - amount]
           given == [drawer[y] EXCEPT !.posted = drawer[y].posted + amount]
<1>5. \A z \in Drawer, p \in Cash :
         /\ [z EXCEPT !.posted = p] \in Drawer /\ [z EXCEPT !.reserved = p] \in Drawer
         /\ [z EXCEPT !.posted = p].posted = p /\ [z EXCEPT !.reserved = p].reserved = p
         /\ [z EXCEPT !.posted = p].reserved = z.reserved /\ [z EXCEPT !.reserved = p].posted = z.posted
         /\ [z EXCEPT !.posted = p].shift = z.shift /\ [z EXCEPT !.reserved = p].shift = z.shift
  BY DEF Drawer
<1>6. /\ taken \in Drawer /\ taken.posted = drawer[x].posted - amount
      /\ taken.reserved = drawer[x].reserved - amount /\ taken.shift = drawer[x].shift
  <2> DEFINE half == [drawer[x] EXCEPT !.posted = drawer[x].posted - amount]
             r == drawer[x].reserved - amount
  <2>1. half \in Drawer /\ half.posted = drawer[x].posted - amount /\ half.shift = drawer[x].shift
    BY <1>3, <1>4, <1>5
  <2>2. taken = [half EXCEPT !.reserved = r] /\ r \in Cash
    BY <1>4
  <2> HIDE DEF half, r, taken
  <2>3. /\ taken \in Drawer /\ taken.posted = half.posted /\ taken.reserved = r
        /\ taken.shift = half.shift
    BY <1>5, <2>1, <2>2
  <2> QED
    BY <2>1, <2>3 DEF r
<1>7. /\ given \in Drawer /\ given.posted = drawer[y].posted + amount
      /\ given.reserved = drawer[y].reserved /\ given.shift = drawer[y].shift
  BY <1>3, <1>4, <1>5
<1>8. [drawer[x] EXCEPT !.posted = drawer[x].posted - amount].reserved = drawer[x].reserved
  BY <1>3, <1>4, <1>5
<1>9. /\ drawer'[x] = taken /\ drawer'[y] = given
      /\ \A e \in Drawers \ {x, y} : drawer'[e] = drawer[e]
      /\ drawer' = [e \in Drawers |-> drawer'[e]]
  BY <1>1, <1>2, <1>8 DEF CashInv, TypeOK
<1>10. /\ counted' \in [Drawers -> BOOLEAN]
       /\ \A e \in Drawers \ {x, y} : counted'[e] = counted[e]
  BY <1>1, <1>2 DEF CashInv, TypeOK
<1> HIDE DEF taken, given
<1>11. drawer' \in [Drawers -> Drawer]
  <2>1. \A e \in Drawers : drawer'[e] \in Drawer
    BY <1>6, <1>7, <1>9, CashRows
  <2> QED
    BY <1>9, <2>1
<1>12. ASSUME NEW e \in Drawers
       PROVE  /\ drawer'[e].shift = drawer[e].shift
              /\ drawer'[e].reserved = drawer[e].reserved - (IF e = x THEN amount ELSE 0)
              /\ drawer'[e].reserved <= drawer'[e].posted
              /\ e \notin {x, y} => drawer'[e] = drawer[e] /\ counted'[e] = counted[e]
  <2>1. drawer[e].posted \in Nat /\ drawer[e].reserved \in Nat /\ drawer[e].reserved <= drawer[e].posted
    BY BookRows
  <2>2. CASE e = x
    BY <1>2, <1>3, <1>6, <1>9, <2>2
  <2>3. CASE e = y
    BY <1>2, <1>7, <1>9, <2>1, <2>3
  <2>4. CASE e # x /\ e # y
    BY <1>9, <1>10, <2>1, <2>4
  <2> QED
    BY <2>2, <2>3, <2>4
<1> QED
  BY <1>1, <1>10, <1>11, <1>12, TransferOver DEF x, y, amount

-----------------------------------------------------------------------------
(* Openings, handovers and closes.                                         *)

\* A shift that begins.
LEMMA NewShiftRow ==
    ASSUME NEW a \in Staff, NEW d \in Drawers
    PROVE  NewShift(a, d) \in Shift
  BY DEF NewShift, Shift, Account

\* The row that a drawer passes to its next keeper, and the shift behind it.
LEMMA PassRows ==
    ASSUME CashInv, NEW s \in Shifts, NEW d \in Drawers, NEW a \in Staff, NEW actual \in Cash,
           NEW closing \in BOOLEAN, Pass(s, d, a, actual, closing),
           s <= opened, drawer[d].shift = s, closing \/ shift[s].state = "CLOSED"
    PROVE  /\ opened' \in 0 .. MaxShifts /\ shift' \in [Shifts -> Shift]
           /\ drawer' \in [Drawers -> Drawer] /\ counted' \in [Drawers -> BOOLEAN]
           /\ opened' = IF Continues(a) THEN opened + 1 ELSE opened
           /\ Continues(a) => opened < MaxShifts /\ shift'[opened + 1] = NewShift(a, d)
           /\ shift'[s].state = "CLOSED" /\ shift'[s].work = "CLOSED"
           /\ shift'[s].owner = shift[s].owner /\ shift'[s].drawer = shift[s].drawer
           /\ \A q \in Shifts \ {s} : ~(Continues(a) /\ q = opened + 1) => shift'[q] = shift[q]
           /\ drawer'[d].shift = IF Continues(a) THEN opened + 1 ELSE s
           /\ drawer'[d].reserved = drawer[d].reserved /\ drawer'[d].posted = actual
           /\ \A e \in Drawers \ {d} : drawer'[e] = drawer[e] /\ counted'[e] = counted[e]
<1> DEFINE n == opened + 1
           closed == [owner |-> shift[s].owner, drawer |-> shift[s].drawer, state |-> "CLOSED",
                      work |-> "CLOSED", late |-> locked]
           over == IF closing THEN closed ELSE shift[s]
           row == [posted |-> actual, reserved |-> drawer[d].reserved,
                   shift |-> IF Continues(a) THEN n ELSE s]
<1>1. /\ opened \in 0 .. MaxShifts /\ shift[s] \in Shift /\ drawer[d] \in Drawer
      /\ MaxShifts \in Nat /\ s \in Nat /\ locked \in BOOLEAN
      /\ shift \in [Shifts -> Shift] /\ drawer \in [Drawers -> Drawer]
      /\ counted \in [Drawers -> BOOLEAN]
  BY CashRows DEF Shifts, CashInv, TypeOK
<1>2. /\ Continues(a) => opened < MaxShifts
      /\ opened' = IF Continues(a) THEN n ELSE opened
      /\ shift' = ShiftAfter(s, d, a, closing)
      /\ drawer' = [drawer EXCEPT ![d].posted = actual,
                                  ![d].shift = IF Continues(a) THEN n ELSE s]
      /\ counted' = [counted EXCEPT ![d] = FALSE]
  BY DEF Pass
<1>3. opened' \in 0 .. MaxShifts /\ n # s /\ (Continues(a) => n \in Shifts)
  BY <1>1, <1>2 DEF Shifts
<1>4. over \in Shift /\ over.state = "CLOSED" /\ over.work = "CLOSED"
      /\ over.owner = shift[s].owner /\ over.drawer = shift[s].drawer
  <2>1. CASE closing
    <3>1. closed \in Shift
      <4>1. shift[s].owner \in Account /\ shift[s].drawer \in Drawers \cup {None}
        BY <1>1 DEF Shift
      <4> QED
        BY <1>1, <4>1 DEF Shift
    <3> QED
      BY <2>1, <3>1
  <2>2. CASE ~closing
    BY <1>1, <2>2 DEF CashInv, RowsFit, ShiftRowsFit
  <2> QED
    BY <2>1, <2>2
<1>5. shift' = IF Continues(a) THEN [[shift EXCEPT ![s] = over] EXCEPT ![n] = NewShift(a, d)]
               ELSE [shift EXCEPT ![s] = over]
  <2>1. CASE closing
    <3>1. [[[shift[s] EXCEPT !.state = "CLOSED"] EXCEPT !.work = "CLOSED"] EXCEPT !.late = locked] = closed
      <4>1. [shift[s] EXCEPT !.state = "CLOSED"] =
               [owner |-> shift[s].owner, drawer |-> shift[s].drawer, state |-> "CLOSED",
                work |-> shift[s].work, late |-> shift[s].late]
        BY <1>1 DEF Shift
      <4>2. [[owner |-> shift[s].owner, drawer |-> shift[s].drawer, state |-> "CLOSED",
              work |-> shift[s].work, late |-> shift[s].late] EXCEPT !.work = "CLOSED"] =
               [owner |-> shift[s].owner, drawer |-> shift[s].drawer, state |-> "CLOSED",
                work |-> "CLOSED", late |-> shift[s].late]
        OBVIOUS
      <4>3. [[owner |-> shift[s].owner, drawer |-> shift[s].drawer, state |-> "CLOSED",
              work |-> "CLOSED", late |-> shift[s].late] EXCEPT !.late = locked] = closed
        OBVIOUS
      <4> QED
        BY <4>1, <4>2, <4>3
    <3>2. [shift EXCEPT ![s].state = "CLOSED", ![s].work = "CLOSED", ![s].late = locked] =
          [shift EXCEPT ![s] = [[[shift[s] EXCEPT !.state = "CLOSED"] EXCEPT !.work = "CLOSED"]
                                   EXCEPT !.late = locked]]
      BY <1>1
    <3>3. [shift EXCEPT ![s].state = "CLOSED", ![s].work = "CLOSED", ![s].late = locked] =
          [shift EXCEPT ![s] = over]
      <4>1. over = closed
        BY <2>1
      <4> HIDE DEF over, closed
      <4> QED
        BY <3>1, <3>2, <4>1
    <3> HIDE DEF over, n
    <3> QED
      BY <1>2, <2>1, <3>3 DEF ShiftAfter, n
  <2>2. CASE ~closing
    <3>1. [shift EXCEPT ![s] = over] = shift
      BY <1>1, <2>2
    <3> HIDE DEF over, n
    <3> QED
      BY <1>2, <2>2, <3>1 DEF ShiftAfter, n
  <2> QED
    BY <2>1, <2>2
<1>6. row \in Drawer /\ row.shift = (IF Continues(a) THEN n ELSE s)
      /\ row.reserved = drawer[d].reserved /\ row.posted = actual
  <2>1. drawer[d].reserved \in Cash /\ (IF Continues(a) THEN n ELSE s) \in ShiftId
    BY <1>1, <1>3, CashRows DEF ShiftId
  <2> QED
    BY <2>1 DEF Drawer
<1>7. drawer' = [drawer EXCEPT ![d] = row]
  <2> DEFINE next == IF Continues(a) THEN n ELSE s
             half == [posted |-> actual, reserved |-> drawer[d].reserved, shift |-> drawer[d].shift]
  <2>1. [drawer[d] EXCEPT !.posted = actual] = half
    BY <1>1 DEF Drawer
  <2>2. [half EXCEPT !.shift = next] = row
    <3> HIDE DEF next
    <3>1. [half EXCEPT !.shift = next] =
             [posted |-> actual, reserved |-> drawer[d].reserved, shift |-> next]
      OBVIOUS
    <3> QED
      BY <3>1 DEF next
  <2>3. drawer' = [[drawer EXCEPT ![d] = [drawer[d] EXCEPT !.posted = actual]]
                      EXCEPT ![d].shift = next]
    BY <1>2
  <2> HIDE DEF next, half, row
  <2>4. drawer' = [[drawer EXCEPT ![d] = half] EXCEPT ![d].shift = next]
    BY <2>1, <2>3
  <2>5. drawer' = [drawer EXCEPT ![d] = [half EXCEPT !.shift = next]]
    BY <1>1, <2>4
  <2> QED
    BY <2>2, <2>5
<1> HIDE DEF over, row, closed
<1>8. /\ drawer' \in [Drawers -> Drawer] /\ drawer'[d] = row
      /\ \A e \in Drawers \ {d} : drawer'[e] = drawer[e]
  BY <1>1, <1>6, <1>7
<1>9. counted' \in [Drawers -> BOOLEAN] /\ \A e \in Drawers \ {d} : counted'[e] = counted[e]
  BY <1>1, <1>2
<1>10. /\ shift' \in [Shifts -> Shift] /\ shift'[s] = over
       /\ Continues(a) => shift'[n] = NewShift(a, d)
       /\ \A q \in Shifts \ {s} : ~(Continues(a) /\ q = n) => shift'[q] = shift[q]
  <2>1. CASE Continues(a)
    <3>1. shift' = [[shift EXCEPT ![s] = over] EXCEPT ![n] = NewShift(a, d)]
      BY <1>5, <2>1
    <3>2. n \in Shifts /\ n # s /\ NewShift(a, d) \in Shift
      BY <1>3, <2>1, NewShiftRow
    <3> HIDE DEF n
    <3> QED
      BY <1>1, <1>4, <2>1, <3>1, <3>2
  <2>2. CASE ~Continues(a)
    BY <1>1, <1>4, <1>5, <2>2
  <2> QED
    BY <2>1, <2>2
<1> QED
  BY <1>2, <1>3, <1>4, <1>6, <1>8, <1>9, <1>10

\* Account a keeps the drawer of shift s, which ends or ended before.
LEMMA PassKeeps ==
    ASSUME CashInv, NEW s \in Shifts, NEW d \in Drawers, NEW a \in Staff, NEW actual \in Cash,
           NEW closing \in BOOLEAN, Pass(s, d, a, actual, closing),
           s <= opened, drawer[d].shift = s, drawer[d].reserved = 0,
           closing \/ shift[s].state = "CLOSED", ~Pending(s, d),
           UNCHANGED <<people, claims>>,
           \A q \in Shifts \ {s} : ~(Live(q) /\ shift[q].owner = a),
           takeover' \in [Shifts -> Takeover],
           \A q \in Shifts : /\ takeover'[q].replacement = takeover[q].replacement
                             /\ ~takeover'[q].count.usable,
           \A q \in Shifts \ {s} : takeover'[q].done = takeover[q].done,
           takeover'[s].replacement = None \/ takeover'[s].done,
           handover' \in [Shifts -> Handover], ~handover'[s].submitted,
           \A q \in Shifts \ {s} : handover'[q] = handover[q],
           \/ custody' = [custody EXCEPT ![d] = CustodyAfter(s, d, a)]
           \/ custody' = custody /\ custody[d] = NoCustody /\ takeover'[s].done
    PROVE  CashInv'
<1>1. /\ opened' \in 0 .. MaxShifts /\ shift' \in [Shifts -> Shift]
      /\ drawer' \in [Drawers -> Drawer] /\ counted' \in [Drawers -> BOOLEAN]
      /\ opened' = IF Continues(a) THEN opened + 1 ELSE opened
      /\ Continues(a) => opened < MaxShifts /\ shift'[opened + 1] = NewShift(a, d)
      /\ shift'[s].state = "CLOSED" /\ shift'[s].work = "CLOSED"
      /\ shift'[s].owner = shift[s].owner /\ shift'[s].drawer = shift[s].drawer
      /\ \A q \in Shifts \ {s} : ~(Continues(a) /\ q = opened + 1) => shift'[q] = shift[q]
      /\ drawer'[d].shift = IF Continues(a) THEN opened + 1 ELSE s
      /\ drawer'[d].reserved = drawer[d].reserved /\ drawer'[d].posted = actual
      /\ \A e \in Drawers \ {d} : drawer'[e] = drawer[e] /\ counted'[e] = counted[e]
  BY PassRows
<1>2. s # NoShift
  BY DEF Shifts, NoShift
<1>3. /\ custody' \in [Drawers -> Custody]
      /\ \A e \in Drawers \ {d} : custody'[e] = custody[e]
      /\ \/ custody'[d] = CustodyAfter(s, d, a)
         \/ custody'[d] = NoCustody /\ takeover'[s].done
  <2>1. CustodyAfter(s, d, a) \in Custody
    BY DEF CustodyAfter, NoCustody, Custody, Account, ShiftId
  <2> QED
    BY <2>1 DEF CashInv, TypeOK
<1>4. TypeOK'
  BY <1>1, <1>3 DEF CashInv, TypeOK, people, claims
<1>5. /\ \A o \in PendingObligations : obligation[o].shift # s
      /\ \A t \in PendingTransfers : d \notin {transfer[t].source, transfer[t].dest}
  BY DEF Pending, PendingObligations, PendingTransfers
<1>6. KeeperChange(s, d, a)
  BY <1>1, <1>2, <1>3, <1>5 DEF KeeperChange
<1> QED
  BY <1>4, <1>6, KeeperChangeKeeps

LEMMA OpenStep ==
    ASSUME CashInv, NEW a \in Staff, NEW d \in Drawers, NEW c \in Counts, Open(a, d, c)
    PROVE  CashInv'
<1> DEFINE n == opened + 1
           row == [posted |-> c, reserved |-> 0, shift |-> n]
<1>1. /\ Continues(a) /\ Unused(d) /\ ~HasLiveShift(a)
      /\ opened < MaxShifts /\ opened' = n
      /\ shift' = [shift EXCEPT ![n] = NewShift(a, d)]
      /\ drawer' = [drawer EXCEPT ![d] = row]
      /\ takeover' = StaleCounts
      /\ UNCHANGED <<people, custody, handover, claims, counted>>
  BY DEF Open, Continues
<1>2. /\ opened \in Nat /\ n \in Shifts /\ opened' \in 0 .. MaxShifts
  BY <1>1, CashRows DEF Shifts
<1>3. row \in Drawer /\ row.posted = c /\ row.reserved = 0 /\ row.shift = n /\ c \in Cash
  <2>1. c \in Cash /\ 0 \in Cash
    BY CashAssumption DEF Cash
  <2> QED
    BY <1>2, <2>1 DEF Drawer, ShiftId
<1> HIDE DEF row
<1>4. /\ shift' \in [Shifts -> Shift] /\ shift'[n] = NewShift(a, d)
      /\ \A q \in Shifts \ {n} : shift'[q] = shift[q]
  <2> HIDE DEF n
  <2> QED
    BY <1>1, <1>2, NewShiftRow DEF CashInv, TypeOK
<1>5. /\ drawer' \in [Drawers -> Drawer] /\ drawer'[d] = row
      /\ \A e \in Drawers \ {d} : drawer'[e] = drawer[e]
  BY <1>1, <1>3 DEF CashInv, TypeOK
<1>6. /\ takeover' \in [Shifts -> Takeover]
      /\ \A q \in Shifts : /\ takeover'[q].done = takeover[q].done
                           /\ takeover'[q].replacement = takeover[q].replacement
                           /\ ~takeover'[q].count.usable
  BY <1>1, StaleCountsRows
<1>7. TypeOK'
  BY <1>1, <1>2, <1>4, <1>5, <1>6 DEF CashInv, TypeOK, people, claims
<1>8. drawer[d].shift = NoShift /\ drawer[d].reserved = 0
  BY <1>1 DEF Unused
<1>9. custody[d] = NoCustody
  BY <1>8 DEF CashInv, RowsFit, DrawerRowsFit
<1>10. \A q \in Shifts : q # NoShift
  BY DEF Shifts, NoShift
<1>11. \A o \in PendingObligations : obligation[o].shift # NoShift
  BY <1>10 DEF CashInv, RowsFit, ClaimRowsFit
<1>12. \A t \in PendingTransfers : d \notin {transfer[t].source, transfer[t].dest}
  BY <1>1 DEF Unused, PendingTransfers
<1>13. KeeperChange(NoShift, d, a)
  BY <1>1, <1>3, <1>4, <1>5, <1>6, <1>8, <1>9, <1>10, <1>11, <1>12
     DEF KeeperChange, CustodyAfter, HasLiveShift
<1> QED
  BY <1>7, <1>13, KeeperChangeKeeps

LEMMA AcceptStep ==
    ASSUME CashInv, NEW r \in Staff, NEW s \in Shifts, Accept(r, s)
    PROVE  CashInv'
<1> DEFINE d == shift[s].drawer
           given == handover[s]
           closing == ~given.custody
<1>1. /\ given.submitted
      /\ ~Pending(s, d)
      /\ drawer[d] = [posted |-> given.expected, reserved |-> 0, shift |-> s]
      /\ \A q \in Shifts \ {s} : ~(Live(q) /\ shift[q].owner = r)
      /\ Pass(s, d, r, given.last, closing)
      /\ custody' = [custody EXCEPT ![d] = CustodyAfter(s, d, r)]
      /\ handover' = [handover EXCEPT ![s] = NoHandover]
      /\ takeover' = StaleCounts
      /\ UNCHANGED <<people, claims>>
  BY DEF Accept
<1>2. /\ s <= opened /\ d \in Drawers
      /\ shift[s].state \in {"SUBMITTED", "CLOSED"}
      /\ given.custody <=> shift[s].state = "CLOSED"
  BY <1>1, Frozen
<1>3. given.last \in Cash /\ given.custody \in BOOLEAN
  BY CashRows DEF Handover
<1>4. drawer[d].shift = s /\ drawer[d].reserved = 0
  BY <1>1
<1>5. takeover[s].replacement = None \/ takeover[s].done
  BY <1>2 DEF CashInv, TakenOverByAnother
<1>6. /\ takeover' \in [Shifts -> Takeover]
      /\ \A q \in Shifts : /\ takeover'[q].done = takeover[q].done
                           /\ takeover'[q].replacement = takeover[q].replacement
                           /\ ~takeover'[q].count.usable
  BY <1>1, StaleCountsRows
<1>7. /\ handover' \in [Shifts -> Handover] /\ ~handover'[s].submitted
      /\ \A q \in Shifts \ {s} : handover'[q] = handover[q]
  <2>1. NoHandover \in Handover /\ ~NoHandover.submitted
    BY CashAssumption DEF NoHandover, Handover, Account, Cash
  <2> QED
    BY <1>1, <2>1 DEF CashInv, TypeOK
<1>8. closing \in BOOLEAN /\ (closing \/ shift[s].state = "CLOSED")
  <2>1. \A x : (~x) \in BOOLEAN
    OBVIOUS
  <2>2. closing \in BOOLEAN
    BY <2>1
  <2>3. closing \/ shift[s].state = "CLOSED"
    BY <1>2, Zenon
  <2> QED
    BY <2>2, <2>3
<1>9. takeover'[s].replacement = None \/ takeover'[s].done
  BY <1>5, <1>6
<1> DEFINE last == given.last
<1>10. last \in Cash /\ Pass(s, d, r, last, closing)
  BY <1>1, <1>3
<1>11. \A q \in Shifts \ {s} : handover'[q] = handover[q] /\ takeover'[q].done = takeover[q].done
  BY <1>6, <1>7
<1>12. /\ ~Pending(s, d) /\ custody' = [custody EXCEPT ![d] = CustodyAfter(s, d, r)]
       /\ \A q \in Shifts \ {s} : ~(Live(q) /\ shift[q].owner = r)
       /\ UNCHANGED <<people, claims>>
       /\ s <= opened /\ d \in Drawers
  BY <1>1, <1>2
<1> HIDE DEF d, given, closing, last
<1>13. CASE closing = TRUE
  <2>1. Pass(s, d, r, last, TRUE)
    BY <1>10, <1>13
  <2>2. last \in Cash
    BY <1>10
  <2> QED
    BY <1>4, <1>6, <1>7, <1>9, <1>11, <1>12, <2>1, <2>2, PassKeeps
<1>14. CASE closing = FALSE
  <2>1. Pass(s, d, r, last, FALSE) /\ shift[s].state = "CLOSED"
    BY <1>8, <1>10, <1>14
  <2>2. last \in Cash
    BY <1>10
  <2> QED
    BY <1>4, <1>6, <1>7, <1>9, <1>11, <1>12, <2>1, <2>2, PassKeeps
<1> QED
  BY <1>8, <1>13, <1>14

LEMMA SelfCloseStep ==
    ASSUME CashInv, NEW a \in Staff, NEW s \in Shifts, NEW actual \in Counts, SelfClose(a, s, actual)
    PROVE  CashInv'
<1> DEFINE d == shift[s].drawer
<1>1. /\ shift[s].state = "OPEN" /\ shift[s].work = "OPEN" /\ drawer[d].shift = s
      /\ ~Pending(s, d)
      /\ drawer[d].reserved = 0
      /\ ~handover[s].submitted
      /\ \A q \in Shifts \ {s} : ~(Live(q) /\ shift[q].owner = a)
      /\ Pass(s, d, a, actual, TRUE)
      /\ custody' = [custody EXCEPT ![d] = CustodyAfter(s, d, a)]
      /\ takeover' = StaleCounts
      /\ UNCHANGED <<people, claims>> /\ handover' = handover
  BY DEF SelfClose, Working
<1>2. s <= opened /\ d \in Drawers /\ actual \in Cash
  BY <1>1, ShiftFacts, CashAssumption DEF Cash
<1>3. takeover[s].replacement = None \/ takeover[s].done
  BY <1>1 DEF CashInv, TakenOverByAnother
<1>4. /\ takeover' \in [Shifts -> Takeover]
      /\ \A q \in Shifts : /\ takeover'[q].done = takeover[q].done
                           /\ takeover'[q].replacement = takeover[q].replacement
                           /\ ~takeover'[q].count.usable
  BY <1>1, StaleCountsRows
<1>5. handover' \in [Shifts -> Handover]
  BY <1>1 DEF CashInv, TypeOK
<1>6. /\ takeover'[s].replacement = None \/ takeover'[s].done
      /\ ~handover'[s].submitted
      /\ \A q \in Shifts \ {s} : handover'[q] = handover[q] /\ takeover'[q].done = takeover[q].done
  BY <1>1, <1>3, <1>4
<1> HIDE DEF d
<1> QED
  BY <1>1, <1>2, <1>4, <1>5, <1>6, PassKeeps

LEMMA TakeoverCloseStep ==
    ASSUME CashInv, NEW r \in Staff, NEW s \in Shifts, TakeoverClose(r, s)
    PROVE  CashInv'
<1> DEFINE d == shift[s].drawer
           count == takeover[s].count
<1>1. /\ shift[s].state = "OPEN"
      /\ ~Pending(s, d)
      /\ drawer[d] = [posted |-> count.expected, reserved |-> 0, shift |-> s]
      /\ ~HasLiveShift(r)
      /\ Pass(s, d, r, count.actual, TRUE)
      /\ takeover' = [StaleCounts EXCEPT ![s].done = TRUE]
      /\ UNCHANGED <<people, claims>> /\ custody' = custody /\ handover' = handover
  BY DEF TakeoverClose, TakesOver
<1>2. /\ s <= opened /\ d \in Drawers /\ custody[d] = NoCustody
  BY <1>1, ShiftFacts DEF Live
<1>3. count.actual \in Cash
  BY CashRows DEF Takeover, Count
<1>4. drawer[d].shift = s /\ drawer[d].reserved = 0
  BY <1>1
<1>5. \A q \in Shifts \ {s} : ~(Live(q) /\ shift[q].owner = r)
  BY <1>1 DEF HasLiveShift
<1>6. /\ takeover' \in [Shifts -> Takeover] /\ takeover'[s].done
      /\ \A q \in Shifts : /\ takeover'[q].replacement = takeover[q].replacement
                           /\ ~takeover'[q].count.usable
      /\ \A q \in Shifts \ {s} : takeover'[q].done = takeover[q].done
  <2>1. /\ StaleCounts \in [Shifts -> Takeover]
        /\ \A q \in Shifts : /\ StaleCounts[q].done = takeover[q].done
                             /\ StaleCounts[q].replacement = takeover[q].replacement
                             /\ ~StaleCounts[q].count.usable
    BY StaleCountsRows
  <2>2. \A x \in Takeover : /\ [x EXCEPT !.done = TRUE] \in Takeover
                            /\ [x EXCEPT !.done = TRUE].done = TRUE
                            /\ [x EXCEPT !.done = TRUE].replacement = x.replacement
                            /\ [x EXCEPT !.done = TRUE].count = x.count
    BY DEF Takeover
  <2>3. takeover' = [StaleCounts EXCEPT ![s] = [StaleCounts[s] EXCEPT !.done = TRUE]]
    BY <1>1
  <2> QED
    BY <2>1, <2>2, <2>3
<1>7. handover' \in [Shifts -> Handover]
  BY <1>1 DEF CashInv, TypeOK
<1>8. ~handover[s].submitted
  BY <1>1, Frozen
<1> HIDE DEF d, count
<1> QED
  BY <1>1, <1>2, <1>3, <1>4, <1>5, <1>6, <1>7, <1>8, PassKeeps

\* A handover begins, of a shift that is worked or of a custody.
LEMMA SubmitKeeps ==
    ASSUME CashInv, NEW s \in Shifts, NEW d \in Drawers, NEW row \in Handover,
           d = shift[s].drawer, s <= opened,
           ~Pending(s, d), drawer[d].reserved = 0, drawer[d].shift = s,
           handover' = [handover EXCEPT ![s] = row],
           row.submitted, row.expected = drawer[d].posted,
           row.custody => custody[d].shift = s,
           counted' = [counted EXCEPT ![d] = TRUE],
           UNCHANGED <<people, opened, custody, takeover, drawer, claims>>,
           shift' \in [Shifts -> Shift], \A q \in Shifts \ {s} : shift'[q] = shift[q],
           shift'[s].owner = shift[s].owner, shift'[s].drawer = d, shift'[s].work = shift[s].work,
           shift'[s].state = "SUBMITTED" <=> ~row.custody,
           \/ shift'[s].state = shift[s].state
           \/ Live(s) /\ shift'[s].state \in {"OPEN", "SUBMITTED"},
           takeover[s].replacement = None \/ takeover[s].done
    PROVE  CashInv'
<1>1. /\ handover' \in [Shifts -> Handover] /\ handover'[s] = row
      /\ \A q \in Shifts \ {s} : handover'[q] = handover[q]
  BY DEF CashInv, TypeOK
<1>2. /\ counted' \in [Drawers -> BOOLEAN] /\ counted'[d]
      /\ \A e \in Drawers \ {d} : counted'[e] = counted[e]
  BY DEF CashInv, TypeOK
<1>3. TypeOK'
  BY <1>1, <1>2 DEF CashInv, TypeOK, people, claims
<1>4. SameKeepers
  BY DEF SameKeepers
<1>5. drawer[d] = [posted |-> row.expected, reserved |-> 0, shift |-> s]
  BY CashRows DEF Drawer
<1>6. takeover[s].count.usable => takeover[s].replacement # None /\ ~takeover[s].done
  BY DEF CashInv, RowsFit, WorkRowsFit
<1>7. HandoverStep(s)
  BY <1>1, <1>2, <1>4, <1>5, <1>6 DEF HandoverStep
<1> QED
  BY <1>3, <1>7, HandoverStepKeeps

LEMMA SubmitShiftStep ==
    ASSUME CashInv, NEW a \in Staff, NEW r \in Staff, NEW s \in Shifts, NEW c \in Counts,
           SubmitShift(a, s, r, c)
    PROVE  CashInv'
<1> DEFINE d == shift[s].drawer
           row == [submitted |-> TRUE, custody |-> FALSE, sender |-> a, receiver |-> r,
                   expected |-> drawer[d].posted, sent |-> c, counts |-> 0, last |-> 0,
                   usable |-> FALSE]
           next == [shift[s] EXCEPT !.state = "SUBMITTED"]
<1>1. /\ shift[s].state = "OPEN" /\ shift[s].work = "OPEN"
      /\ ~Pending(s, d) /\ drawer[d].reserved = 0 /\ drawer[d].shift = s
      /\ handover' = [handover EXCEPT ![s] = row]
      /\ counted' = [counted EXCEPT ![d] = TRUE]
      /\ shift' = [shift EXCEPT ![s] = next]
      /\ UNCHANGED <<people, opened, custody, takeover, drawer, claims>>
  BY DEF SubmitShift, Submit, Working
<1>2. s <= opened /\ d \in Drawers /\ Live(s)
  BY <1>1, ShiftFacts DEF Live
<1>3. /\ row \in Handover /\ row.submitted /\ ~row.custody /\ row.expected = drawer[d].posted
  <2>1. drawer[d].posted \in Cash /\ c \in Cash /\ 0 \in Cash
    BY <1>2, CashRows, CashAssumption DEF Cash
  <2> QED
    BY <2>1 DEF Handover, Account
<1>4. /\ next \in Shift /\ next.state = "SUBMITTED" /\ next.owner = shift[s].owner
      /\ next.drawer = d /\ next.work = shift[s].work
  BY CashRows DEF Shift
<1> HIDE DEF row, next
<1>5. /\ shift' \in [Shifts -> Shift] /\ shift'[s] = next
      /\ \A q \in Shifts \ {s} : shift'[q] = shift[q]
  BY <1>1, <1>4 DEF CashInv, TypeOK
<1>6. takeover[s].replacement = None \/ takeover[s].done
  BY <1>1 DEF CashInv, TakenOverByAnother
<1>7. /\ shift'[s].owner = shift[s].owner /\ shift'[s].drawer = d /\ shift'[s].work = shift[s].work
      /\ shift'[s].state = "SUBMITTED"
  BY <1>4, <1>5
<1>8. d = shift[s].drawer
  OBVIOUS
<1> HIDE DEF d
<1> QED
  BY <1>1, <1>2, <1>3, <1>5, <1>6, <1>7, <1>8, SubmitKeeps

LEMMA SubmitCustodyStep ==
    ASSUME CashInv, NEW a \in Staff, NEW r \in Staff, NEW d \in Drawers, NEW c \in Counts,
           SubmitCustody(a, d, r, c)
    PROVE  CashInv'
<1> DEFINE s == custody[d].shift
           row == [submitted |-> TRUE, custody |-> TRUE, sender |-> a, receiver |-> r,
                   expected |-> drawer[d].posted, sent |-> c, counts |-> 0, last |-> 0,
                   usable |-> FALSE]
<1>1. /\ custody[d].owner = a
      /\ ~Pending(s, d) /\ drawer[d].reserved = 0 /\ drawer[d].shift = s
      /\ handover' = [handover EXCEPT ![s] = row]
      /\ counted' = [counted EXCEPT ![d] = TRUE]
      /\ UNCHANGED <<people, opened, custody, takeover, drawer, claims>> /\ shift' = shift
  BY DEF SubmitCustody, Submit
<1>2. custody[d] # NoCustody
  BY <1>1, NoneAssumption DEF NoCustody
<1>3. s \in Shifts /\ s <= opened /\ d = shift[s].drawer
  <2>1. s # NoShift
    BY <1>1, <1>2 DEF CashInv, RowsFit, DrawerRowsFit
  <2>2. s \in ShiftId
    BY <1>1, CashRows
  <2> QED
    BY <1>1, <2>1, <2>2 DEF ShiftId, CashInv, RowsFit, DrawerRowsFit
<1>4. shift[s].state = "CLOSED"
  <2>1. s # NoShift
    BY <1>3 DEF Shifts, NoShift
  <2> QED
    BY <1>1, <1>2, <2>1 DEF CashInv, CashHasKeeper
<1>5. /\ row \in Handover /\ row.submitted /\ row.custody /\ row.expected = drawer[d].posted
  <2>1. drawer[d].posted \in Cash /\ c \in Cash /\ 0 \in Cash
    BY CashRows, CashAssumption DEF Cash
  <2> QED
    BY <2>1 DEF Handover, Account
<1>6. takeover[s].replacement = None \/ takeover[s].done
  BY <1>3, <1>4 DEF CashInv, TakenOverByAnother
<1>7. shift' \in [Shifts -> Shift] /\ custody[d].shift = s
  BY <1>1 DEF CashInv, TypeOK
<1>8. /\ shift'[s].owner = shift[s].owner /\ shift'[s].drawer = d /\ shift'[s].work = shift[s].work
      /\ shift'[s].state = shift[s].state /\ shift'[s].state # "SUBMITTED"
      /\ \A q \in Shifts \ {s} : shift'[q] = shift[q]
  BY <1>1, <1>3, <1>4
<1> HIDE DEF s, row
<1> QED
  BY <1>1, <1>3, <1>5, <1>6, <1>7, <1>8, SubmitKeeps

LEMMA ReturnStep ==
    ASSUME CashInv, NEW r \in Staff, NEW s \in Shifts, Return(r, s)
    PROVE  CashInv'
<1> DEFINE d == shift[s].drawer
           state == IF ~handover[s].custody /\ shift[s].state = "SUBMITTED" THEN "OPEN"
                    ELSE shift[s].state
           next == [shift[s] EXCEPT !.state = state]
<1>1. /\ handover[s].submitted
      /\ handover' = [handover EXCEPT ![s] = NoHandover]
      /\ shift' = [shift EXCEPT ![s] = next]
      /\ counted' = [counted EXCEPT ![d] = FALSE]
      /\ UNCHANGED <<people, opened, custody, takeover, drawer, claims>>
  BY DEF Return
<1>2. /\ s <= opened /\ d \in Drawers
      /\ drawer[d] = [posted |-> handover[s].expected, reserved |-> 0, shift |-> s]
      /\ shift[s].state \in {"SUBMITTED", "CLOSED"}
      /\ handover[s].custody <=> shift[s].state = "CLOSED"
      /\ ~takeover[s].count.usable
  BY <1>1, Frozen
<1>3. /\ drawer[d].shift = s
      /\ state \in {"OPEN", "CLOSED"}
      /\ state = shift[s].state \/ (Live(s) /\ state = "OPEN")
  BY <1>2 DEF Live
<1>4. /\ next \in Shift /\ next.state = state /\ next.owner = shift[s].owner
      /\ next.drawer = d /\ next.work = shift[s].work
  <2> HIDE DEF state
  <2> QED
    BY <1>3, CashRows DEF Shift
<1>5. takeover[s].replacement = None \/ takeover[s].done
  BY <1>2 DEF CashInv, TakenOverByAnother
<1> HIDE DEF next, state, d
<1>6. /\ shift' \in [Shifts -> Shift] /\ shift'[s] = next
      /\ \A q \in Shifts \ {s} : shift'[q] = shift[q]
  BY <1>1, <1>4 DEF CashInv, TypeOK
<1>7. /\ handover' \in [Shifts -> Handover] /\ ~handover'[s].submitted
      /\ \A q \in Shifts \ {s} : handover'[q] = handover[q]
  <2>1. NoHandover \in Handover /\ ~NoHandover.submitted
    BY CashAssumption DEF NoHandover, Handover, Account, Cash
  <2> QED
    BY <1>1, <2>1 DEF CashInv, TypeOK
<1>8. counted' \in [Drawers -> BOOLEAN] /\ \A e \in Drawers \ {d} : counted'[e] = counted[e]
  BY <1>1 DEF CashInv, TypeOK
<1>9. TypeOK'
  BY <1>1, <1>6, <1>7, <1>8 DEF CashInv, TypeOK, people, claims
<1>10. SameKeepers
  BY <1>1, <1>3, <1>4, <1>6 DEF SameKeepers, d
<1>11. shift'[s].work = shift[s].work /\ shift'[s].state # "SUBMITTED"
  BY <1>3, <1>4, <1>6
<1>12. HandoverStep(s)
  BY <1>1, <1>2, <1>3, <1>5, <1>6, <1>7, <1>8, <1>10, <1>11 DEF HandoverStep, d
<1> QED
  BY <1>9, <1>12, HandoverStepKeeps

LEMMA PrepareStep ==
    ASSUME CashInv, NEW a \in Staff, NEW s \in Shifts, NEW r \in Staff, Prepare(a, s, r)
    PROVE  CashInv'
<1> DEFINE d == shift[s].drawer
           row == IF shift[s].state = "SUBMITTED" THEN NoHandover ELSE handover[s]
           next == [shift[s] EXCEPT !.state = "OPEN"]
           work == [takeover[s] EXCEPT !.replacement = r]
<1>1. /\ shift[s].work = "BLOCKED" /\ Live(s)
      /\ r # shift[s].owner
      /\ takeover[s].replacement = None
      /\ takeover' = [takeover EXCEPT ![s] = work]
      /\ handover' = [handover EXCEPT ![s] = row]
      /\ shift' = [shift EXCEPT ![s] = next]
      /\ counted' = [counted EXCEPT ![d] = FALSE]
      /\ UNCHANGED <<people, opened, custody, drawer, claims>>
  BY DEF Prepare
<1>2. s <= opened /\ d \in Drawers /\ drawer[d].shift = s
  BY <1>1, ShiftFacts DEF Live
<1>3. /\ next \in Shift /\ next.state = "OPEN" /\ next.owner = shift[s].owner
      /\ next.drawer = d /\ next.work = "BLOCKED"
  BY <1>1, CashRows DEF Shift
<1>4. row \in Handover /\ ~row.submitted
  <2>1. NoHandover \in Handover /\ ~NoHandover.submitted
    BY CashAssumption DEF NoHandover, Handover, Account, Cash
  <2>2. handover[s].submitted => shift[s].state \in {"SUBMITTED", "CLOSED"}
    BY Frozen
  <2> QED
    BY <1>1, <2>1, <2>2, CashRows DEF Live
<1>5. /\ work \in Takeover /\ work.done = takeover[s].done /\ work.replacement = r
      /\ work.count = takeover[s].count
  BY CashRows DEF Takeover, Account
<1>6. ~takeover[s].count.usable /\ ~takeover[s].done
  BY <1>1 DEF CashInv, RowsFit, WorkRowsFit, Live
<1> HIDE DEF row, next, work, d
<1>7. /\ shift' \in [Shifts -> Shift] /\ shift'[s] = next
      /\ \A q \in Shifts \ {s} : shift'[q] = shift[q]
  BY <1>1, <1>3 DEF CashInv, TypeOK
<1>8. /\ handover' \in [Shifts -> Handover] /\ ~handover'[s].submitted
      /\ \A q \in Shifts \ {s} : handover'[q] = handover[q]
  BY <1>1, <1>4 DEF CashInv, TypeOK
<1>9. /\ takeover' \in [Shifts -> Takeover] /\ takeover'[s] = work
      /\ \A q \in Shifts \ {s} : takeover'[q] = takeover[q]
  BY <1>1, <1>5 DEF CashInv, TypeOK
<1>10. counted' \in [Drawers -> BOOLEAN] /\ \A e \in Drawers \ {d} : counted'[e] = counted[e]
  BY <1>1 DEF CashInv, TypeOK
<1>11. TypeOK'
  BY <1>1, <1>7, <1>8, <1>9, <1>10 DEF CashInv, TypeOK, people, claims
<1>12. SameKeepers
  BY <1>1, <1>3, <1>5, <1>7, <1>9 DEF SameKeepers, d
<1>13. HandoverStep(s)
  BY <1>1, <1>2, <1>3, <1>5, <1>6, <1>7, <1>8, <1>9, <1>10, <1>12 DEF HandoverStep, d
<1> QED
  BY <1>11, <1>13, HandoverStepKeeps

-----------------------------------------------------------------------------
(* Every step keeps the invariant.                                         *)

LEMMA MembershipStep ==
    ASSUME CashInv, Membership
    PROVE  CashInv'
<1>1. CASE \E a \in Staff : ManagerRevoked(a)
  BY <1>1, ManagerRevokedStep
<1>2. CASE \E a \in Staff : \E g \in Grants[a] : ChangeMember(a, g)
  BY <1>2, ChangeMemberStep
<1>3. CASE Lock
  BY <1>3, LockStep
<1>4. CASE Renew
  BY <1>4, RenewStep
<1> QED
  BY <1>1, <1>2, <1>3, <1>4 DEF Membership

LEMMA GuestMoneyStep ==
    ASSUME CashInv, GuestMoney
    PROVE  CashInv'
<1>1. ASSUME NEW a \in Staff, NEW s \in Shifts, NEW amount \in Amounts, Receive(a, s, amount)
      PROVE  CashInv'
  BY <1>1, ReceiveStep
<1>2. ASSUME NEW a \in Staff, NEW o \in Obligations, ReleaseRefund(a, o)
      PROVE  CashInv'
  BY <1>2, ReleaseRefundStep
<1>3. ASSUME NEW a \in Staff, NEW s \in Shifts, NEW o \in Obligations,
             CompleteRefund(a, s, o) \/ Oblige(a, s, o)
      PROVE  CashInv'
  BY <1>3, CompleteRefundStep, ObligeStep
<1>4. ASSUME NEW a \in Staff, NEW s \in Shifts, NEW o \in Obligations, NEW amount \in Amounts,
             \/ ReserveRefund(a, s, o, amount)
             \/ ApproveCorrection(a, s, o, amount)
             \/ ApproveCorrection(a, s, o, -amount)
      PROVE  CashInv'
  <2>1. amount \in Int /\ -amount \in Int
    BY CashAssumption
  <2> QED
    BY <1>4, <2>1, ReserveRefundStep, ApproveCorrectionStep
<1>5. ASSUME NEW o \in Obligations, Settle(o)
      PROVE  CashInv'
  BY <1>5, SettleStep
<1> QED
  BY <1>1, <1>2, <1>3, <1>4, <1>5 DEF GuestMoney

LEMMA CashCommandStep ==
    ASSUME CashInv, CashCommand
    PROVE  CashInv'
<1>1. ASSUME NEW d \in Drawers, NEW amount \in Amounts, Spend(d, amount)
      PROVE  CashInv'
  BY <1>1, SpendStep
<1>2. ASSUME NEW a \in Staff, NEW t \in Transfers, RequestCancel(a, t)
      PROVE  CashInv'
  BY <1>2, RequestCancelStep
<1>3. ASSUME NEW a \in Staff, NEW t \in Transfers, NEW x \in Drawers, NEW y \in Drawers,
             NEW amount \in Amounts, ReserveTransfer(a, t, x, y, amount)
      PROVE  CashInv'
  BY <1>3, ReserveTransferStep
<1>4. ASSUME NEW s \in Shifts, NEW t \in Transfers, ConfirmTransfer(s, t) \/ CancelTransfer(s, t)
      PROVE  CashInv'
  BY <1>4, ConfirmedStep, ReturnedStep DEF ConfirmTransfer, CancelTransfer
<1> QED
  BY <1>1, <1>2, <1>3, <1>4 DEF CashCommand

LEMMA HandingOverStep ==
    ASSUME CashInv, HandingOver
    PROVE  CashInv'
<1>1. ASSUME NEW a \in Staff, NEW r \in Staff, NEW s \in Shifts, NEW c \in Counts,
             SubmitShift(a, s, r, c)
      PROVE  CashInv'
  BY <1>1, SubmitShiftStep
<1>2. ASSUME NEW a \in Staff, NEW r \in Staff, NEW d \in Drawers, NEW c \in Counts,
             SubmitCustody(a, d, r, c)
      PROVE  CashInv'
  BY <1>2, SubmitCustodyStep
<1>3. ASSUME NEW r \in Staff, NEW s \in Shifts, Accept(r, s) \/ Return(r, s)
      PROVE  CashInv'
  BY <1>3, AcceptStep, ReturnStep
<1>4. ASSUME NEW r \in Staff, NEW s \in Shifts, NEW c \in Counts, SelfClose(r, s, c)
      PROVE  CashInv'
  BY <1>4, SelfCloseStep
<1>5. ASSUME NEW s \in Shifts,
             \/ HandoverCountExpires(s)
             \/ \E r \in Staff, c \in Counts : CountHandover(r, s, c)
      PROVE  CashInv'
  BY <1>5, CountHandoverStep
<1> QED
  BY <1>1, <1>2, <1>3, <1>4, <1>5 DEF HandingOver

LEMMA TakingOverStep ==
    ASSUME CashInv, TakingOver
    PROVE  CashInv'
<1>1. ASSUME NEW a \in Staff, NEW s \in Shifts, Claim(a, s) \/ RecoverClaim(a, s)
      PROVE  CashInv'
  BY <1>1, ClaimStep
<1>2. ASSUME NEW r \in Staff, NEW s \in Shifts, TakeoverClose(r, s)
      PROVE  CashInv'
  BY <1>2, TakeoverCloseStep
<1>3. ASSUME NEW a \in Staff, NEW s \in Shifts, NEW r \in Staff,
             Prepare(a, s, r) \/ RecoverReplacement(a, s, r)
      PROVE  CashInv'
  BY <1>3, PrepareStep, RecoverReplacementStep
<1>4. ASSUME NEW r \in Staff, NEW s \in Shifts, NEW c \in Counts, TakeoverCount(r, s, c)
      PROVE  CashInv'
  BY <1>4, TakeoverCountStep
<1>5. ASSUME NEW r \in Staff, NEW s \in Shifts, NEW t \in Transfers, TakeoverTransfer(r, s, t)
      PROVE  CashInv'
  BY <1>5, ConfirmedStep, ReturnedStep DEF TakeoverTransfer
<1>6. ASSUME NEW s \in Shifts, TakeoverCountExpires(s)
      PROVE  CashInv'
  BY <1>6, TakeoverCountExpiresStep
<1> QED
  BY <1>1, <1>2, <1>3, <1>4, <1>5, <1>6 DEF TakingOver

LEMMA CashStep == CashInv /\ [Next]_vars => CashInv'
<1> SUFFICES ASSUME CashInv, [Next]_vars
             PROVE  CashInv'
  OBVIOUS
<1>1. CASE Opening
  BY <1>1, OpenStep DEF Opening
<1>2. CASE UNCHANGED vars
  <2>1. QuietStep
    <3>1. UNCHANGED <<member, opened, shift, custody, takeover, handover, drawer, claims, counted>>
      BY <1>2 DEF vars, people, keepers
    <3>2. \A s \in Shifts : shift[s].work = "OPEN" => Receptionist(shift[s].owner)
      BY DEF CashInv, WorkersMayWork
    <3> QED
      BY <3>1, <3>2 DEF QuietStep, Receptionist
  <2>2. TypeOK'
    BY <1>2 DEF vars, people, keepers, claims, CashInv, TypeOK
  <2> QED
    BY <2>1, <2>2, QuietKeeps
<1> QED
  BY <1>1, <1>2, MembershipStep, GuestMoneyStep, CashCommandStep, HandingOverStep,
     TakingOverStep DEF Next

LEMMA CashSafe == Spec => []CashInv
  BY InitCashInv, CashStep, PTL DEF Spec

-----------------------------------------------------------------------------
(* The invariants the runs check.                                          *)

\* Every row keeps its form, and no drawer or shift number leaves its range.
THEOREM CashTypes == Spec => []TypeOK
<1>1. CashInv => TypeOK
  BY DEF CashInv
<1> QED
  BY <1>1, CashSafe, PTL

\* Two live shifts never share a drawer or an owner, so the unique indexes
\* one_open_reception_drawer and one_open_reception_owner never refuse a row.
THEOREM ShiftsStayApart == Spec => []LiveShiftsApart
<1>1. CashInv => LiveShiftsApart
  BY DEF CashInv
<1> QED
  BY <1>1, CashSafe, PTL

\* Whoever works a shift may work it: a member who loses the role loses the
\* work item in the same transaction.
THEOREM OnlyReceptionistsWork == Spec => []WorkersMayWork
<1>1. CashInv => WorkersMayWork
  BY DEF CashInv
<1> QED
  BY <1>1, CashSafe, PTL

\* CashBook.validate never fails: what a drawer holds back is the sum of what is
\* promised out of it, it is there, and it is bound to the current shift.
THEOREM BookNeverContradictsItself == Spec => []PromisesAreCovered
<1>1. CashInv => PromisesAreCovered
  BY DEF CashInv
<1> QED
  BY <1>1, CashSafe, PTL

\* No obligation and no transfer outlives the shift it is bound to.
THEOREM NothingOutlivesItsShift == Spec => []ClosedOwesNothing
<1>1. CashInv => ClosedOwesNothing
  BY DEF CashInv
<1> QED
  BY <1>1, CashSafe, PTL

\* From submission to its end a handover finds the drawer as it was submitted.
THEOREM HandoverHoldsStill == Spec => []HandoverFreezesDrawer
<1>1. CashInv => HandoverFreezesDrawer
  BY DEF CashInv
<1> QED
  BY <1>1, CashSafe, PTL

\* Cash left by an ended shift is in somebody's custody, except after a takeover.
THEOREM CashKeepsItsKeeper == Spec => []CashHasKeeper
<1>1. CashInv => CashHasKeeper
  BY DEF CashInv
<1> QED
  BY <1>1, CashSafe, PTL

\* Only blocked work is taken over, and never by the owner it was taken from.
THEOREM NobodyTakesOverFromThemselves == Spec => []TakenOverByAnother
<1>1. CashInv => TakenOverByAnother
  BY DEF CashInv
<1> QED
  BY <1>1, CashSafe, PTL

-----------------------------------------------------------------------------
(* What a step may never do.                                               *)

\* No shift is closed, no custody changes, and blocked work stays blocked.
EndsNothing ==
    /\ custody' = custody
    /\ \A q \in Shifts : /\ shift'[q].state = "CLOSED" => shift[q].state = "CLOSED"
                         /\ shift[q].work = "BLOCKED" => shift'[q].work = "BLOCKED"

LEMMA MembershipEndsNothing ==
    ASSUME CashInv, Membership
    PROVE  EndsNothing
<1> DEFINE Mild == \A x \in Shift : /\ [x EXCEPT !.work = "BLOCKED"].state = x.state
                                    /\ [x EXCEPT !.work = "BLOCKED"].work = "BLOCKED"
                                    /\ [x EXCEPT !.late = FALSE].state = x.state
                                    /\ [x EXCEPT !.late = FALSE].work = x.work
<1>1. Mild
  BY DEF Shift
<1>2. \A q \in Shifts : shift[q] \in Shift
  BY CashRows
<1>3. ASSUME NEW a \in Staff, NEW g \in Grants[a], ChangeMember(a, g)
      PROVE  EndsNothing
  <2>1. /\ custody' = custody
        /\ shift' = [s \in Shifts |->
              IF shift[s].owner = a /\ shift[s].work = "OPEN" /\ "RECEPTION" \notin g
              THEN [shift[s] EXCEPT !.work = "BLOCKED"] ELSE shift[s]]
    BY <1>3 DEF ChangeMember
  <2>2. \A q \in Shifts : \/ shift'[q] = shift[q]
                          \/ shift'[q] = [shift[q] EXCEPT !.work = "BLOCKED"]
    BY <2>1
  <2> QED
    BY <1>1, <1>2, <2>1, <2>2 DEF EndsNothing
<1>4. CASE Renew
  <2>1. custody' = custody /\ \A q \in Shifts : shift'[q] = [shift[q] EXCEPT !.late = FALSE]
    BY <1>4 DEF Renew
  <2> QED
    BY <1>1, <1>2, <2>1 DEF EndsNothing
<1>5. CASE Lock \/ \E a \in Staff : ManagerRevoked(a)
  BY <1>5 DEF Lock, ManagerRevoked, keepers, EndsNothing
<1> QED
  BY <1>3, <1>4, <1>5 DEF Membership

LEMMA MoneyEndsNothing ==
    ASSUME GuestMoney \/ CashCommand
    PROVE  EndsNothing
<1>1. GuestMoney => UNCHANGED keepers
  <2>1. \A a, s, o : Oblige(a, s, o) \/ CompleteRefund(a, s, o) => UNCHANGED keepers
    BY DEF Oblige, CompleteRefund
  <2>2. \A a, s, o, amount : ReserveRefund(a, s, o, amount) \/ ApproveCorrection(a, s, o, amount)
                             \/ Receive(a, s, amount) => UNCHANGED keepers
    BY DEF ReserveRefund, ApproveCorrection, Receive
  <2>3. \A a, o : ReleaseRefund(a, o) \/ Settle(o) => UNCHANGED keepers
    BY DEF ReleaseRefund, Settle
  <2> HIDE DEF keepers
  <2> SUFFICES ASSUME GuestMoney PROVE UNCHANGED keepers
    OBVIOUS
  <2>4. CASE \E a \in Staff, s \in Shifts, amount \in Amounts : Receive(a, s, amount)
    BY <2>2, <2>4
  <2>5. CASE \E a \in Staff, o \in Obligations :
                \/ ReleaseRefund(a, o)
                \/ \E s \in Shifts :
                      \/ CompleteRefund(a, s, o) \/ Oblige(a, s, o)
                      \/ \E amount \in Amounts :
                            \/ ReserveRefund(a, s, o, amount)
                            \/ ApproveCorrection(a, s, o, amount) \/ ApproveCorrection(a, s, o, -amount)
    BY <2>1, <2>2, <2>3, <2>5
  <2>6. CASE \E o \in Obligations : Settle(o)
    BY <2>3, <2>6
  <2> QED
    BY <2>4, <2>5, <2>6 DEF GuestMoney
<1>2. CashCommand => UNCHANGED keepers
  <2>1. \A d, amount : Spend(d, amount) => UNCHANGED keepers
    BY DEF Spend
  <2>2. \A a, t, x, y, amount : RequestCancel(a, t) \/ ReserveTransfer(a, t, x, y, amount) => UNCHANGED keepers
    BY DEF RequestCancel, ReserveTransfer
  <2>3. \A s, t : ConfirmTransfer(s, t) \/ CancelTransfer(s, t) => UNCHANGED keepers
    BY DEF ConfirmTransfer, CancelTransfer, Confirmed, Returned
  <2> HIDE DEF keepers
  <2> QED
    BY <2>1, <2>2, <2>3 DEF CashCommand
<1> QED
  BY <1>1, <1>2 DEF keepers, EndsNothing

LEMMA OpeningEndsNothing ==
    ASSUME CashInv, NEW a \in Staff, NEW d \in Drawers, NEW c \in Counts, Open(a, d, c)
    PROVE  EndsNothing
<1>1. custody' = custody /\ shift' = [shift EXCEPT ![opened + 1] = NewShift(a, d)]
  BY DEF Open
<1>2. \A q \in Shifts : q # opened + 1 => shift'[q] = shift[q]
  BY <1>1 DEF CashInv, TypeOK
<1>3. opened + 1 \in Shifts => shift'[opened + 1] = NewShift(a, d) /\ shift[opened + 1].work = "NONE"
  <2>1. opened \in Nat /\ opened + 1 > opened
    BY CashRows
  <2> QED
    BY <1>1, <2>1 DEF CashInv, TypeOK, RowsFit, ShiftRowsFit
<1>4. NewShift(a, d).state = "OPEN"
  BY DEF NewShift
<1> QED
  BY <1>1, <1>2, <1>3, <1>4 DEF EndsNothing

\* A row whose state is set, but not to CLOSED.
LEMMA StateSet ==
    ASSUME CashInv, NEW s \in Shifts, NEW state, state = "CLOSED" => shift[s].state = "CLOSED",
           shift' = [shift EXCEPT ![s] = [shift[s] EXCEPT !.state = state]], custody' = custody
    PROVE  EndsNothing
<1>1. \A x \in Shift : /\ [x EXCEPT !.state = state].state = state
                       /\ [x EXCEPT !.state = state].work = x.work
  BY DEF Shift
<1>2. /\ shift[s] \in Shift /\ shift'[s] = [shift[s] EXCEPT !.state = state]
      /\ \A q \in Shifts \ {s} : shift'[q] = shift[q]
  BY CashRows DEF CashInv, TypeOK
<1>3. shift'[s].state = state /\ shift'[s].work = shift[s].work
  BY <1>1, <1>2
<1> QED
  BY <1>2, <1>3 DEF EndsNothing

LEMMA HandoverEndsNothing ==
    ASSUME CashInv, NEW a \in Staff, NEW s \in Shifts,
           \/ \E r \in Staff, c \in Counts : SubmitShift(a, s, r, c)
           \/ \E r \in Staff, d \in Drawers, c \in Counts : SubmitCustody(a, d, r, c)
           \/ Return(a, s)
           \/ \E c \in Counts : CountHandover(a, s, c)
           \/ HandoverCountExpires(s)
    PROVE  EndsNothing
<1>1. CASE \E r \in Staff, c \in Counts : SubmitShift(a, s, r, c)
  <2>1. custody' = custody
        /\ shift' = [shift EXCEPT ![s] = [shift[s] EXCEPT !.state = "SUBMITTED"]]
    BY <1>1 DEF SubmitShift, Submit
  <2> QED
    BY <2>1, StateSet
<1>2. CASE Return(a, s)
  <2> DEFINE state == IF ~handover[s].custody /\ shift[s].state = "SUBMITTED" THEN "OPEN"
                      ELSE shift[s].state
  <2>1. custody' = custody /\ shift' = [shift EXCEPT ![s] = [shift[s] EXCEPT !.state = state]]
    BY <1>2 DEF Return
  <2>2. state = "CLOSED" => shift[s].state = "CLOSED"
    OBVIOUS
  <2> HIDE DEF state
  <2> QED
    BY <2>1, <2>2, StateSet
<1>3. CASE \E r \in Staff, d \in Drawers, c \in Counts : SubmitCustody(a, d, r, c)
  BY <1>3 DEF SubmitCustody, Submit, EndsNothing
<1>4. CASE HandoverCountExpires(s) \/ \E c \in Counts : CountHandover(a, s, c)
  BY <1>4 DEF HandoverCountExpires, CountHandover, keepers, EndsNothing
<1> QED
  BY <1>1, <1>2, <1>3, <1>4

LEMMA TakeoverEndsNothing ==
    ASSUME CashInv, NEW a \in Staff, NEW s \in Shifts,
           \/ Claim(a, s) \/ RecoverClaim(a, s)
           \/ \E r \in Staff : Prepare(a, s, r) \/ RecoverReplacement(a, s, r)
           \/ \E c \in Counts : TakeoverCount(a, s, c)
           \/ \E t \in Transfers : TakeoverTransfer(a, s, t)
           \/ TakeoverCountExpires(s)
    PROVE  EndsNothing
<1>1. CASE \E r \in Staff : Prepare(a, s, r)
  <2>1. custody' = custody /\ shift' = [shift EXCEPT ![s] = [shift[s] EXCEPT !.state = "OPEN"]]
    BY <1>1 DEF Prepare
  <2> QED
    BY <2>1, StateSet
<1>2. CASE ~\E r \in Staff : Prepare(a, s, r)
  BY <1>2 DEF Claim, RecoverClaim, RecoverReplacement, TakeoverCount, TakeoverTransfer, Confirmed,
              Returned, TakeoverCountExpires, keepers, EndsNothing
<1> QED
  BY <1>1, <1>2

\* Every step ends nothing, or is one of the three that pass a drawer on.
LEMMA StepsThatEnd ==
    ASSUME CashInv, Next
    PROVE  \/ EndsNothing
           \/ \E r \in Staff, s \in Shifts : Accept(r, s) \/ TakeoverClose(r, s)
           \/ \E r \in Staff, s \in Shifts, c \in Counts : SelfClose(r, s, c)
<1>1. CASE HandingOver
  <2>1. \A s \in Shifts : HandoverCountExpires(s) => EndsNothing
    BY DEF HandoverCountExpires, keepers, EndsNothing
  <2>2. \A a, r \in Staff, d \in Drawers, c \in Counts : SubmitCustody(a, d, r, c) => EndsNothing
    BY DEF SubmitCustody, Submit, EndsNothing
  <2> QED
    BY <1>1, <2>1, <2>2, HandoverEndsNothing DEF HandingOver
<1>2. CASE TakingOver
  <2>1. \A s \in Shifts : TakeoverCountExpires(s) => EndsNothing
    BY DEF TakeoverCountExpires, keepers, EndsNothing
  <2> QED
    BY <1>2, <2>1, TakeoverEndsNothing DEF TakingOver
<1>3. CASE Opening
  BY <1>3, OpeningEndsNothing DEF Opening
<1> QED
  BY <1>1, <1>2, <1>3, MembershipEndsNothing, MoneyEndsNothing DEF Next

\* Passing a drawer on ends no shift but its own.
LEMMA PassEndsOne ==
    ASSUME CashInv, NEW s \in Shifts, NEW d \in Drawers, NEW a \in Staff, NEW actual \in Cash,
           NEW closing \in BOOLEAN, Pass(s, d, a, actual, closing),
           s <= opened, drawer[d].shift = s, closing \/ shift[s].state = "CLOSED"
    PROVE  \A q \in Shifts \ {s} : /\ shift'[q].state = "CLOSED" => shift[q].state = "CLOSED"
                                   /\ shift[q].work = "BLOCKED" => shift'[q].work = "BLOCKED"
<1>1. /\ Continues(a) => opened < MaxShifts /\ shift'[opened + 1] = NewShift(a, d)
      /\ \A q \in Shifts \ {s} : ~(Continues(a) /\ q = opened + 1) => shift'[q] = shift[q]
  BY PassRows
<1>2. opened + 1 \in Shifts => shift[opened + 1].work = "NONE"
  <2>1. opened \in Nat /\ opened + 1 > opened
    BY CashRows
  <2> QED
    BY <2>1 DEF CashInv, RowsFit, ShiftRowsFit
<1>3. NewShift(a, d).state = "OPEN"
  BY DEF NewShift
<1> QED
  BY <1>1, <1>2, <1>3

LEMMA AcceptEnds ==
    ASSUME CashInv, NEW r \in Staff, NEW s \in Shifts, Accept(r, s)
    PROVE  /\ handover[s].submitted /\ shift[s].drawer \in Drawers /\ counted[shift[s].drawer]
           /\ \A e \in Drawers \ {shift[s].drawer} : custody'[e] = custody[e]
           /\ \A q \in Shifts \ {s} : /\ shift'[q].state = "CLOSED" => shift[q].state = "CLOSED"
                                      /\ shift[q].work = "BLOCKED" => shift'[q].work = "BLOCKED"
           /\ shift[s].work # "BLOCKED"
<1> DEFINE d == shift[s].drawer
           given == handover[s]
           closing == ~given.custody
<1>1. /\ given.submitted /\ SenderWorks(s)
      /\ drawer[d] = [posted |-> given.expected, reserved |-> 0, shift |-> s]
      /\ Pass(s, d, r, given.last, closing)
      /\ custody' = [custody EXCEPT ![d] = CustodyAfter(s, d, r)]
  BY DEF Accept
<1>2. /\ s <= opened /\ d \in Drawers /\ drawer[d].shift = s
      /\ given.custody <=> shift[s].state = "CLOSED"
  BY <1>1, Frozen
<1>3. given.last \in Cash /\ given.custody \in BOOLEAN
  BY CashRows DEF Handover
<1>4. \A e \in Drawers \ {d} : custody'[e] = custody[e]
  BY <1>1 DEF CashInv, TypeOK
<1>5. counted[d]
  BY <1>1 DEF CashInv, RowsFit, WorkRowsFit
<1>6. shift[s].work # "BLOCKED"
  BY <1>1, <1>2, ShiftFacts DEF SenderWorks, Live
<1>7. closing \/ shift[s].state = "CLOSED"
  BY <1>2, Zenon
<1> DEFINE last == given.last
<1>8. last \in Cash /\ Pass(s, d, r, last, closing)
  BY <1>1, <1>3
<1>9. \A q \in Shifts \ {s} : /\ shift'[q].state = "CLOSED" => shift[q].state = "CLOSED"
                              /\ shift[q].work = "BLOCKED" => shift'[q].work = "BLOCKED"
  <2>1. closing \in BOOLEAN
    <3>1. \A x : (~x) \in BOOLEAN
      OBVIOUS
    <3> QED
      BY <3>1
  <2> HIDE DEF d, closing, last
  <2>2. CASE closing = TRUE
    <3>1. Pass(s, d, r, last, TRUE) /\ last \in Cash
      BY <1>8, <2>2
    <3> QED
      BY <1>2, <3>1, PassEndsOne
  <2>3. CASE closing = FALSE
    <3>1. Pass(s, d, r, last, FALSE) /\ shift[s].state = "CLOSED" /\ last \in Cash
      BY <1>7, <1>8, <2>3
    <3> QED
      BY <1>2, <3>1, PassEndsOne
  <2> QED
    BY <2>1, <2>2, <2>3
<1> QED
  BY <1>1, <1>2, <1>4, <1>5, <1>6, <1>9

LEMMA SelfCloseEnds ==
    ASSUME CashInv, NEW a \in Staff, NEW s \in Shifts, NEW actual \in Counts, SelfClose(a, s, actual)
    PROVE  /\ ~handover[s].submitted /\ ~takeover'[s].done
           /\ \A e \in Drawers : custody[e] # NoCustody => custody'[e] = custody[e]
           /\ \A q \in Shifts \ {s} : /\ shift'[q].state = "CLOSED" => shift[q].state = "CLOSED"
                                      /\ shift[q].work = "BLOCKED" => shift'[q].work = "BLOCKED"
           /\ shift[s].work # "BLOCKED"
<1> DEFINE d == shift[s].drawer
<1>1. /\ shift[s].state = "OPEN" /\ shift[s].work = "OPEN" /\ drawer[d].shift = s
      /\ ~handover[s].submitted
      /\ Pass(s, d, a, actual, TRUE)
      /\ custody' = [custody EXCEPT ![d] = CustodyAfter(s, d, a)]
      /\ takeover' = StaleCounts
  BY DEF SelfClose, Working
<1>2. s <= opened /\ d \in Drawers /\ actual \in Cash /\ custody[d] = NoCustody
  BY <1>1, ShiftFacts, CashAssumption DEF Cash, Live
<1>3. ~takeover'[s].done
  <2>1. takeover'[s].done = takeover[s].done
    BY <1>1, StaleCountsRows
  <2> QED
    BY <1>1, <2>1 DEF CashInv, RowsFit, WorkRowsFit
<1>4. \A e \in Drawers : custody[e] # NoCustody => custody'[e] = custody[e]
  BY <1>1, <1>2 DEF CashInv, TypeOK
<1> HIDE DEF d
<1>5. \A q \in Shifts \ {s} : /\ shift'[q].state = "CLOSED" => shift[q].state = "CLOSED"
                              /\ shift[q].work = "BLOCKED" => shift'[q].work = "BLOCKED"
  BY <1>1, <1>2, PassEndsOne
<1> QED
  BY <1>1, <1>3, <1>4, <1>5

LEMMA TakeoverCloseEnds ==
    ASSUME CashInv, NEW r \in Staff, NEW s \in Shifts, TakeoverClose(r, s)
    PROVE  /\ custody' = custody /\ counted[shift[s].drawer] /\ takeover'[s].done
           /\ takeover[s].replacement # shift[s].owner /\ shift'[s].work = "CLOSED"
           /\ \A q \in Shifts \ {s} : /\ shift'[q].state = "CLOSED" => shift[q].state = "CLOSED"
                                      /\ shift[q].work = "BLOCKED" => shift'[q].work = "BLOCKED"
<1> DEFINE d == shift[s].drawer
           count == takeover[s].count
<1>1. /\ shift[s].state = "OPEN" /\ takeover[s].replacement = r /\ ~takeover[s].done
      /\ count.usable
      /\ drawer[d] = [posted |-> count.expected, reserved |-> 0, shift |-> s]
      /\ Pass(s, d, r, count.actual, TRUE)
      /\ takeover' = [StaleCounts EXCEPT ![s].done = TRUE]
      /\ custody' = custody
  BY DEF TakeoverClose, TakesOver
<1>2. /\ s <= opened /\ d \in Drawers
  BY <1>1, ShiftFacts DEF Live
<1>3. count.actual \in Cash
  BY CashRows DEF Takeover, Count
<1>4. drawer[d].shift = s
  BY <1>1
<1>5. counted[d]
  BY <1>1 DEF CashInv, RowsFit, WorkRowsFit
<1>6. takeover[s].replacement # shift[s].owner
  BY <1>1, NoneAssumption DEF CashInv, TakenOverByAnother
<1>7. takeover'[s].done
  <2>1. StaleCounts \in [Shifts -> Takeover]
    BY StaleCountsRows
  <2>2. \A x \in Takeover : [x EXCEPT !.done = TRUE].done = TRUE
    BY DEF Takeover
  <2>3. takeover' = [StaleCounts EXCEPT ![s] = [StaleCounts[s] EXCEPT !.done = TRUE]]
    BY <1>1
  <2> QED
    BY <2>1, <2>2, <2>3
<1> DEFINE actual == count.actual
<1>8. Pass(s, d, r, actual, TRUE) /\ actual \in Cash
  BY <1>1, <1>3
<1>9. \A q \in Shifts \ {s} : /\ shift'[q].state = "CLOSED" => shift[q].state = "CLOSED"
                              /\ shift[q].work = "BLOCKED" => shift'[q].work = "BLOCKED"
  <2> HIDE DEF d, actual
  <2> QED
    BY <1>2, <1>4, <1>8, PassEndsOne
<1>10. shift'[s].work = "CLOSED"
  <2> HIDE DEF d, actual
  <2> QED
    BY <1>2, <1>4, <1>8, PassRows
<1> QED
  BY <1>1, <1>5, <1>6, <1>7, <1>9, <1>10

\* A shift that somebody else closes, and a custody, end on cash that has not
\* moved since it was counted: neither a sale nor a refund, a transfer, a second
\* handover or a stale takeover count comes between.
THEOREM NothingMovesAfterTheCount == Spec => EndsOnCountedCash
<1> DEFINE Body ==
      /\ \A s \in Shifts :
            Live(s) /\ shift'[s].state = "CLOSED" /\ (handover[s].submitted \/ takeover'[s].done)
                => counted[shift[s].drawer]
      /\ \A d \in Drawers :
            custody[d] # NoCustody /\ custody'[d] # custody[d] => counted[d]
<1>1. ASSUME CashInv, Next
      PROVE  Body
  <2>1. CASE EndsNothing
    BY <2>1 DEF EndsNothing, Live
  <2>2. ASSUME NEW r \in Staff, NEW s \in Shifts, Accept(r, s)
        PROVE  Body
    BY <1>1, <2>2, AcceptEnds DEF Live
  <2>3. ASSUME NEW r \in Staff, NEW s \in Shifts, NEW c \in Counts, SelfClose(r, s, c)
        PROVE  Body
    BY <1>1, <2>3, SelfCloseEnds DEF Live
  <2>4. ASSUME NEW r \in Staff, NEW s \in Shifts, TakeoverClose(r, s)
        PROVE  Body
    BY <1>1, <2>4, TakeoverCloseEnds DEF Live
  <2> QED
    BY <1>1, <2>1, <2>2, <2>3, <2>4, StepsThatEnd
<1>2. CashInv /\ [Next]_vars => [Body]_vars
  BY <1>1
<1> QED
  BY <1>2, CashSafe, PTL DEF Spec, EndsOnCountedCash

\* Blocked work ends through its takeover, by somebody who does not own it; a
\* handover that was under way when its sender was suspended is never accepted.
THEOREM BlockedWorkIsTakenOver == Spec => BlockedEndsByTakeover
<1> DEFINE Body ==
      \A s \in Shifts : shift[s].work = "BLOCKED" /\ shift'[s].work # "BLOCKED"
          => takeover'[s].done /\ takeover[s].replacement # shift[s].owner
<1>1. ASSUME CashInv, Next
      PROVE  Body
  <2>1. CASE EndsNothing
    BY <2>1 DEF EndsNothing
  <2>2. ASSUME NEW r \in Staff, NEW s \in Shifts, Accept(r, s)
        PROVE  Body
    BY <1>1, <2>2, AcceptEnds
  <2>3. ASSUME NEW r \in Staff, NEW s \in Shifts, NEW c \in Counts, SelfClose(r, s, c)
        PROVE  Body
    BY <1>1, <2>3, SelfCloseEnds
  <2>4. ASSUME NEW r \in Staff, NEW s \in Shifts, TakeoverClose(r, s)
        PROVE  Body
    BY <1>1, <2>4, TakeoverCloseEnds
  <2> QED
    BY <1>1, <2>1, <2>2, <2>3, <2>4, StepsThatEnd
<1>2. CashInv /\ [Next]_vars => [Body]_vars
  BY <1>1
<1> QED
  BY <1>2, CashSafe, PTL DEF Spec, BlockedEndsByTakeover

\* In this step blocked shift q takes no new promise, and its cash moves only
\* with a transfer that ends.
TakesNothingNew(q) ==
    /\ \A o \in Obligations :
          obligation'[o].state = "PENDING" /\ obligation'[o].shift = q
              => obligation[o].state = "PENDING"
    /\ \A t \in Transfers :
          transfer'[t].state = "PENDING" /\ q \in {transfer'[t].sourceShift, transfer'[t].destShift}
              => transfer[t].state = "PENDING"
    /\ drawer'[shift[q].drawer].posted # drawer[shift[q].drawer].posted =>
          \E t \in Transfers : transfer[t].state = "PENDING" /\ transfer'[t].state = "DONE"

\* A blocked shift is the current one of its drawer, so a drawer with another
\* current shift, or none, is another drawer.
LEMMA BlockedKeepsItsDrawer ==
    ASSUME CashInv, NEW q \in Shifts, shift[q].work = "BLOCKED"
    PROVE  /\ shift[q].drawer \in Drawers /\ drawer[shift[q].drawer].shift = q
           /\ q # NoShift
<1>1. q # NoShift
  BY DEF Shifts, NoShift
<1> QED
  BY <1>1, ShiftFacts DEF Live

LEMMA NoMoneyNothingNew ==
    ASSUME UNCHANGED <<drawer, claims>>, NEW q
    PROVE  TakesNothingNew(q)
  BY DEF claims, TakesNothingNew

\* Only cash moves, in a drawer that is not the one of q.
LEMMA ElsewhereNothingNew ==
    ASSUME CashInv, NEW q \in Shifts, shift[q].work = "BLOCKED", UNCHANGED claims,
           NEW d, drawer[d].shift # q, \A e \in Drawers \ {d} : drawer'[e].posted = drawer[e].posted
    PROVE  TakesNothingNew(q)
<1>1. shift[q].drawer \in Drawers \ {d}
  BY BlockedKeepsItsDrawer
<1> QED
  BY <1>1 DEF claims, TakesNothingNew

LEMMA GuestMoneyNothingNew ==
    ASSUME CashInv, GuestMoney, NEW q \in Shifts, shift[q].work = "BLOCKED"
    PROVE  TakesNothingNew(q)
<1>1. shift[q].drawer \in Drawers /\ drawer[shift[q].drawer].shift = q
  BY BlockedKeepsItsDrawer
<1>2. ASSUME NEW s, NEW d, NEW posted, NEW reserved, GuestCash(s, d, posted, reserved), s # q
      PROVE  drawer'[shift[q].drawer].posted = drawer[shift[q].drawer].posted
  <2>1. /\ drawer[d].shift = s
        /\ drawer' = [drawer EXCEPT ![d].posted = @ + posted, ![d].reserved = @ + reserved]
    BY <1>2 DEF GuestCash
  <2>2. shift[q].drawer # d
    BY <1>1, <1>2, <2>1
  <2> QED
    BY <1>1, <2>1, <2>2 DEF CashInv, TypeOK
<1>3. ASSUME NEW a \in Staff, NEW s \in Shifts, NEW amount \in Amounts, Receive(a, s, amount)
      PROVE  TakesNothingNew(q)
  <2>1. /\ s # q /\ GuestCash(s, shift[s].drawer, amount, 0) /\ UNCHANGED claims
    BY <1>3 DEF Receive, Working
  <2> QED
    BY <1>2, <2>1 DEF claims, TakesNothingNew
<1>4. ASSUME NEW o \in Obligations, transfer' = transfer,
             obligation' = [obligation EXCEPT ![o].state = "DONE"],
             drawer'[shift[q].drawer].posted = drawer[shift[q].drawer].posted
      PROVE  TakesNothingNew(q)
  <2>1. \A p \in Obligations \ {o} : obligation'[p] = obligation[p]
    BY <1>4 DEF CashInv, TypeOK
  <2>2. obligation'[o].state = "DONE"
    <3>1. obligation'[o] = [obligation[o] EXCEPT !.state = "DONE"] /\ obligation[o] \in Obligation
      BY <1>4 DEF CashInv, TypeOK
    <3>2. \A x \in Obligation : [x EXCEPT !.state = "DONE"].state = "DONE"
      BY DEF Obligation
    <3> QED
      BY <3>1, <3>2
  <2> QED
    BY <1>4, <2>1, <2>2 DEF TakesNothingNew
<1>5. ASSUME NEW a \in Staff, NEW o \in Obligations, ReleaseRefund(a, o)
      PROVE  TakesNothingNew(q)
  <2> DEFINE d == obligation[o].drawer
             less == -obligation[o].amount
  <2>1. /\ transfer' = transfer /\ obligation' = [obligation EXCEPT ![o].state = "DONE"]
        /\ drawer' = [drawer EXCEPT ![d].posted = @ + 0, ![d].reserved = @ + less]
    BY <1>5 DEF ReleaseRefund, GuestCash
  <2>2. drawer'[shift[q].drawer].posted = drawer[shift[q].drawer].posted
    <3>1. drawer \in [Drawers -> Drawer]
      BY DEF CashInv, TypeOK
    <3> HIDE DEF d, less
    <3>2. CASE d # shift[q].drawer
      BY <1>1, <2>1, <3>1, <3>2
    <3>3. CASE d = shift[q].drawer
      <4>1. drawer'[d] = [drawer[d] EXCEPT !.posted = @ + 0, !.reserved = @ + less]
        BY <1>1, <2>1, <3>1, <3>3
      <4>2. drawer[d] \in Drawer /\ drawer[d].posted \in Nat
        BY <1>1, <3>3, CashRows DEF Cash
      <4>3. drawer'[d].posted = drawer[d].posted + 0
        BY <4>1, <4>2 DEF Drawer
      <4> QED
        BY <3>3, <4>2, <4>3
    <3> QED
      BY <3>2, <3>3
  <2> QED
    BY <1>4, <2>1, <2>2
<1>6. ASSUME NEW a \in Staff, NEW s \in Shifts, NEW o \in Obligations, CompleteRefund(a, s, o)
      PROVE  TakesNothingNew(q)
  <2>1. /\ s # q /\ transfer' = transfer /\ obligation' = [obligation EXCEPT ![o].state = "DONE"]
        /\ GuestCash(s, obligation[o].drawer, -obligation[o].amount, -obligation[o].amount)
    BY <1>6 DEF CompleteRefund, Working
  <2> QED
    BY <1>2, <1>4, <2>1
<1>7. ASSUME NEW a \in Staff, NEW s \in Shifts, NEW o \in Obligations, NEW delta,
             ApproveCorrection(a, s, o, delta)
      PROVE  TakesNothingNew(q)
  <2>1. /\ s # q /\ transfer' = transfer /\ obligation' = [obligation EXCEPT ![o].state = "DONE"]
        /\ GuestCash(s, obligation[o].drawer, delta, 0)
    BY <1>7 DEF ApproveCorrection, Working
  <2> QED
    BY <1>2, <1>4, <2>1
<1>8. ASSUME NEW o \in Obligations, Settle(o)
      PROVE  TakesNothingNew(q)
  BY <1>4, <1>8 DEF Settle
<1>9. ASSUME NEW o \in Obligations, NEW row, row.shift # q, transfer' = transfer,
             obligation' = [obligation EXCEPT ![o] = row],
             drawer'[shift[q].drawer].posted = drawer[shift[q].drawer].posted
      PROVE  TakesNothingNew(q)
  <2>1. obligation'[o] = row /\ \A p \in Obligations \ {o} : obligation'[p] = obligation[p]
    BY <1>9 DEF CashInv, TypeOK
  <2> QED
    BY <1>9, <2>1 DEF TakesNothingNew
<1>10. ASSUME NEW a \in Staff, NEW s \in Shifts, NEW o \in Obligations, Oblige(a, s, o)
       PROVE  TakesNothingNew(q)
  <2> DEFINE row == [state |-> "PENDING", drawer |-> shift[s].drawer, shift |-> s, amount |-> 0]
  <2>1. /\ s # q /\ transfer' = transfer /\ drawer' = drawer
        /\ obligation' = [obligation EXCEPT ![o] = row]
    BY <1>10 DEF Oblige, Working
  <2>2. row.shift # q
    BY <2>1
  <2> HIDE DEF row
  <2> QED
    BY <1>9, <2>1, <2>2
<1>11. ASSUME NEW a \in Staff, NEW s \in Shifts, NEW o \in Obligations, NEW amount \in Amounts,
              ReserveRefund(a, s, o, amount)
       PROVE  TakesNothingNew(q)
  <2> DEFINE row == [state |-> "PENDING", drawer |-> shift[s].drawer, shift |-> s, amount |-> amount]
  <2>1. /\ s # q /\ transfer' = transfer /\ GuestCash(s, shift[s].drawer, 0, amount)
        /\ obligation' = [obligation EXCEPT ![o] = row]
    BY <1>11 DEF ReserveRefund, Working
  <2>2. row.shift # q
    BY <2>1
  <2> HIDE DEF row
  <2> QED
    BY <1>2, <1>9, <2>1, <2>2
<1> QED
  BY <1>3, <1>5, <1>6, <1>7, <1>8, <1>10, <1>11 DEF GuestMoney

LEMMA TransferNothingNew ==
    ASSUME CashInv, NEW t \in Transfers, NEW s, Confirmed(t, s) \/ Returned(t, s), NEW q
    PROVE  TakesNothingNew(q)
<1>1. /\ transfer[t].state = "PENDING" /\ obligation' = obligation
      /\ transfer' = [transfer EXCEPT ![t].state = "DONE"]
  BY DEF Confirmed, Returned
<1>2. \A p \in Transfers \ {t} : transfer'[p] = transfer[p]
  BY <1>1 DEF CashInv, TypeOK
<1>3. transfer'[t].state = "DONE"
  <2>1. transfer'[t] = [transfer[t] EXCEPT !.state = "DONE"] /\ transfer[t] \in Transfer
    BY <1>1 DEF CashInv, TypeOK
  <2>2. \A x \in Transfer : [x EXCEPT !.state = "DONE"].state = "DONE"
    BY DEF Transfer
  <2> QED
    BY <2>1, <2>2
<1> QED
  BY <1>1, <1>2, <1>3 DEF TakesNothingNew

LEMMA CashCommandNothingNew ==
    ASSUME CashInv, CashCommand, NEW q \in Shifts, shift[q].work = "BLOCKED"
    PROVE  TakesNothingNew(q)
<1>1. shift[q].drawer \in Drawers /\ drawer[shift[q].drawer].shift = q /\ Blocked(shift[q].drawer)
  BY BlockedKeepsItsDrawer DEF Blocked
<1>2. ASSUME NEW d \in Drawers, NEW amount \in Amounts, Spend(d, amount)
      PROVE  TakesNothingNew(q)
  <2>1. /\ ~Blocked(d) /\ UNCHANGED claims
        /\ drawer' = [drawer EXCEPT ![d].posted = @ - amount]
    BY <1>2 DEF Spend
  <2>2. drawer'[shift[q].drawer] = drawer[shift[q].drawer]
    BY <1>1, <2>1 DEF CashInv, TypeOK
  <2> QED
    BY <2>1, <2>2 DEF claims, TakesNothingNew
<1>3. ASSUME NEW a \in Staff, NEW t \in Transfers, RequestCancel(a, t)
      PROVE  TakesNothingNew(q)
  <2>1. /\ transfer[t].state = "PENDING" /\ drawer' = drawer /\ obligation' = obligation
        /\ transfer' = [transfer EXCEPT ![t].cancel = TRUE]
    BY <1>3 DEF RequestCancel
  <2>2. \A p \in Transfers \ {t} : transfer'[p] = transfer[p]
    BY <2>1 DEF CashInv, TypeOK
  <2> QED
    BY <2>1, <2>2 DEF TakesNothingNew
<1>4. ASSUME NEW a \in Staff, NEW t \in Transfers, NEW x \in Drawers, NEW y \in Drawers,
             NEW amount \in Amounts, ReserveTransfer(a, t, x, y, amount)
      PROVE  TakesNothingNew(q)
  <2> DEFINE row == [state |-> "PENDING", source |-> x, dest |-> y,
                     sourceShift |-> drawer[x].shift, destShift |-> drawer[y].shift,
                     amount |-> amount, initiator |-> a, cancel |-> FALSE]
  <2>1. /\ ~Blocked(x) /\ ~Blocked(y) /\ obligation' = obligation
        /\ transfer' = [transfer EXCEPT ![t] = row]
        /\ drawer' = [drawer EXCEPT ![x].reserved = @ + amount]
    BY <1>4 DEF ReserveTransfer
  <2>2. drawer'[shift[q].drawer] = drawer[shift[q].drawer]
    BY <1>1, <2>1 DEF CashInv, TypeOK
  <2>3. row.sourceShift # q /\ row.destShift # q
    <3>1. \A d \in Drawers : drawer[d].shift = q => Blocked(d)
      BY BlockedKeepsItsDrawer DEF Blocked
    <3> QED
      BY <2>1, <3>1
  <2>4. transfer'[t] = row /\ \A p \in Transfers \ {t} : transfer'[p] = transfer[p]
    BY <2>1 DEF CashInv, TypeOK
  <2> HIDE DEF row
  <2> QED
    BY <2>1, <2>2, <2>3, <2>4 DEF TakesNothingNew
<1>5. ASSUME NEW s \in Shifts, NEW t \in Transfers, ConfirmTransfer(s, t) \/ CancelTransfer(s, t)
      PROVE  TakesNothingNew(q)
  BY <1>5, TransferNothingNew DEF ConfirmTransfer, CancelTransfer
<1> QED
  BY <1>2, <1>3, <1>4, <1>5 DEF CashCommand

\* A drawer passed on is the one of a shift that was not blocked, or is no more.
LEMMA PassNothingNew ==
    ASSUME CashInv, NEW q \in Shifts, shift[q].work = "BLOCKED",
           NEW s \in Shifts, NEW r, NEW actual, NEW closing, Pass(s, shift[s].drawer, r, actual, closing),
           drawer[shift[s].drawer].shift = s, s # q, UNCHANGED claims
    PROVE  TakesNothingNew(q)
<1> DEFINE d == shift[s].drawer
<1>1. drawer' = [drawer EXCEPT ![d].posted = actual,
                               ![d].shift = IF Continues(r) THEN opened + 1 ELSE s]
  BY DEF Pass
<1>2. \A e \in Drawers \ {d} : drawer'[e] = drawer[e]
  BY <1>1 DEF CashInv, TypeOK
<1> QED
  BY <1>2, ElsewhereNothingNew

LEMMA HandingOverNothingNew ==
    ASSUME CashInv, HandingOver, NEW q \in Shifts, shift[q].work = "BLOCKED"
    PROVE  TakesNothingNew(q)
<1>1. ASSUME NEW r \in Staff, NEW s \in Shifts, Accept(r, s)
      PROVE  TakesNothingNew(q)
  <2>1. /\ handover[s].submitted /\ UNCHANGED claims
        /\ Pass(s, shift[s].drawer, r, handover[s].last, ~handover[s].custody)
    BY <1>1 DEF Accept
  <2>2. s # q /\ drawer[shift[s].drawer].shift = s
    <3>1. shift[s].work # "BLOCKED"
      BY <1>1, AcceptEnds
    <3>2. drawer[shift[s].drawer] =
              [posted |-> handover[s].expected, reserved |-> 0, shift |-> s]
      BY <2>1, Frozen
    <3> QED
      BY <3>1, <3>2
  <2> DEFINE closing == ~handover[s].custody
             last == handover[s].last
  <2>3. Pass(s, shift[s].drawer, r, last, closing)
    BY <2>1
  <2> HIDE DEF closing, last
  <2> QED
    BY <2>1, <2>2, <2>3, PassNothingNew
<1>2. ASSUME NEW r \in Staff, NEW s \in Shifts, NEW c \in Counts, SelfClose(r, s, c)
      PROVE  TakesNothingNew(q)
  <2>1. /\ s # q /\ UNCHANGED claims /\ Pass(s, shift[s].drawer, r, c, TRUE)
        /\ drawer[shift[s].drawer].shift = s
    BY <1>2 DEF SelfClose, Working
  <2> QED
    BY <2>1, PassNothingNew
<1>3. ASSUME NEW a \in Staff, NEW r \in Staff, NEW c \in Counts,
             \/ \E s \in Shifts : SubmitShift(a, s, r, c)
             \/ \E d \in Drawers : SubmitCustody(a, d, r, c)
      PROVE  UNCHANGED <<drawer, claims>>
  BY <1>3 DEF SubmitShift, SubmitCustody, Submit
<1>4. ASSUME NEW r \in Staff, NEW s \in Shifts,
             Return(r, s) \/ HandoverCountExpires(s) \/ \E c \in Counts : CountHandover(r, s, c)
      PROVE  UNCHANGED <<drawer, claims>>
  BY <1>4 DEF Return, HandoverCountExpires, CountHandover
<1>5. ASSUME NEW s \in Shifts, HandoverCountExpires(s)
      PROVE  UNCHANGED <<drawer, claims>>
  BY <1>5 DEF HandoverCountExpires
<1> QED
  BY <1>1, <1>2, <1>3, <1>4, <1>5, NoMoneyNothingNew DEF HandingOver

LEMMA TakingOverNothingNew ==
    ASSUME CashInv, TakingOver, NEW q \in Shifts, shift[q].work = "BLOCKED", shift'[q].work = "BLOCKED"
    PROVE  TakesNothingNew(q)
<1>1. ASSUME NEW r \in Staff, NEW s \in Shifts, TakeoverClose(r, s)
      PROVE  TakesNothingNew(q)
  <2>1. /\ UNCHANGED claims /\ Live(s)
        /\ Pass(s, shift[s].drawer, r, takeover[s].count.actual, TRUE)
    BY <1>1 DEF TakeoverClose, TakesOver, Live
  <2>2. s # q /\ drawer[shift[s].drawer].shift = s
    BY <1>1, <2>1, TakeoverCloseEnds, ShiftFacts
  <2> QED
    BY <2>1, <2>2, PassNothingNew
<1>2. ASSUME NEW r \in Staff, NEW s \in Shifts, NEW t \in Transfers, TakeoverTransfer(r, s, t)
      PROVE  TakesNothingNew(q)
  BY <1>2, TransferNothingNew DEF TakeoverTransfer
<1>3. ASSUME NEW a \in Staff, NEW s \in Shifts,
             \/ Claim(a, s) \/ RecoverClaim(a, s)
             \/ \E r \in Staff : Prepare(a, s, r) \/ RecoverReplacement(a, s, r)
             \/ \E c \in Counts : TakeoverCount(a, s, c)
      PROVE  UNCHANGED <<drawer, claims>>
  BY <1>3 DEF Claim, RecoverClaim, Prepare, RecoverReplacement, TakeoverCount
<1>4. ASSUME NEW s \in Shifts, TakeoverCountExpires(s)
      PROVE  UNCHANGED <<drawer, claims>>
  BY <1>4 DEF TakeoverCountExpires
<1> QED
  BY <1>1, <1>2, <1>3, <1>4, NoMoneyNothingNew DEF TakingOver

\* From the suspension of its owner to its takeover a shift takes no new money
\* and no new promise: only transfers that were under way still end.
THEOREM SuspensionStopsTheShift == Spec => SuspendedTakesNothingNew
<1> DEFINE Body == \A s \in Shifts : shift[s].work = "BLOCKED" /\ shift'[s].work = "BLOCKED" =>
          /\ \A o \in Obligations :
                obligation'[o].state = "PENDING" /\ obligation'[o].shift = s
                    => obligation[o].state = "PENDING"
          /\ \A t \in Transfers :
                transfer'[t].state = "PENDING" /\ s \in {transfer'[t].sourceShift, transfer'[t].destShift}
                    => transfer[t].state = "PENDING"
          /\ drawer'[shift[s].drawer].posted # drawer[shift[s].drawer].posted =>
                \E t \in Transfers : transfer[t].state = "PENDING" /\ transfer'[t].state = "DONE"
<1>1. ASSUME CashInv, Next
      PROVE  Body
  <2> SUFFICES ASSUME NEW s \in Shifts, shift[s].work = "BLOCKED", shift'[s].work = "BLOCKED"
               PROVE  TakesNothingNew(s)
    BY DEF TakesNothingNew
  <2>1. CASE Membership
    BY <2>1, NoMoneyNothingNew DEF Membership, ManagerRevoked, ChangeMember, Lock, Renew
  <2>2. ASSUME NEW a \in Staff, NEW d \in Drawers, NEW c \in Counts, Open(a, d, c)
        PROVE  TakesNothingNew(s)
    <3>1. /\ drawer[d].shift = NoShift /\ UNCHANGED claims
          /\ drawer' = [drawer EXCEPT ![d] = [posted |-> c, reserved |-> 0, shift |-> opened + 1]]
      BY <2>2 DEF Open, Unused
    <3>2. \A e \in Drawers \ {d} : drawer'[e] = drawer[e]
      BY <3>1 DEF CashInv, TypeOK
    <3>3. s # NoShift
      BY <1>1, BlockedKeepsItsDrawer
    <3> QED
      BY <1>1, <3>1, <3>2, <3>3, ElsewhereNothingNew
  <2> QED
    BY <1>1, <2>1, <2>2, GuestMoneyNothingNew, CashCommandNothingNew, HandingOverNothingNew,
       TakingOverNothingNew DEF Next, Opening
<1>2. CashInv /\ [Next]_vars => [Body]_vars
  BY <1>1
<1> QED
  BY <1>2, CashSafe, PTL DEF Spec, SuspendedTakesNothingNew

=============================================================================
