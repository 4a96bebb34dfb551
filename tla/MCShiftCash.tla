---------------------------- MODULE MCShiftCash ----------------------------
(* Checks ShiftCash on small hotels.                                       *)
EXTENDS ShiftCash, TLC

CONSTANTS a, b, m

\* Two receptionists who may be suspended and one who also manages.
TakeoverGrants ==
    (a :> {{}, {"RECEPTION"}}) @@ (b :> {{}, {"RECEPTION"}}) @@ (m :> {{"RECEPTION", "MANAGER"}})

\* A receptionist who may be suspended, one who may also manage, and a manager.
HandoverGrants ==
    (a :> {{}, {"RECEPTION"}}) @@ (b :> {{"RECEPTION"}, {"RECEPTION", "MANAGER"}})
    @@ (m :> {{"MANAGER"}})

\* A receptionist who may be suspended and one who also manages.
TransferGrants == (a :> {{}, {"RECEPTION"}}) @@ (b :> {{"RECEPTION", "MANAGER"}})

\* The drawers are alike.
DrawerSymmetry == Permutations(Drawers)
=============================================================================
