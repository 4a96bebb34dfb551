----------------------------- MODULE MCRoomStay -----------------------------
(* A small hotel whose rooms start in the lower category, or one of them in *)
(* the higher.  Rooms, stays, claims and bookings are interchangeable.      *)
EXTENDS RoomStay, TLC
CONSTANTS Standard, Deluxe
MCHomes == {h \in [Rooms -> Categories] : Cardinality({r \in Rooms : h[r] = Deluxe}) <= 1}
MCRank == [c \in Categories |-> IF c = Deluxe THEN 2 ELSE 1]
MCSymmetry == Permutations(Rooms) \cup Permutations(Stays) \cup Permutations(Claims)
=============================================================================
