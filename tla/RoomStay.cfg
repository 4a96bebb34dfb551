SPECIFICATION RoomSpec
CONSTANTS
  Rooms = {r1, r2}
  Standard = standard
  Deluxe = deluxe
  Categories = {standard, deluxe}
  Homes <- MCHomes
  Rank <- MCRank
  New = {}
  Stays = {s1, s2}
  Claims = {x1, x2}
  Bookings = {b1}
  LastTime = 1
  MaxNights = 2
  Buffer = 0
  Backdate = 1
  MaxStarted = 3
INVARIANTS RoomTypeOK RoomPromisedOnce RoomsAreLeftInOrder
PROPERTY ClaimsStayAssignable
SYMMETRY MCSymmetry
CHECK_DEADLOCK FALSE
