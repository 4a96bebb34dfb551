--------------------------- MODULE RoomStayProofs ---------------------------
(***************************************************************************)
(* Proofs about RoomStay for any rooms, categories, stays, claims and      *)
(* reservations, any clock, cleaning buffer and length of a stay.          *)
(***************************************************************************)
EXTENDS RoomStay, FiniteSums

\* A guest arrived before the arrival was recorded, and was to leave after it.
StaysFit ==
    \A s \in Stays :
        /\ stay[s].state = "ACTIVE" =>
              /\ stay[s].ready <= stay[s].from /\ stay[s].from <= stay[s].recorded
              /\ stay[s].recorded <= hour /\ stay[s].recorded < stay[s].until
        /\ stay[s].state = "CLOSED" => stay[s].from <= stay[s].until /\ stay[s].until <= hour

\* Stay s began after stay t had left and the room had its buffer.
Follows(s, t) == stay[t].state = "CLOSED" /\ stay[t].until + Buffer <= stay[s].from

\* The stays of a room came one after the other.
StaysFollow ==
    \A s, t \in Stays :
        s # t /\ stay[s].state # "NONE" /\ stay[t].state # "NONE" /\ stay[s].room = stay[t].room
          => Follows(s, t) \/ Follows(t, s)

ReservedApart ==
    \A s \in Stays, b \in Bookings :
        stay[s].state = "ACTIVE" /\ reserved[b].state = "CONFIRMED" /\ stay[s].room = reserved[b].room
          => ~Overlap(stay[s], reserved[b])

\* Rooms rs and categories cs fit the stays ss, the reservations bs, the claims
\* xs and the cleaning tasks ts: work is open in dirty rooms only, guests live in
\* clean rooms, and what is INACTIVE is empty.
WorkInDirtyRooms(rs, ts) == \A r \in Rooms : ts[r] # "NONE" => rs[r].clean # "CLEAN"

GuestsInCleanRooms(rs, ss) ==
    \A s \in Stays : ss[s].state = "ACTIVE" =>
        rs[ss[s].room].clean = "CLEAN" /\ rs[ss[s].room].status # "INACTIVE"

InactiveRoomsEmpty(rs, ss, bs, ts) ==
    \A r \in Rooms : rs[r].status = "INACTIVE" =>
        /\ ts[r] = "NONE"
        /\ \A b \in Bookings : bs[b].state = "CONFIRMED" /\ bs[b].room = r => bs[b].until <= hour
        /\ rs[r].clean # "CLEAN" => \A s \in Stays : ss[s].room = r => ss[s].state = "NONE"

InactiveCategoriesEmpty(rs, cs, xs) ==
    \A c \in Categories : cs[c] = "INACTIVE" =>
        /\ \A r \in Rooms : rs[r].cat = c => rs[r].status = "INACTIVE"
        /\ \A x \in Claims :
              xs[x].state \in {"ACTIVE", "CONFIRMED"} /\ xs[x].cat = c => xs[x].until <= hour

HouseInOrder(rs, cs, ss, bs, xs, ts) ==
    /\ WorkInDirtyRooms(rs, ts) /\ GuestsInCleanRooms(rs, ss)
    /\ InactiveRoomsEmpty(rs, ss, bs, ts) /\ InactiveCategoriesEmpty(rs, cs, xs)

RoomInv ==
    /\ RoomTypeOK /\ StaysFit /\ StaysFollow /\ ReservedApart /\ NoPendingAtCheckout
    /\ HouseInOrder(room, category, stay, reserved, claim, task)

Statuses == {"ACTIVE", "RETIRING", "INACTIVE"}

-----------------------------------------------------------------------------
(* The invariant says what the runs check.                                 *)

LEMMA RoomNumbers ==
    ASSUME RoomInv
    PROVE  /\ hour \in Nat /\ Buffer \in Nat /\ LastTime \in Nat /\ MaxNights \in Nat
           /\ Backdate \in Nat /\ MaxStarted \in Nat
           /\ \A r \in Rooms : room[r] \in RoomRow
           /\ \A s \in Stays : /\ stay[s] \in StayRow /\ stay[s].room \in Rooms
                               /\ stay[s].from \in Nat /\ stay[s].until \in Nat
                               /\ stay[s].recorded \in Nat /\ stay[s].ready \in Nat
           /\ \A x \in Claims : /\ claim[x] \in ClaimRow /\ claim[x].cat \in Categories
                                /\ claim[x].from \in Nat /\ claim[x].until \in Nat
           /\ \A b \in Bookings : /\ reserved[b] \in ReservedRow /\ reserved[b].room \in Rooms
                                  /\ reserved[b].from \in Nat /\ reserved[b].until \in Nat
<1>1. /\ Buffer \in Nat /\ LastTime \in Nat /\ MaxNights \in Nat
      /\ Backdate \in Nat /\ MaxStarted \in Nat
  BY RoomStayAssumption
<1>2. /\ hour \in Times /\ room \in [Rooms -> RoomRow] /\ stay \in [Stays -> StayRow]
      /\ claim \in [Claims -> ClaimRow] /\ reserved \in [Bookings -> ReservedRow]
  BY DEF RoomInv, RoomTypeOK
<1>3. Times \subseteq Nat /\ Later \subseteq Nat
  BY <1>1 DEF Times, Later
<1>4. /\ \A y \in StayRow : /\ y.room \in Rooms /\ y.from \in Nat /\ y.until \in Nat
                            /\ y.recorded \in Nat /\ y.ready \in Nat
      /\ \A y \in ClaimRow : y.cat \in Categories /\ y.from \in Nat /\ y.until \in Nat
      /\ \A y \in ReservedRow : y.room \in Rooms /\ y.from \in Nat /\ y.until \in Nat
  BY <1>3 DEF StayRow, ClaimRow, ReservedRow
<1> QED
  BY <1>1, <1>2, <1>3, <1>4

LEMMA InvPromisedOnce == RoomInv => RoomPromisedOnce
<1> SUFFICES ASSUME RoomInv PROVE RoomPromisedOnce
  OBVIOUS
<1>1. ASSUME NEW s \in Stays, NEW t \in Stays, s # t, stay[s].state # "NONE", stay[t].state # "NONE",
             stay[s].room = stay[t].room
      PROVE  ~Overlap(StayInterval(s), StayInterval(t))
  <2>1. \A u \in Stays : stay[u].state = "CLOSED" =>
           StayInterval(u).from = stay[u].from /\ StayInterval(u).until = stay[u].until
    BY DEF StayInterval
  <2>2. \A u \in Stays : StayInterval(u).from = stay[u].from
    BY DEF StayInterval
  <2>3. Follows(s, t) \/ Follows(t, s)
    BY <1>1 DEF RoomInv, StaysFollow
  <2> QED
    BY <2>1, <2>2, <2>3, RoomNumbers DEF Follows, Overlap
<1>2. \A s \in Stays : stay[s].state = "ACTIVE" => stay[s].ready <= stay[s].from
  BY DEF RoomInv, StaysFit
<1>3. ReservedApart
  BY DEF RoomInv
<1> QED
  BY <1>1, <1>2, <1>3 DEF RoomPromisedOnce, ReservedApart

LEMMA InvLeftInOrder == RoomInv => RoomsAreLeftInOrder
<1> SUFFICES ASSUME RoomInv PROVE RoomsAreLeftInOrder
  OBVIOUS
<1>1. HouseInOrder(room, category, stay, reserved, claim, task) /\ NoPendingAtCheckout
  BY DEF RoomInv
<1>2. OccupiedRoomIsUntouched
  BY <1>1, RoomNumbers
     DEF HouseInOrder, WorkInDirtyRooms, GuestsInCleanRooms, OccupiedRoomIsUntouched
<1>3. RetiredIsEmpty
  BY <1>1 DEF HouseInOrder, InactiveRoomsEmpty, InactiveCategoriesEmpty, RetiredIsEmpty, Outstanding
<1> QED
  BY <1>1, <1>2, <1>3 DEF RoomsAreLeftInOrder

LEMMA InitRoomInv == RoomInit => RoomInv
<1> SUFFICES ASSUME RoomInit PROVE RoomInv
  OBVIOUS
<1> DEFINE anyRoom == CHOOSE r \in Rooms : TRUE
<1>1. anyRoom \in Rooms /\ AnyCategory \in Categories
  BY RoomStayAssumption DEF AnyCategory
<1>2. /\ LastTime \in Nat /\ MaxNights \in Nat /\ MaxStarted \in Nat
      /\ 0 \in Times /\ 0 \in Later /\ 0 \in 0 .. NotReady /\ NotReady \in 0 .. NotReady
      /\ NotReady # 0
  BY RoomStayAssumption DEF Times, Later, NotReady
<1>3. PICK home \in Homes :
         room = [r \in Rooms |-> [cat |-> home[r], status |-> "ACTIVE",
                                  clean |-> IF r \in New THEN "DIRTY" ELSE "CLEAN",
                                  ready |-> IF r \in New THEN NotReady ELSE 0]]
  BY DEF RoomInit
<1>4. /\ hour = 0 /\ started = 0 /\ package \in {20000, 25000}
      /\ category = [c \in Categories |-> "ACTIVE"]
      /\ stay = [s \in Stays |-> [state |-> "NONE", room |-> anyRoom, from |-> 0, until |-> 0,
                                  recorded |-> 0, ready |-> 0, arrival |-> 0, asked |-> {},
                                  leaving |-> FALSE]]
      /\ claim = [x \in Claims |-> [state |-> "NONE", cat |-> AnyCategory, from |-> 0, until |-> 0,
                                    upgrade |-> {}]]
      /\ reserved = [b \in Bookings |-> [state |-> "NONE", room |-> anyRoom, from |-> 0, until |-> 0]]
      /\ task = [r \in Rooms |-> "NONE"]
  BY DEF RoomInit
<1> HIDE DEF anyRoom
<1>5. home \in [Rooms -> Categories]
  BY RoomStayAssumption
<1>6. room \in [Rooms -> RoomRow]
  BY <1>2, <1>3, <1>5 DEF RoomRow
<1>7. stay \in [Stays -> StayRow]
  BY <1>1, <1>2, <1>4 DEF StayRow
<1>8. claim \in [Claims -> ClaimRow] /\ reserved \in [Bookings -> ReservedRow]
  BY <1>1, <1>2, <1>4 DEF ClaimRow, ReservedRow
<1>9. \A r \in Rooms : room[r].ready # NotReady <=> IsReady(room, category, r)
  <2> SUFFICES ASSUME NEW r \in Rooms
               PROVE  room[r].ready # NotReady <=> IsReady(room, category, r)
    OBVIOUS
  <2>1. /\ room[r].clean = IF r \in New THEN "DIRTY" ELSE "CLEAN"
        /\ room[r].status = "ACTIVE" /\ room[r].cat \in Categories
        /\ room[r].ready = IF r \in New THEN NotReady ELSE 0
    BY <1>3, <1>5
  <2>2. category[room[r].cat] = "ACTIVE"
    BY <1>4, <2>1
  <2> QED
    BY <1>2, <2>1, <2>2 DEF IsReady
<1>10. RoomTypeOK
  <2>1. hour \in Times /\ started \in 0 .. MaxStarted /\ package \in {20000, 25000}
    BY <1>2, <1>4
  <2>2. category \in [Categories -> {"ACTIVE", "RETIRING", "INACTIVE"}]
    BY <1>4
  <2>3. task \in [Rooms -> {"NONE", "WAITING", "OPEN"}]
    BY <1>4
  <2> QED
    BY <1>6, <1>7, <1>8, <1>9, <2>1, <2>2, <2>3 DEF RoomTypeOK
<1>11. /\ \A s \in Stays : stay[s].state = "NONE" /\ ~stay[s].leaving
       /\ \A r \in Rooms : room[r].status = "ACTIVE" /\ task[r] = "NONE"
       /\ \A c \in Categories : category[c] = "ACTIVE"
  BY <1>3, <1>4
<1>12. StaysFit /\ StaysFollow /\ ReservedApart /\ NoPendingAtCheckout
  BY <1>11 DEF StaysFit, StaysFollow, ReservedApart, NoPendingAtCheckout
<1>13. HouseInOrder(room, category, stay, reserved, claim, task)
  BY <1>11 DEF HouseInOrder, WorkInDirtyRooms, GuestsInCleanRooms, InactiveRoomsEmpty,
              InactiveCategoriesEmpty
<1> QED
  BY <1>10, <1>12, <1>13 DEF RoomInv

-----------------------------------------------------------------------------
(* What every command ends with: readiness published, retirement completed. *)

LEMMA PublishRows ==
    ASSUME RoomInv, NEW rs \in [Rooms -> RoomRow], NEW cs \in [Categories -> Statuses],
           Publish(rs, cs)
    PROVE  /\ room' \in [Rooms -> RoomRow] /\ category' = cs
           /\ \A r \in Rooms : /\ room'[r].cat = rs[r].cat /\ room'[r].status = rs[r].status
                               /\ room'[r].clean = rs[r].clean
                               /\ room'[r].ready # NotReady <=> IsReady(room', category', r)
<1> DEFINE ready(r) == IF ~IsReady(rs, cs, r) THEN NotReady
                       ELSE IF room[r].ready # NotReady /\ room[r].cat = rs[r].cat THEN room[r].ready
                       ELSE hour
<1>1. category' = cs /\ room' = [r \in Rooms |-> [rs[r] EXCEPT !.ready = ready(r)]]
  BY DEF Publish
<1>2. hour \in 0 .. NotReady /\ hour # NotReady /\ NotReady \in 0 .. NotReady
  <2>1. hour \in 0 .. LastTime /\ LastTime \in Nat
    BY RoomNumbers DEF RoomInv, RoomTypeOK, Times
  <2> QED
    BY <2>1 DEF NotReady
<1>3. \A r \in Rooms : room[r].ready \in 0 .. NotReady
  BY RoomNumbers DEF RoomRow
<1>4. \A r \in Rooms : ready(r) \in 0 .. NotReady /\ (ready(r) # NotReady <=> IsReady(rs, cs, r))
  BY <1>2, <1>3
<1> HIDE DEF ready
<1>5. \A y \in RoomRow, n \in 0 .. NotReady :
         /\ [y EXCEPT !.ready = n] \in RoomRow
         /\ [y EXCEPT !.ready = n].cat = y.cat /\ [y EXCEPT !.ready = n].status = y.status
         /\ [y EXCEPT !.ready = n].clean = y.clean /\ [y EXCEPT !.ready = n].ready = n
  BY DEF RoomRow
<1>6. \A r \in Rooms : /\ room'[r] \in RoomRow
                       /\ room'[r].cat = rs[r].cat /\ room'[r].status = rs[r].status
                       /\ room'[r].clean = rs[r].clean /\ room'[r].ready = ready(r)
  BY <1>1, <1>4, <1>5
<1>7. room' \in [Rooms -> RoomRow]
  BY <1>1, <1>6
<1>8. \A r \in Rooms : IsReady(rs, cs, r) <=> IsReady(room', category', r)
  BY <1>1, <1>6 DEF IsReady
<1> QED
  BY <1>1, <1>4, <1>6, <1>7, <1>8

\* Order does not depend on when a room became ready.
LEMMA OrderOfRows ==
    ASSUME NEW rs, NEW cs, NEW ss \in [Stays -> StayRow], NEW bs, NEW xs, NEW ts, NEW qs,
           HouseInOrder(rs, cs, ss, bs, xs, ts),
           \A r \in Rooms : qs[r].cat = rs[r].cat /\ qs[r].status = rs[r].status /\ qs[r].clean = rs[r].clean
    PROVE  HouseInOrder(qs, cs, ss, bs, xs, ts)
<1>1. \A s \in Stays : ss[s].room \in Rooms
  BY DEF StayRow
<1>2. WorkInDirtyRooms(qs, ts) /\ GuestsInCleanRooms(qs, ss)
  BY <1>1 DEF HouseInOrder, WorkInDirtyRooms, GuestsInCleanRooms
<1>3. InactiveRoomsEmpty(qs, ss, bs, ts)
  BY DEF HouseInOrder, InactiveRoomsEmpty
<1>4. InactiveCategoriesEmpty(qs, cs, xs)
  BY DEF HouseInOrder, InactiveCategoriesEmpty
<1> QED
  BY <1>2, <1>3, <1>4 DEF HouseInOrder

LEMMA SweepKeeps ==
    ASSUME RoomInv, NEW rs \in [Rooms -> RoomRow], NEW cs \in [Categories -> Statuses],
           NEW ss \in [Stays -> StayRow], NEW bs \in [Bookings -> ReservedRow],
           NEW xs \in [Claims -> ClaimRow], NEW ts,
           HouseInOrder(rs, cs, ss, bs, xs, ts), Sweep(rs, cs, ss, bs, xs, ts)
    PROVE  /\ room' \in [Rooms -> RoomRow] /\ category' \in [Categories -> Statuses]
           /\ \A r \in Rooms : room'[r].ready # NotReady <=> IsReady(room', category', r)
           /\ HouseInOrder(room', category', ss, bs, xs, ts)
<1> DEFINE left == [r \in Rooms |-> IF rs[r].status = "RETIRING" /\ ~RoomBlocked(r, rs, ss, bs, ts)
                                    THEN [rs[r] EXCEPT !.status = "INACTIVE"] ELSE rs[r]]
           kept == [c \in Categories |-> IF cs[c] = "RETIRING" /\ ~CategoryBlocked(c, left, ss, bs, xs)
                                         THEN "INACTIVE" ELSE cs[c]]
<1>1. Publish(left, kept)
  BY DEF Sweep
<1>2. \A y \in RoomRow : /\ [y EXCEPT !.status = "INACTIVE"] \in RoomRow
                         /\ [y EXCEPT !.status = "INACTIVE"].cat = y.cat
                         /\ [y EXCEPT !.status = "INACTIVE"].clean = y.clean
                         /\ [y EXCEPT !.status = "INACTIVE"].status = "INACTIVE"
  BY DEF RoomRow
<1>3. left \in [Rooms -> RoomRow]
  BY <1>2
<1>4. ASSUME NEW r \in Rooms
      PROVE  /\ left[r].cat = rs[r].cat /\ left[r].clean = rs[r].clean
             /\ \/ left[r].status = rs[r].status
                \/ left[r].status = "INACTIVE" /\ ~RoomBlocked(r, rs, ss, bs, ts)
  BY <1>2
<1>5. ASSUME NEW c \in Categories
      PROVE  kept[c] \in Statuses /\ (kept[c] = cs[c] \/ ~CategoryBlocked(c, left, ss, bs, xs))
  BY DEF Statuses
<1>6. kept \in [Categories -> Statuses]
  BY <1>5
<1> HIDE DEF left, kept
<1>7. /\ \A s \in Stays : ss[s].room \in Rooms /\ ss[s].state \in {"NONE", "ACTIVE", "CLOSED"}
      /\ WorkInDirtyRooms(rs, ts) /\ GuestsInCleanRooms(rs, ss)
      /\ InactiveRoomsEmpty(rs, ss, bs, ts) /\ InactiveCategoriesEmpty(rs, cs, xs)
  BY DEF HouseInOrder, StayRow
<1>8. WorkInDirtyRooms(left, ts)
  BY <1>4, <1>7 DEF WorkInDirtyRooms
<1>9. GuestsInCleanRooms(left, ss)
  BY <1>4, <1>7 DEF GuestsInCleanRooms, RoomBlocked
<1>a. /\ \A b \in Bookings : ~(bs[b].until > hour) => bs[b].until <= hour
      /\ \A x \in Claims : ~(xs[x].until > hour) => xs[x].until <= hour
  <2>1. /\ \A b \in Bookings : bs[b] \in ReservedRow
        /\ \A x \in Claims : xs[x] \in ClaimRow
    OBVIOUS
  <2>2. Later \subseteq Nat
    BY RoomNumbers DEF Later
  <2>3. /\ \A b \in Bookings : bs[b].until \in Nat
        /\ \A x \in Claims : xs[x].until \in Nat
    BY <2>1, <2>2 DEF ReservedRow, ClaimRow
  <2> QED
    BY <2>3, RoomNumbers
<1>10. InactiveRoomsEmpty(left, ss, bs, ts)
  <2> SUFFICES ASSUME NEW r \in Rooms, left[r].status = "INACTIVE"
               PROVE  /\ ts[r] = "NONE"
                      /\ \A b \in Bookings : bs[b].state = "CONFIRMED" /\ bs[b].room = r => bs[b].until <= hour
                      /\ left[r].clean # "CLEAN" => \A s \in Stays : ss[s].room = r => ss[s].state = "NONE"
    BY DEF InactiveRoomsEmpty
  <2>1. CASE left[r].status = rs[r].status
    BY <1>4, <1>7, <2>1 DEF InactiveRoomsEmpty
  <2>2. CASE ~RoomBlocked(r, rs, ss, bs, ts)
    BY <1>4, <1>7, <1>a, <2>2 DEF RoomBlocked
  <2> QED
    BY <1>4, <2>1, <2>2
<1>11. InactiveCategoriesEmpty(left, kept, xs)
  <2> SUFFICES ASSUME NEW c \in Categories, kept[c] = "INACTIVE"
               PROVE  /\ \A r \in Rooms : left[r].cat = c => left[r].status = "INACTIVE"
                      /\ \A x \in Claims :
                            xs[x].state \in {"ACTIVE", "CONFIRMED"} /\ xs[x].cat = c => xs[x].until <= hour
    BY DEF InactiveCategoriesEmpty
  <2>1. CASE kept[c] = cs[c]
    BY <1>4, <1>7, <2>1 DEF InactiveCategoriesEmpty
  <2>2. CASE ~CategoryBlocked(c, left, ss, bs, xs)
    BY <1>a, <2>2 DEF CategoryBlocked
  <2> QED
    BY <1>5, <2>1, <2>2
<1>12. HouseInOrder(left, kept, ss, bs, xs, ts)
  BY <1>8, <1>9, <1>10, <1>11 DEF HouseInOrder
<1>13. /\ room' \in [Rooms -> RoomRow] /\ category' = kept
       /\ \A r \in Rooms : /\ room'[r].cat = left[r].cat /\ room'[r].status = left[r].status
                           /\ room'[r].clean = left[r].clean
                           /\ room'[r].ready # NotReady <=> IsReady(room', category', r)
  BY <1>1, <1>3, <1>6, PublishRows
<1> QED
  BY <1>6, <1>12, <1>13, OrderOfRows

-----------------------------------------------------------------------------
(* Commands about rooms, categories, tasks and claims.                     *)

\* A command that leaves the stays and the reservations as they are has to
\* keep the house in order, and nothing else.
LEMMA HouseStep ==
    ASSUME RoomInv, hour' = hour, stay' = stay, reserved' = reserved,
           started' \in 0 .. MaxStarted, package' \in {20000, 25000},
           room' \in [Rooms -> RoomRow], category' \in [Categories -> Statuses],
           \A r \in Rooms : room'[r].ready # NotReady <=> IsReady(room', category', r),
           claim' \in [Claims -> ClaimRow], task' \in [Rooms -> {"NONE", "WAITING", "OPEN"}],
           HouseInOrder(room', category', stay, reserved, claim', task')
    PROVE  RoomInv'
<1>1. RoomTypeOK'
  BY DEF RoomInv, RoomTypeOK, IsReady, Statuses
<1>2. StaysFit'
  BY DEF RoomInv, StaysFit
<1>3. StaysFollow'
  BY DEF RoomInv, StaysFollow, Follows
<1>4. ReservedApart' /\ NoPendingAtCheckout'
  BY DEF RoomInv, ReservedApart, Overlap, NoPendingAtCheckout
<1>5. HouseInOrder(room, category, stay, reserved, claim, task)'
  BY DEF HouseInOrder, WorkInDirtyRooms, GuestsInCleanRooms, InactiveRoomsEmpty,
         InactiveCategoriesEmpty
<1> QED
  BY <1>1, <1>2, <1>3, <1>4, <1>5 DEF RoomInv

\* What RoomInv says of the parts a command starts from.
LEMMA InvParts ==
    ASSUME RoomInv
    PROVE  /\ hour \in Times /\ started \in 0 .. MaxStarted /\ package \in {20000, 25000}
           /\ room \in [Rooms -> RoomRow] /\ category \in [Categories -> Statuses]
           /\ \A r \in Rooms : room[r].ready # NotReady <=> IsReady(room, category, r)
           /\ stay \in [Stays -> StayRow] /\ claim \in [Claims -> ClaimRow]
           /\ reserved \in [Bookings -> ReservedRow]
           /\ task \in [Rooms -> {"NONE", "WAITING", "OPEN"}]
           /\ StaysFit /\ StaysFollow /\ ReservedApart /\ NoPendingAtCheckout
           /\ HouseInOrder(room, category, stay, reserved, claim, task)
           /\ WorkInDirtyRooms(room, task) /\ GuestsInCleanRooms(room, stay)
           /\ InactiveRoomsEmpty(room, stay, reserved, task)
           /\ InactiveCategoriesEmpty(room, category, claim)
  BY DEF RoomInv, RoomTypeOK, HouseInOrder, Statuses

LEMMA SweepStep ==
    ASSUME RoomInv, NEW rs \in [Rooms -> RoomRow], NEW cs \in [Categories -> Statuses],
           Sweep(rs, cs, stay, reserved, claim', task'),
           hour' = hour, stay' = stay, reserved' = reserved,
           started' \in 0 .. MaxStarted, package' \in {20000, 25000},
           claim' \in [Claims -> ClaimRow], task' \in [Rooms -> {"NONE", "WAITING", "OPEN"}],
           HouseInOrder(rs, cs, stay, reserved, claim', task')
    PROVE  RoomInv'
<1>1. stay \in [Stays -> StayRow] /\ reserved \in [Bookings -> ReservedRow]
  BY InvParts
<1>2. /\ room' \in [Rooms -> RoomRow] /\ category' \in [Categories -> Statuses]
      /\ \A r \in Rooms : room'[r].ready # NotReady <=> IsReady(room', category', r)
      /\ HouseInOrder(room', category', stay, reserved, claim', task')
  BY <1>1, SweepKeeps
<1> QED
  BY <1>2, HouseStep

LEMMA PublishStep ==
    ASSUME RoomInv, NEW rs \in [Rooms -> RoomRow], Publish(rs, category),
           hour' = hour, stay' = stay, reserved' = reserved,
           started' \in 0 .. MaxStarted, package' \in {20000, 25000},
           claim' = claim, task' = task,
           HouseInOrder(rs, category, stay, reserved, claim, task)
    PROVE  RoomInv'
<1>1. /\ category \in [Categories -> Statuses] /\ stay \in [Stays -> StayRow]
      /\ claim \in [Claims -> ClaimRow] /\ task \in [Rooms -> {"NONE", "WAITING", "OPEN"}]
  BY InvParts
<1>2. /\ room' \in [Rooms -> RoomRow] /\ category' = category
      /\ \A r \in Rooms : /\ room'[r].cat = rs[r].cat /\ room'[r].status = rs[r].status
                          /\ room'[r].clean = rs[r].clean
                          /\ room'[r].ready # NotReady <=> IsReady(room', category', r)
  BY <1>1, PublishRows
<1>3. HouseInOrder(room', category, stay, reserved, claim, task)
  BY <1>1, <1>2, OrderOfRows
<1> QED
  BY <1>1, <1>2, <1>3, HouseStep

\* Claims that end, or change in nothing the house depends on, keep it in order.
LEMMA FewerClaims ==
    ASSUME RoomInv,
           NEW xs,
           \A x \in Claims : xs[x].state \in {"ACTIVE", "CONFIRMED"} =>
               /\ claim[x].state \in {"ACTIVE", "CONFIRMED"}
               /\ xs[x].cat = claim[x].cat /\ xs[x].until = claim[x].until
    PROVE  HouseInOrder(room, category, stay, reserved, xs, task)
<1>1. InactiveCategoriesEmpty(room, category, xs)
  BY InvParts DEF InactiveCategoriesEmpty
<1> QED
  BY <1>1, InvParts DEF HouseInOrder

\* A claim's row: gone, confirmed or upgraded.
LEMMA ClaimEdits ==
    /\ GoneClaim \in ClaimRow /\ GoneClaim.state = "GONE"
    /\ \A y \in ClaimRow : /\ [y EXCEPT !.state = "CONFIRMED"] \in ClaimRow
                           /\ [y EXCEPT !.state = "CONFIRMED"].cat = y.cat
                           /\ [y EXCEPT !.state = "CONFIRMED"].from = y.from
                           /\ [y EXCEPT !.state = "CONFIRMED"].until = y.until
                           /\ [y EXCEPT !.state = "CONFIRMED"].state = "CONFIRMED"
    /\ \A y \in ClaimRow, r \in Rooms : /\ [y EXCEPT !.upgrade = {r}] \in ClaimRow
                                        /\ [y EXCEPT !.upgrade = {r}].state = y.state
                                        /\ [y EXCEPT !.upgrade = {r}].cat = y.cat
                                        /\ [y EXCEPT !.upgrade = {r}].from = y.from
                                        /\ [y EXCEPT !.upgrade = {r}].until = y.until
<1>1. AnyCategory \in Categories
  BY RoomStayAssumption DEF AnyCategory
<1>2. 0 \in Later
  BY RoomStayAssumption DEF Later
<1>3. GoneClaim \in ClaimRow /\ GoneClaim.state = "GONE"
  BY <1>1, <1>2 DEF GoneClaim, ClaimRow
<1> QED
  BY <1>3 DEF ClaimRow

LEMMA ClaimGoes ==
    ASSUME RoomInv, claim' \in [Claims -> ClaimRow],
           \A z \in Claims : claim'[z].state \in {"ACTIVE", "CONFIRMED"} =>
               /\ claim[z].state \in {"ACTIVE", "CONFIRMED"}
               /\ claim'[z].cat = claim[z].cat /\ claim'[z].until = claim[z].until,
           Sweep(room, category, stay, reserved, claim', task'),
           hour' = hour, stay' = stay, reserved' = reserved, task' = task, package' = package,
           started' = started
    PROVE  RoomInv'
<1>1. HouseInOrder(room, category, stay, reserved, claim', task')
  <2>1. HouseInOrder(room, category, stay, reserved, claim', task)
    BY FewerClaims
  <2> QED
    BY <2>1
<1>2. /\ room \in [Rooms -> RoomRow] /\ category \in [Categories -> Statuses]
      /\ started' \in 0 .. MaxStarted /\ package' \in {20000, 25000}
      /\ task' \in [Rooms -> {"NONE", "WAITING", "OPEN"}]
  BY InvParts
<1> QED
  BY <1>1, <1>2, SweepStep

LEMMA CaptureKeepsOrder == ASSUME RoomInv, NEW x \in Claims, ApplyCapture(x) PROVE RoomInv'
<1> DEFINE y == IF hour < claim[x].until /\ HonoursHold(x)
                THEN [claim[x] EXCEPT !.state = "CONFIRMED"] ELSE GoneClaim
<1>1. claim[x] \in ClaimRow
  BY InvParts
<1>2. y \in ClaimRow /\ (y.state = "GONE" \/ (y.cat = claim[x].cat /\ y.until = claim[x].until))
  BY <1>1, ClaimEdits
<1>3. claim' = [claim EXCEPT ![x] = y] /\ claim[x].state = "ACTIVE"
  BY DEF ApplyCapture
<1>4. /\ Sweep(room, category, stay, reserved, claim', task) /\ task' = task
      /\ hour' = hour /\ stay' = stay /\ reserved' = reserved /\ package' = package
      /\ started' = started
  BY DEF ApplyCapture
<1> HIDE DEF y
<1>5. claim' \in [Claims -> ClaimRow]
  BY <1>2, <1>3, InvParts
<1>6. \A z \in Claims : claim'[z].state \in {"ACTIVE", "CONFIRMED"} =>
         /\ claim[z].state \in {"ACTIVE", "CONFIRMED"}
         /\ claim'[z].cat = claim[z].cat /\ claim'[z].until = claim[z].until
  BY <1>2, <1>3, InvParts
<1>7. Sweep(room, category, stay, reserved, claim', task')
  BY <1>4
<1> QED
  BY <1>4, <1>5, <1>6, <1>7, ClaimGoes

LEMMA ReleaseKeepsOrder ==
    ASSUME RoomInv, NEW x \in Claims, ReleaseClaim(x) \/ HotelCancels(x)
    PROVE  RoomInv'
<1>1. claim' = [claim EXCEPT ![x] = GoneClaim]
  BY DEF ReleaseClaim, HotelCancels
<1>2. /\ Sweep(room, category, stay, reserved, claim', task) /\ task' = task
      /\ hour' = hour /\ stay' = stay /\ reserved' = reserved /\ package' = package
      /\ started' = started
  BY DEF ReleaseClaim, HotelCancels
<1>3. claim' \in [Claims -> ClaimRow]
  BY <1>1, InvParts, ClaimEdits
<1>4. \A z \in Claims : claim'[z].state \in {"ACTIVE", "CONFIRMED"} =>
         /\ claim[z].state \in {"ACTIVE", "CONFIRMED"}
         /\ claim'[z].cat = claim[z].cat /\ claim'[z].until = claim[z].until
  BY <1>1, InvParts, ClaimEdits
<1>5. Sweep(room, category, stay, reserved, claim', task')
  BY <1>2
<1> QED
  BY <1>2, <1>3, <1>4, <1>5, ClaimGoes

\* A command that touches neither rooms nor stays nor reservations.
LEMMA ClaimStep ==
    ASSUME RoomInv, UNCHANGED <<hour, room, category, stay, reserved, task, package>>,
           started' \in 0 .. MaxStarted, claim' \in [Claims -> ClaimRow],
           HouseInOrder(room, category, stay, reserved, claim', task)
    PROVE  RoomInv'
  BY InvParts, HouseStep DEF IsReady

LEMMA UpgradeKeepsOrder ==
    ASSUME RoomInv, NEW x \in Claims, NEW r \in Rooms, Upgrade(x, r)
    PROVE  RoomInv'
<1>1. /\ claim' = [claim EXCEPT ![x].upgrade = {r}]
      /\ UNCHANGED <<hour, room, category, stay, reserved, task, package>> /\ started' = started
  BY DEF Upgrade
<1>2. claim' = [claim EXCEPT ![x] = [claim[x] EXCEPT !.upgrade = {r}]]
  BY <1>1
<1>3. claim' \in [Claims -> ClaimRow] /\ started' \in 0 .. MaxStarted
  BY <1>1, <1>2, InvParts, ClaimEdits
<1>4. \A z \in Claims : claim'[z].state \in {"ACTIVE", "CONFIRMED"} =>
         /\ claim[z].state \in {"ACTIVE", "CONFIRMED"}
         /\ claim'[z].cat = claim[z].cat /\ claim'[z].until = claim[z].until
  BY <1>2, InvParts, ClaimEdits
<1>5. HouseInOrder(room, category, stay, reserved, claim', task)
  BY <1>4, FewerClaims
<1> QED
  BY <1>1, <1>3, <1>5, ClaimStep

\* An interval a command asks for.
LEMMA IntervalBounds ==
    ASSUME NEW i \in Intervals
    PROVE  /\ i.from \in Times /\ i.until \in Later /\ i.from \in Later
           /\ i.from \in Nat /\ i.until \in Nat /\ i.from < i.until
<1>1. PICK a \in Times, n \in 1 .. MaxNights : i = [from |-> a, until |-> a + n]
  BY DEF Intervals
<1> QED
  BY <1>1, RoomStayAssumption DEF Times, Later

LEMMA HoldKeepsOrder ==
    ASSUME RoomInv, NEW x \in Claims, NEW c \in Categories, NEW i \in Intervals, CreateHold(x, c, i)
    PROVE  RoomInv'
<1> DEFINE y == [state |-> "ACTIVE", cat |-> c, from |-> i.from, until |-> i.until, upgrade |-> {}]
<1>1. /\ claim' = [claim EXCEPT ![x] = y] /\ started' = started + 1 /\ started < MaxStarted
      /\ UNCHANGED <<hour, room, category, stay, reserved, task, package>> /\ category[c] = "ACTIVE"
  BY DEF CreateHold, Begins
<1>2. y \in ClaimRow /\ y.cat = c
  BY IntervalBounds DEF ClaimRow
<1> HIDE DEF y
<1>3. started' \in 0 .. MaxStarted
  BY <1>1, InvParts, RoomNumbers
<1>4. claim' \in [Claims -> ClaimRow]
  BY <1>1, <1>2, InvParts
<1>5. \A z \in Claims : z # x => claim'[z] = claim[z]
  BY <1>1, InvParts
<1>6. claim'[x] = y
  BY <1>1, InvParts
<1>7. InactiveCategoriesEmpty(room, category, claim')
  BY <1>1, <1>2, <1>5, <1>6, InvParts DEF InactiveCategoriesEmpty
<1>8. HouseInOrder(room, category, stay, reserved, claim', task)
  BY <1>7, InvParts DEF HouseInOrder
<1> QED
  BY <1>1, <1>3, <1>4, <1>8, ClaimStep

LEMMA RoomEdits ==
    /\ \A y \in RoomRow, v \in {"DIRTY", "CLEANING", "CLEAN"} :
          /\ [y EXCEPT !.clean = v] \in RoomRow /\ [y EXCEPT !.clean = v].clean = v
          /\ [y EXCEPT !.clean = v].cat = y.cat /\ [y EXCEPT !.clean = v].status = y.status
    /\ \A y \in RoomRow, v \in Statuses :
          /\ [y EXCEPT !.status = v] \in RoomRow /\ [y EXCEPT !.status = v].status = v
          /\ [y EXCEPT !.status = v].cat = y.cat /\ [y EXCEPT !.status = v].clean = y.clean
    /\ \A y \in RoomRow, c \in Categories :
          /\ [y EXCEPT !.cat = c] \in RoomRow /\ [y EXCEPT !.cat = c].cat = c
          /\ [y EXCEPT !.cat = c].status = y.status /\ [y EXCEPT !.cat = c].clean = y.clean
  BY DEF RoomRow, Statuses

\* Work in a room may begin where it is dirty and in use.
LEMMA RequestKeepsOrder ==
    ASSUME RoomInv, NEW r \in Rooms, RequestCleaning(r) \/ ClaimCleaning(r)
    PROVE  RoomInv'
<1>1. /\ task' = [task EXCEPT ![r] = "OPEN"]
      /\ room[r].clean = "DIRTY" /\ room[r].status # "INACTIVE"
      /\ UNCHANGED <<hour, room, category, stay, claim, reserved, package, started>>
  BY DEF RequestCleaning, ClaimCleaning
<1>2. task' \in [Rooms -> {"NONE", "WAITING", "OPEN"}]
  BY <1>1, InvParts
<1>3. task'[r] = "OPEN" /\ \A q \in Rooms : q # r => task'[q] = task[q]
  BY <1>1, InvParts
<1>4. WorkInDirtyRooms(room, task')
  BY <1>1, <1>3, InvParts DEF WorkInDirtyRooms
<1>5. InactiveRoomsEmpty(room, stay, reserved, task')
  BY <1>1, <1>3, InvParts DEF InactiveRoomsEmpty
<1>6. HouseInOrder(room, category, stay, reserved, claim, task')
  BY <1>4, <1>5, InvParts DEF HouseInOrder
<1> QED
  BY <1>1, <1>2, <1>6, InvParts, HouseStep DEF IsReady

LEMMA StartKeepsOrder == ASSUME RoomInv, NEW r \in Rooms, StartCleaning(r) PROVE RoomInv'
<1> DEFINE y == [room[r] EXCEPT !.clean = "CLEANING"]
           rs == [room EXCEPT ![r] = y]
<1>1. /\ task[r] = "OPEN" /\ room[r].status # "INACTIVE" /\ Unoccupied(r) /\ room[r].clean = "DIRTY"
      /\ UNCHANGED <<hour, stay, claim, reserved, task, package, started>>
  BY DEF StartCleaning
<1>2. Publish(rs, category)
  <2>1. Publish([room EXCEPT ![r].clean = "CLEANING"], category)
    BY DEF StartCleaning
  <2> QED
    BY <2>1
<1>a. room[r] \in RoomRow /\ rs = [room EXCEPT ![r] = y]
  BY InvParts
<1>3. y \in RoomRow /\ y.clean = "CLEANING" /\ y.cat = room[r].cat /\ y.status = room[r].status
  BY <1>a, RoomEdits
<1> HIDE DEF y, rs
<1>4. /\ rs \in [Rooms -> RoomRow] /\ rs[r] = y
      /\ \A q \in Rooms : q # r => rs[q] = room[q]
  BY <1>3, <1>a, InvParts
<1>5. \A s \in Stays : stay[s].state = "ACTIVE" => stay[s].room # r
  BY <1>1 DEF Unoccupied, Occupied
<1>6. WorkInDirtyRooms(rs, task)
  BY <1>3, <1>4, InvParts DEF WorkInDirtyRooms
<1>7. GuestsInCleanRooms(rs, stay)
  BY <1>4, <1>5, InvParts, RoomNumbers DEF GuestsInCleanRooms
<1>8. InactiveRoomsEmpty(rs, stay, reserved, task)
  BY <1>1, <1>3, <1>4, InvParts DEF InactiveRoomsEmpty
<1>9. InactiveCategoriesEmpty(rs, category, claim)
  BY <1>3, <1>4, InvParts DEF InactiveCategoriesEmpty
<1>10. HouseInOrder(rs, category, stay, reserved, claim, task)
  BY <1>6, <1>7, <1>8, <1>9 DEF HouseInOrder
<1>11. started' \in 0 .. MaxStarted /\ package' \in {20000, 25000}
  BY <1>1, InvParts
<1> QED
  BY <1>1, <1>2, <1>4, <1>10, <1>11, PublishStep

\* A room that is clean again, with no work left in it, is in order.
LEMMA CleanRoom ==
    ASSUME RoomInv, NEW r \in Rooms, NEW rs, rs = [room EXCEPT ![r].clean = "CLEAN"],
           NEW ts, ts[r] = "NONE", \A q \in Rooms : q # r => ts[q] = task[q]
    PROVE  /\ rs \in [Rooms -> RoomRow]
           /\ HouseInOrder(rs, category, stay, reserved, claim, ts)
<1> DEFINE y == [room[r] EXCEPT !.clean = "CLEAN"]
<1>1. rs = [room EXCEPT ![r] = y] /\ room[r] \in RoomRow
  BY InvParts
<1>2. y \in RoomRow /\ y.clean = "CLEAN" /\ y.cat = room[r].cat /\ y.status = room[r].status
  BY <1>1, RoomEdits
<1> HIDE DEF y
<1>3. /\ rs \in [Rooms -> RoomRow] /\ rs[r] = y
      /\ \A q \in Rooms : q # r => rs[q] = room[q]
  BY <1>1, <1>2, InvParts
<1>4. WorkInDirtyRooms(rs, ts)
  BY <1>3, InvParts DEF WorkInDirtyRooms
<1>5. GuestsInCleanRooms(rs, stay)
  BY <1>2, <1>3, InvParts, RoomNumbers DEF GuestsInCleanRooms
<1>6. InactiveRoomsEmpty(rs, stay, reserved, ts)
  BY <1>2, <1>3, InvParts DEF InactiveRoomsEmpty
<1>7. InactiveCategoriesEmpty(rs, category, claim)
  BY <1>2, <1>3, InvParts DEF InactiveCategoriesEmpty
<1> QED
  BY <1>3, <1>4, <1>5, <1>6, <1>7 DEF HouseInOrder

LEMMA PostKeepsOrder == ASSUME RoomInv, NEW r \in Rooms, PostCleaning(r) PROVE RoomInv'
<1> DEFINE rs == [room EXCEPT ![r].clean = "CLEAN"]
<1>1. /\ task' = [task EXCEPT ![r] = "NONE"]
      /\ Sweep(rs, category, stay, reserved, claim, task')
      /\ UNCHANGED <<hour, stay, claim, reserved, package, started>>
  BY DEF PostCleaning
<1>2. task' \in [Rooms -> {"NONE", "WAITING", "OPEN"}]
  BY <1>1, InvParts
<1>3. task'[r] = "NONE" /\ \A q \in Rooms : q # r => task'[q] = task[q]
  BY <1>1, InvParts
<1>4. rs \in [Rooms -> RoomRow] /\ HouseInOrder(rs, category, stay, reserved, claim, task')
  BY <1>3, CleanRoom
<1> HIDE DEF rs
<1>5. /\ category \in [Categories -> Statuses] /\ claim' \in [Claims -> ClaimRow]
      /\ hour' = hour /\ stay' = stay /\ reserved' = reserved
      /\ started' \in 0 .. MaxStarted /\ package' \in {20000, 25000}
  BY <1>1, InvParts
<1>6. /\ Sweep(rs, category, stay, reserved, claim', task')
      /\ HouseInOrder(rs, category, stay, reserved, claim', task')
  BY <1>1, <1>4
<1> QED
  BY <1>2, <1>4, <1>5, <1>6, SweepStep

LEMMA ManagerKeepsOrder == ASSUME RoomInv, NEW r \in Rooms, ManagerCleans(r) PROVE RoomInv'
<1> DEFINE rs == [room EXCEPT ![r].clean = "CLEAN"]
<1>1. /\ task[r] = "NONE"
      /\ Publish(rs, category) \/ Sweep(rs, category, stay, reserved, claim, task)
      /\ UNCHANGED <<hour, stay, claim, reserved, task, package, started>>
  BY DEF ManagerCleans, MayDeclareClean
<1>2. rs \in [Rooms -> RoomRow] /\ HouseInOrder(rs, category, stay, reserved, claim, task)
  BY <1>1, CleanRoom
<1> HIDE DEF rs
<1>3. /\ category \in [Categories -> Statuses] /\ claim' \in [Claims -> ClaimRow]
      /\ task' \in [Rooms -> {"NONE", "WAITING", "OPEN"}] /\ claim' = claim /\ task' = task
      /\ hour' = hour /\ stay' = stay /\ reserved' = reserved
      /\ started' \in 0 .. MaxStarted /\ package' \in {20000, 25000}
  BY <1>1, InvParts
<1>4. CASE Publish(rs, category)
  BY <1>2, <1>3, <1>4, PublishStep
<1>5. CASE Sweep(rs, category, stay, reserved, claim, task)
  <2>1. /\ Sweep(rs, category, stay, reserved, claim', task')
        /\ HouseInOrder(rs, category, stay, reserved, claim', task')
    BY <1>2, <1>3, <1>5
  <2> QED
    BY <1>2, <1>3, <2>1, SweepStep
<1> QED
  BY <1>1, <1>4, <1>5

\* The lifecycle commands: an edited house that is in order stays so.
LEMMA EditStep ==
    ASSUME RoomInv, NEW rs \in [Rooms -> RoomRow], NEW cs \in [Categories -> Statuses], Edit(rs, cs),
           HouseInOrder(rs, cs, stay, reserved, claim, task)
    PROVE  RoomInv'
<1>1. /\ started < MaxStarted /\ started' = started + 1
      /\ Sweep(rs, cs, stay, reserved, claim, task)
      /\ UNCHANGED <<hour, stay, claim, reserved, task, package>>
  BY DEF Edit, Begins
<1>2. started' \in 0 .. MaxStarted
  BY <1>1, InvParts, RoomNumbers
<1>3. /\ claim' \in [Claims -> ClaimRow] /\ task' \in [Rooms -> {"NONE", "WAITING", "OPEN"}]
      /\ claim' = claim /\ task' = task /\ hour' = hour /\ stay' = stay /\ reserved' = reserved
      /\ package' \in {20000, 25000}
  BY <1>1, InvParts
<1>4. /\ Sweep(rs, cs, stay, reserved, claim', task')
      /\ HouseInOrder(rs, cs, stay, reserved, claim', task')
  BY <1>1, <1>3
<1> QED
  BY <1>2, <1>3, <1>4, SweepStep

\* The end of a promise, compared with the time now.
LEMMA NotAhead ==
    ASSUME RoomInv
    PROVE  /\ \A b \in Bookings : ~(reserved[b].until > hour) => reserved[b].until <= hour
           /\ \A x \in Claims : ~(claim[x].until > hour) => claim[x].until <= hour
  BY RoomNumbers

LEMMA DeactivateRoomKeepsOrder == ASSUME RoomInv, NEW r \in Rooms, DeactivateRoom(r) PROVE RoomInv'
<1> DEFINE v == IF RoomBlocked(r, room, stay, reserved, task) THEN "RETIRING" ELSE "INACTIVE"
           y == [room[r] EXCEPT !.status = v]
           rs == [room EXCEPT ![r].status = v]
<1>1. Edit(rs, category) /\ room[r].status = "ACTIVE"
  BY DEF DeactivateRoom
<1>2. /\ v \in Statuses /\ v \in {"RETIRING", "INACTIVE"}
      /\ v = "INACTIVE" => ~RoomBlocked(r, room, stay, reserved, task)
  BY DEF Statuses
<1> HIDE DEF v
<1>3. room[r] \in RoomRow /\ rs = [room EXCEPT ![r] = y]
  BY InvParts
<1>4. y \in RoomRow /\ y.status = v /\ y.cat = room[r].cat /\ y.clean = room[r].clean
  BY <1>2, <1>3, RoomEdits
<1> HIDE DEF y, rs
<1>5. rs \in [Rooms -> RoomRow] /\ rs[r] = y /\ \A q \in Rooms : q # r => rs[q] = room[q]
  BY <1>3, <1>4, InvParts
<1>6. v = "INACTIVE" =>
         /\ \A s \in Stays : ~(stay[s].state = "ACTIVE" /\ stay[s].room = r)
         /\ task[r] = "NONE"
         /\ room[r].clean # "CLEAN" => \A s \in Stays : ~(stay[s].state = "CLOSED" /\ stay[s].room = r)
         /\ \A b \in Bookings : reserved[b].state = "CONFIRMED" /\ reserved[b].room = r => reserved[b].until <= hour
  BY <1>2, NotAhead DEF RoomBlocked
<1>7. WorkInDirtyRooms(rs, task)
  BY <1>4, <1>5, InvParts DEF WorkInDirtyRooms
<1>8. GuestsInCleanRooms(rs, stay)
  BY <1>2, <1>4, <1>5, <1>6, InvParts, RoomNumbers DEF GuestsInCleanRooms
<1>9. \A s \in Stays : stay[s].state \in {"NONE", "ACTIVE", "CLOSED"}
  BY RoomNumbers DEF StayRow
<1>10. InactiveRoomsEmpty(rs, stay, reserved, task)
  BY <1>4, <1>5, <1>6, <1>9, InvParts DEF InactiveRoomsEmpty
<1>11. InactiveCategoriesEmpty(rs, category, claim)
  BY <1>1, <1>4, <1>5, InvParts DEF InactiveCategoriesEmpty
<1>12. HouseInOrder(rs, category, stay, reserved, claim, task)
  BY <1>7, <1>8, <1>10, <1>11 DEF HouseInOrder
<1>13. category \in [Categories -> Statuses]
  BY InvParts
<1> QED
  BY <1>1, <1>5, <1>12, <1>13, EditStep

LEMMA ReactivateRoomKeepsOrder == ASSUME RoomInv, NEW r \in Rooms, ReactivateRoom(r) PROVE RoomInv'
<1> DEFINE y == [room[r] EXCEPT !.status = "ACTIVE"]
           rs == [room EXCEPT ![r].status = "ACTIVE"]
<1>1. Edit(rs, category) /\ category[room[r].cat] = "ACTIVE"
  BY DEF ReactivateRoom
<1>2. room[r] \in RoomRow /\ rs = [room EXCEPT ![r] = y] /\ "ACTIVE" \in Statuses
  BY InvParts DEF Statuses
<1>3. y \in RoomRow /\ y.status = "ACTIVE" /\ y.cat = room[r].cat /\ y.clean = room[r].clean
  BY <1>2, RoomEdits
<1> HIDE DEF y, rs
<1>4. rs \in [Rooms -> RoomRow] /\ rs[r] = y /\ \A q \in Rooms : q # r => rs[q] = room[q]
  BY <1>2, <1>3, InvParts
<1>5. WorkInDirtyRooms(rs, task)
  BY <1>3, <1>4, InvParts DEF WorkInDirtyRooms
<1>6. GuestsInCleanRooms(rs, stay)
  <2> SUFFICES ASSUME NEW s \in Stays, stay[s].state = "ACTIVE"
               PROVE  rs[stay[s].room].clean = "CLEAN" /\ rs[stay[s].room].status # "INACTIVE"
    BY DEF GuestsInCleanRooms
  <2>1. stay[s].room \in Rooms
    BY RoomNumbers
  <2>2. room[stay[s].room].clean = "CLEAN" /\ room[stay[s].room].status # "INACTIVE"
    BY InvParts DEF GuestsInCleanRooms
  <2>3. CASE stay[s].room = r
    BY <1>3, <1>4, <2>2, <2>3
  <2>4. CASE stay[s].room # r
    BY <1>4, <2>1, <2>2, <2>4
  <2> QED
    BY <2>3, <2>4
<1>7. InactiveRoomsEmpty(rs, stay, reserved, task)
  BY <1>3, <1>4, InvParts DEF InactiveRoomsEmpty
<1>8. InactiveCategoriesEmpty(rs, category, claim)
  BY <1>1, <1>3, <1>4, InvParts DEF InactiveCategoriesEmpty
<1>9. HouseInOrder(rs, category, stay, reserved, claim, task)
  BY <1>5, <1>6, <1>7, <1>8 DEF HouseInOrder
<1>10. category \in [Categories -> Statuses]
  BY InvParts
<1> QED
  BY <1>1, <1>4, <1>9, <1>10, EditStep

LEMMA ReassignKeepsOrder ==
    ASSUME RoomInv, NEW r \in Rooms, NEW c \in Categories, ReassignCategory(r, c)
    PROVE  RoomInv'
<1> DEFINE y == [room[r] EXCEPT !.cat = c]
           rs == [room EXCEPT ![r].cat = c]
<1>1. Edit(rs, category) /\ category[c] = "ACTIVE"
  BY DEF ReassignCategory
<1>2. room[r] \in RoomRow /\ rs = [room EXCEPT ![r] = y]
  BY InvParts
<1>3. y \in RoomRow /\ y.cat = c /\ y.status = room[r].status /\ y.clean = room[r].clean
  BY <1>2, RoomEdits
<1> HIDE DEF y, rs
<1>4. rs \in [Rooms -> RoomRow] /\ rs[r] = y /\ \A q \in Rooms : q # r => rs[q] = room[q]
  BY <1>2, <1>3, InvParts
<1>5. WorkInDirtyRooms(rs, task)
  BY <1>3, <1>4, InvParts DEF WorkInDirtyRooms
<1>6. GuestsInCleanRooms(rs, stay)
  BY <1>3, <1>4, InvParts, RoomNumbers DEF GuestsInCleanRooms
<1>7. InactiveRoomsEmpty(rs, stay, reserved, task)
  BY <1>3, <1>4, InvParts DEF InactiveRoomsEmpty
<1>8. InactiveCategoriesEmpty(rs, category, claim)
  BY <1>1, <1>3, <1>4, InvParts DEF InactiveCategoriesEmpty
<1>9. HouseInOrder(rs, category, stay, reserved, claim, task)
  BY <1>5, <1>6, <1>7, <1>8 DEF HouseInOrder
<1>10. category \in [Categories -> Statuses]
  BY InvParts
<1> QED
  BY <1>1, <1>4, <1>9, <1>10, EditStep

LEMMA CategoryKeepsOrder ==
    ASSUME RoomInv, NEW c \in Categories, DeactivateCategory(c) \/ ReactivateCategory(c)
    PROVE  RoomInv'
<1> DEFINE w == IF CategoryBlocked(c, room, stay, reserved, claim) THEN "RETIRING" ELSE "INACTIVE"
<1>1. PICK v \in {"ACTIVE", w} : Edit(room, [category EXCEPT ![c] = v])
  BY DEF DeactivateCategory, ReactivateCategory
<1>2. v \in Statuses /\ (v = "INACTIVE" => ~CategoryBlocked(c, room, stay, reserved, claim))
  BY DEF Statuses
<1> DEFINE cs == [category EXCEPT ![c] = v]
<1>3. Edit(room, cs)
  BY <1>1
<1>4. cs \in [Categories -> Statuses] /\ cs[c] = v /\ \A d \in Categories : d # c => cs[d] = category[d]
  BY <1>2, InvParts
<1> HIDE DEF cs, w
<1>5. v = "INACTIVE" =>
         /\ \A r \in Rooms : room[r].cat = c => room[r].status = "INACTIVE"
         /\ \A x \in Claims :
               claim[x].state \in {"ACTIVE", "CONFIRMED"} /\ claim[x].cat = c => claim[x].until <= hour
  BY <1>2, NotAhead DEF CategoryBlocked
<1>6. InactiveCategoriesEmpty(room, cs, claim)
  BY <1>4, <1>5, InvParts DEF InactiveCategoriesEmpty
<1>7. HouseInOrder(room, cs, stay, reserved, claim, task)
  BY <1>6, InvParts DEF HouseInOrder
<1>8. room \in [Rooms -> RoomRow]
  BY InvParts
<1> QED
  BY <1>3, <1>4, <1>7, <1>8, EditStep

LEMMA PackageKeepsOrder == ASSUME RoomInv, PackageGrows PROVE RoomInv'
<1>1. /\ started < MaxStarted /\ started' = started + 1 /\ package' = 25000
      /\ hour' = hour /\ room' = room /\ category' = category /\ stay' = stay /\ claim' = claim
      /\ reserved' = reserved /\ task' = task
  BY DEF PackageGrows, Begins
<1>2. started' \in 0 .. MaxStarted /\ package' \in {20000, 25000}
  BY <1>1, InvParts, RoomNumbers
<1>3. HouseInOrder(room', category', stay, reserved, claim', task')
  BY <1>1, InvParts
<1> QED
  BY <1>1, <1>2, <1>3, InvParts, HouseStep DEF IsReady

-----------------------------------------------------------------------------
(* Commands about stays and reservations.                                  *)

LEMMA TypeStep ==
    ASSUME hour' \in Times, started' \in 0 .. MaxStarted, package' \in {20000, 25000},
           room' \in [Rooms -> RoomRow], category' \in [Categories -> Statuses],
           \A r \in Rooms : room'[r].ready # NotReady <=> IsReady(room', category', r),
           stay' \in [Stays -> StayRow], claim' \in [Claims -> ClaimRow],
           reserved' \in [Bookings -> ReservedRow], task' \in [Rooms -> {"NONE", "WAITING", "OPEN"}]
    PROVE  RoomTypeOK'
  BY DEF RoomTypeOK, IsReady, Statuses

LEMMA InvStep ==
    ASSUME RoomTypeOK', StaysFit', StaysFollow', ReservedApart', NoPendingAtCheckout', hour' = hour,
           HouseInOrder(room', category', stay', reserved', claim', task')
    PROVE  RoomInv'
<1>1. HouseInOrder(room, category, stay, reserved, claim, task)'
  BY DEF HouseInOrder, WorkInDirtyRooms, GuestsInCleanRooms, InactiveRoomsEmpty,
         InactiveCategoriesEmpty
<1> QED
  BY <1>1 DEF RoomInv

\* Nobody lives in a room where a stay follows another that has left.
LEMMA OneGuest ==
    ASSUME RoomInv, NEW s \in Stays, NEW t \in Stays, s # t, stay[s].state = "ACTIVE",
           stay[t].state # "NONE", stay[t].room = stay[s].room
    PROVE  stay[t].state = "CLOSED" /\ stay[t].until + Buffer <= stay[s].from
<1>1. Follows(s, t) \/ Follows(t, s)
  BY InvParts DEF StaysFollow
<1> QED
  BY <1>1 DEF Follows

LEMMA ReserveKeepsOrder ==
    ASSUME RoomInv, NEW b \in Bookings, NEW r \in Rooms, NEW i \in Intervals, ReserveRoom(b, r, i)
    PROVE  RoomInv'
<1> DEFINE y == [state |-> "CONFIRMED", room |-> r, from |-> i.from, until |-> i.until]
<1>1. /\ reserved' = [reserved EXCEPT ![b] = y] /\ started < MaxStarted /\ started' = started + 1
      /\ Eligible(r) /\ ~Occupied(r)
      /\ hour' = hour /\ room' = room /\ category' = category /\ stay' = stay /\ claim' = claim
      /\ task' = task /\ package' = package
  BY DEF ReserveRoom, Begins, Available
<1>2. y \in ReservedRow /\ y.room = r
  BY IntervalBounds DEF ReservedRow
<1> HIDE DEF y
<1>3. /\ reserved' \in [Bookings -> ReservedRow] /\ reserved'[b] = y
      /\ \A a \in Bookings : a # b => reserved'[a] = reserved[a]
  BY <1>1, <1>2, InvParts
<1>4. started' \in 0 .. MaxStarted
  BY <1>1, InvParts, RoomNumbers
<1>5. RoomTypeOK'
  BY <1>1, <1>3, <1>4, InvParts DEF RoomTypeOK, IsReady, Statuses
<1>6. StaysFit' /\ StaysFollow' /\ NoPendingAtCheckout'
  BY <1>1, InvParts DEF StaysFit, StaysFollow, Follows, NoPendingAtCheckout
<1>7. ReservedApart'
  <2> SUFFICES ASSUME NEW s \in Stays, NEW a \in Bookings, stay'[s].state = "ACTIVE",
                      reserved'[a].state = "CONFIRMED", stay'[s].room = reserved'[a].room
               PROVE  ~Overlap(stay'[s], reserved'[a])
    BY DEF ReservedApart, Overlap
  <2>1. CASE a = b
    BY <1>1, <1>2, <1>3, <2>1 DEF Occupied
  <2>2. CASE a # b
    BY <1>1, <1>3, <2>2, InvParts DEF ReservedApart
  <2> QED
    BY <2>1, <2>2
<1>8. InactiveRoomsEmpty(room, stay, reserved', task)
  BY <1>1, <1>2, <1>3, InvParts DEF InactiveRoomsEmpty, Eligible
<1>9. HouseInOrder(room', category', stay', reserved', claim', task')
  BY <1>1, <1>8, InvParts DEF HouseInOrder
<1> QED
  BY <1>1, <1>5, <1>6, <1>7, <1>9, InvStep

\* A stay begins: after everybody who was in the room, and away from its reservations.
LEMMA EnterKeeps ==
    ASSUME RoomInv, NEW s \in Stays, NEW r \in Rooms, NEW actual \in Times, NEW until \in Later,
           NEW arrival \in Later, NEW own, NEW holds, Enter(s, r, actual, until, arrival, own, holds),
           until > hour, hour' = hour, NEW bs \in [Bookings -> ReservedRow],
           \A b \in Bookings : bs[b].state = "CONFIRMED" => b \notin own /\ bs[b] = reserved[b],
           reserved' = bs
    PROVE  /\ stay' \in [Stays -> StayRow] /\ StaysFit' /\ StaysFollow' /\ ReservedApart'
           /\ NoPendingAtCheckout'
           /\ GuestsInCleanRooms(room, stay') /\ InactiveRoomsEmpty(room, stay', bs, task)
<1> DEFINE y == [state |-> "ACTIVE", room |-> r, from |-> actual, until |-> until, recorded |-> hour,
                 ready |-> room[r].ready, arrival |-> arrival, asked |-> {}, leaving |-> FALSE]
           i == [from |-> actual, until |-> until]
<1>1. /\ stay[s].state = "NONE" /\ room[r].status = "ACTIVE" /\ room[r].clean = "CLEAN"
      /\ actual <= hour /\ room[r].ready <= actual
      /\ stay' = [stay EXCEPT ![s] = y]
  BY DEF Enter, Eligible, InBackdate, WasReady
<1>2. Available(r, i, own, holds)
  BY DEF Enter
<1>3. /\ ~Occupied(r)
      /\ \A t \in Stays : stay[t].state = "CLOSED" /\ stay[t].room = r => ~Overlap(i, StayInterval(t))
      /\ \A b \in Reservations(r, own) : ~Overlap(i, b)
  BY <1>2 DEF Available
<1>4. /\ i.from = actual /\ i.until = until
      /\ y.from = actual /\ y.until = until /\ y.room = r /\ y.state = "ACTIVE" /\ y.recorded = hour
      /\ y.ready = room[r].ready /\ y.asked = {}
  OBVIOUS
<1>5. hour \in Nat /\ actual \in Nat /\ until \in Nat /\ Buffer \in Nat /\ room[r].ready \in Nat
  <2>1. room[r].ready \in 0 .. NotReady
    BY RoomNumbers DEF RoomRow
  <2> QED
    BY <2>1, RoomNumbers, RoomStayAssumption DEF Times, Later
<1>6. y \in StayRow
  <2>1. room[r].ready \in Times /\ hour \in Times
    BY <1>1, <1>5, InvParts, RoomNumbers DEF Times
  <2> QED
    BY <2>1 DEF StayRow
<1> HIDE DEF y, i
<1>7. /\ stay' \in [Stays -> StayRow] /\ stay'[s] = y
      /\ \A t \in Stays : t # s => stay'[t] = stay[t]
  BY <1>1, <1>6, InvParts
<1>8. StaysFit'
  BY <1>1, <1>4, <1>5, <1>7, InvParts DEF StaysFit
<1>9. ASSUME NEW t \in Stays, t # s, stay[t].state # "NONE", stay[t].room = r
      PROVE  stay[t].state = "CLOSED" /\ stay[t].until + Buffer <= actual
  <2>1. stay[t].state = "CLOSED"
    BY <1>3, <1>9, RoomNumbers DEF Occupied, StayRow
  <2>2. stay[t].from <= stay[t].until /\ stay[t].until <= hour
    BY <2>1, InvParts DEF StaysFit
  <2>3. ~Overlap(i, StayInterval(t))
    BY <1>3, <1>9, <2>1
  <2>4. StayInterval(t).from = stay[t].from /\ StayInterval(t).until = stay[t].until
    BY <2>1 DEF StayInterval
  <2>5. ~(actual < stay[t].until + Buffer /\ stay[t].from < until + Buffer)
    BY <1>4, <2>3, <2>4 DEF Overlap
  <2> QED
    BY <1>5, <2>1, <2>2, <2>5, RoomNumbers
<1>10. StaysFollow'
  <2> SUFFICES ASSUME NEW t \in Stays, NEW u \in Stays, t # u, stay'[t].state # "NONE",
                      stay'[u].state # "NONE", stay'[t].room = stay'[u].room
               PROVE  \/ stay'[u].state = "CLOSED" /\ stay'[u].until + Buffer <= stay'[t].from
                      \/ stay'[t].state = "CLOSED" /\ stay'[t].until + Buffer <= stay'[u].from
    BY DEF StaysFollow, Follows
  <2>1. CASE t = s
    BY <1>4, <1>7, <1>9, <2>1
  <2>2. CASE u = s
    BY <1>4, <1>7, <1>9, <2>2
  <2>3. CASE t # s /\ u # s
    BY <1>7, <2>3, InvParts DEF StaysFollow, Follows
  <2> QED
    BY <2>1, <2>2, <2>3
<1>11. ReservedApart'
  <2> SUFFICES ASSUME NEW t \in Stays, NEW b \in Bookings, stay'[t].state = "ACTIVE",
                      bs[b].state = "CONFIRMED", stay'[t].room = bs[b].room
               PROVE  ~Overlap(stay'[t], bs[b])
    BY DEF ReservedApart, Overlap
  <2>1. b \notin own /\ bs[b] = reserved[b]
    OBVIOUS
  <2>2. CASE t = s
    <3>1. reserved[b] \in Reservations(r, own)
      BY <1>4, <1>7, <2>1, <2>2 DEF Reservations
    <3>2. ~Overlap(i, reserved[b])
      BY <1>3, <3>1
    <3> QED
      BY <1>4, <1>7, <2>1, <2>2, <3>2 DEF Overlap
  <2>3. CASE t # s
    BY <1>7, <2>1, <2>3, InvParts DEF ReservedApart
  <2> QED
    BY <2>2, <2>3
<1>12. NoPendingAtCheckout'
  BY <1>4, <1>7, InvParts DEF NoPendingAtCheckout
<1>13. GuestsInCleanRooms(room, stay')
  BY <1>1, <1>4, <1>7, InvParts DEF GuestsInCleanRooms
<1>14. InactiveRoomsEmpty(room, stay', bs, task)
  BY <1>1, <1>4, <1>7, InvParts DEF InactiveRoomsEmpty
<1> QED
  BY <1>7, <1>8, <1>10, <1>11, <1>12, <1>13, <1>14

LEMMA WalkInKeepsOrder ==
    ASSUME RoomInv, NEW s \in Stays, NEW r \in Rooms, NEW a \in Times, NEW n \in 1 .. MaxNights,
           WalkIn(s, r, a, n)
    PROVE  RoomInv'
<1>1. /\ started < MaxStarted /\ started' = started + 1 /\ a + n > hour
      /\ Enter(s, r, a, a + n, 0, {}, {})
      /\ hour' = hour /\ room' = room /\ category' = category /\ claim' = claim
      /\ reserved' = reserved /\ task' = task /\ package' = package
  BY DEF WalkIn, Begins
<1>2. a + n \in Later /\ 0 \in Later
  BY RoomNumbers DEF Times, Later
<1>3. \A b \in Bookings : reserved[b].state = "CONFIRMED" => b \notin {} /\ reserved[b] = reserved[b]
  OBVIOUS
<1>4. reserved \in [Bookings -> ReservedRow]
  BY InvParts
<1>5. /\ stay' \in [Stays -> StayRow] /\ StaysFit' /\ StaysFollow' /\ ReservedApart'
      /\ NoPendingAtCheckout'
      /\ GuestsInCleanRooms(room, stay') /\ InactiveRoomsEmpty(room, stay', reserved, task)
  <2> DEFINE until == a + n
  <2>1. until \in Later /\ until > hour /\ Enter(s, r, a, until, 0, {}, {})
    BY <1>1, <1>2
  <2> HIDE DEF until
  <2> QED
    BY <1>1, <1>2, <1>3, <1>4, <2>1, EnterKeeps
<1>6. started' \in 0 .. MaxStarted
  BY <1>1, InvParts, RoomNumbers
<1>7. RoomTypeOK'
  BY <1>1, <1>5, <1>6, InvParts DEF RoomTypeOK, IsReady, Statuses
<1>8. HouseInOrder(room', category', stay', reserved', claim', task')
  BY <1>1, <1>5, InvParts DEF HouseInOrder
<1> QED
  BY <1>1, <1>5, <1>7, <1>8, InvStep

LEMMA BookingArrivalKeepsOrder ==
    ASSUME RoomInv, NEW s \in Stays, NEW b \in Bookings, NEW a \in Times, CheckInBooking(s, b, a)
    PROVE  RoomInv'
<1> DEFINE y == [reserved[b] EXCEPT !.state = "CONSUMED", !.from = 0, !.until = 0]
           bs == [reserved EXCEPT ![b] = y]
<1>1. /\ hour < reserved[b].until
      /\ Enter(s, reserved[b].room, a, reserved[b].until, reserved[b].from, {b}, {})
      /\ reserved' = bs
      /\ hour' = hour /\ room' = room /\ category' = category /\ claim' = claim
      /\ task' = task /\ package' = package /\ started' = started
  BY DEF CheckInBooking
<1>2. reserved[b] \in ReservedRow /\ 0 \in Later
  BY RoomNumbers DEF Later
<1>3. y \in ReservedRow /\ y.state = "CONSUMED"
  BY <1>2 DEF ReservedRow
<1>4. bs \in [Bookings -> ReservedRow] /\ bs[b] = y /\ \A c \in Bookings : c # b => bs[c] = reserved[c]
  BY <1>3, InvParts
<1> HIDE DEF y, bs
<1>5. \A c \in Bookings : bs[c].state = "CONFIRMED" => c \notin {b} /\ bs[c] = reserved[c]
  BY <1>3, <1>4
<1>6. reserved[b].until > hour
  BY <1>1, RoomNumbers
<1>7. /\ stay' \in [Stays -> StayRow] /\ StaysFit' /\ StaysFollow' /\ ReservedApart'
      /\ NoPendingAtCheckout'
      /\ GuestsInCleanRooms(room, stay') /\ InactiveRoomsEmpty(room, stay', bs, task)
  <2> DEFINE r == reserved[b].room
             until == reserved[b].until
             arrival == reserved[b].from
  <2>1. /\ r \in Rooms /\ until \in Later /\ arrival \in Later /\ until > hour
        /\ Enter(s, r, a, until, arrival, {b}, {})
    BY <1>1, <1>2, <1>6 DEF ReservedRow
  <2> HIDE DEF r, until, arrival
  <2> QED
    BY <1>1, <1>4, <1>5, <2>1, EnterKeeps
<1>8. RoomTypeOK'
  BY <1>1, <1>4, <1>7, InvParts DEF RoomTypeOK, IsReady, Statuses
<1>9. HouseInOrder(room', category', stay', reserved', claim', task')
  BY <1>1, <1>7, InvParts DEF HouseInOrder
<1> QED
  BY <1>1, <1>7, <1>8, <1>9, InvStep

LEMMA ClaimArrivalKeepsOrder ==
    ASSUME RoomInv, NEW s \in Stays, NEW x \in Claims, NEW r \in Rooms, NEW a \in Times,
           CheckInClaim(s, x, r, a)
    PROVE  RoomInv'
<1>1. /\ hour < claim[x].until
      /\ Enter(s, r, a, claim[x].until, claim[x].from, {}, {x})
      /\ claim' = [claim EXCEPT ![x] = GoneClaim]
      /\ Sweep(room, category, stay', reserved, claim', task)
      /\ hour' = hour /\ reserved' = reserved /\ task' = task /\ package' = package /\ started' = started
  BY DEF CheckInClaim
<1>2. claim[x] \in ClaimRow /\ reserved \in [Bookings -> ReservedRow]
  BY InvParts
<1>3. \A b \in Bookings : reserved[b].state = "CONFIRMED" => b \notin {} /\ reserved[b] = reserved[b]
  OBVIOUS
<1>4. /\ stay' \in [Stays -> StayRow] /\ StaysFit' /\ StaysFollow' /\ ReservedApart'
      /\ NoPendingAtCheckout'
      /\ GuestsInCleanRooms(room, stay') /\ InactiveRoomsEmpty(room, stay', reserved, task)
  <2> DEFINE until == claim[x].until
             arrival == claim[x].from
  <2>1. /\ until \in Later /\ arrival \in Later /\ until > hour
        /\ Enter(s, r, a, until, arrival, {}, {x})
    BY <1>1, <1>2, RoomNumbers DEF ClaimRow
  <2> HIDE DEF until, arrival
  <2> QED
    BY <1>1, <1>2, <1>3, <2>1, EnterKeeps
<1>5. claim' \in [Claims -> ClaimRow]
  BY <1>1, InvParts, ClaimEdits
<1>6. HouseInOrder(room, category, stay', reserved, claim', task)
  <2>1. InactiveCategoriesEmpty(room, category, claim')
    BY <1>1, InvParts, ClaimEdits DEF InactiveCategoriesEmpty
  <2> QED
    BY <1>4, <2>1, InvParts DEF HouseInOrder
<1>7. /\ room' \in [Rooms -> RoomRow] /\ category' \in [Categories -> Statuses]
      /\ \A q \in Rooms : room'[q].ready # NotReady <=> IsReady(room', category', q)
      /\ HouseInOrder(room', category', stay', reserved, claim', task)
  <2> DEFINE ss == stay'
             xs == claim'
  <2>1. /\ room \in [Rooms -> RoomRow] /\ category \in [Categories -> Statuses]
        /\ reserved \in [Bookings -> ReservedRow]
    BY InvParts
  <2>2. /\ ss \in [Stays -> StayRow] /\ xs \in [Claims -> ClaimRow]
        /\ HouseInOrder(room, category, ss, reserved, xs, task)
        /\ Sweep(room, category, ss, reserved, xs, task)
    BY <1>1, <1>4, <1>5, <1>6
  <2>3. /\ room' \in [Rooms -> RoomRow] /\ category' \in [Categories -> Statuses]
        /\ \A q \in Rooms : room'[q].ready # NotReady <=> IsReady(room', category', q)
        /\ HouseInOrder(room', category', ss, reserved, xs, task)
    <3> HIDE DEF ss, xs
    <3> QED
      BY <2>1, <2>2, SweepKeeps
  <2> QED
    BY <2>3
<1>8. RoomTypeOK'
  <2>1. /\ hour' \in Times /\ started' \in 0 .. MaxStarted /\ package' \in {20000, 25000}
        /\ reserved' \in [Bookings -> ReservedRow]
        /\ task' \in [Rooms -> {"NONE", "WAITING", "OPEN"}]
    BY <1>1, InvParts
  <2> QED
    BY <1>4, <1>5, <1>7, <2>1, TypeStep
<1>9. HouseInOrder(room', category', stay', reserved', claim', task')
  BY <1>1, <1>7
<1> QED
  BY <1>1, <1>4, <1>8, <1>9, InvStep

\* A stay of which nothing but an amendment or the intent to leave changes.
LEMMA SameStays ==
    ASSUME RoomInv, NEW s \in Stays, stay' \in [Stays -> StayRow],
           stay[s].state = "ACTIVE",
           \A t \in Stays : t # s => stay'[t] = stay[t],
           /\ stay'[s].state = stay[s].state /\ stay'[s].room = stay[s].room
           /\ stay'[s].until = stay[s].until /\ stay'[s].recorded = stay[s].recorded
           /\ stay'[s].ready = stay[s].ready,
           stay'[s].leaving => stay'[s].asked = {},
           \/ stay'[s].from = stay[s].from
           \/ ValidAmendment(s, stay'[s].from),
           hour' = hour, room' = room, category' = category, claim' = claim, reserved' = reserved,
           task' = task, package' = package, started' \in 0 .. MaxStarted
    PROVE  RoomInv'
<1> DEFINE a == stay'[s].from
           i == [from |-> a, until |-> stay[s].until]
           r == stay[s].room
<1>1. RoomTypeOK'
  BY InvParts DEF RoomTypeOK, IsReady, Statuses
<1>2. /\ stay[s].ready <= stay[s].from /\ stay[s].from <= stay[s].recorded
      /\ stay[s].recorded <= hour /\ stay[s].recorded < stay[s].until
  BY InvParts DEF StaysFit
<1>3. a \in Nat /\ i.from = a /\ i.until = stay[s].until /\ r \in Rooms
  <2>1. stay'[s] \in StayRow /\ Times \subseteq Nat
    BY DEF Times
  <2> QED
    BY <2>1, RoomNumbers DEF StayRow
<1>4. ValidAmendment(s, a) =>
         /\ stay[s].ready <= a /\ a <= stay[s].recorded
         /\ \A t \in Stays \ {s} : stay[t].room = r /\ stay[t].state = "CLOSED" => ~Overlap(i, StayInterval(t))
         /\ \A b \in Reservations(r, {}) : ~Overlap(i, b)
  BY DEF ValidAmendment, InBackdate
<1>5. a = stay[s].from \/ ValidAmendment(s, a)
  OBVIOUS
<1> HIDE DEF a, i, r
<1>6. stay[s].ready <= a /\ a <= stay[s].recorded
  BY <1>2, <1>4, <1>5
<1>7. StaysFit'
  BY <1>2, <1>6, InvParts DEF StaysFit, a
<1>8. ASSUME NEW t \in Stays, t # s, stay[t].state # "NONE", stay[t].room = r
      PROVE  stay[t].state = "CLOSED" /\ stay[t].until + Buffer <= a
  <2>1. stay[t].state = "CLOSED" /\ stay[t].until + Buffer <= stay[s].from
    BY <1>8, OneGuest DEF r
  <2>2. stay[t].from <= stay[t].until
    BY <2>1, InvParts DEF StaysFit
  <2>3. CASE ValidAmendment(s, a)
    <3>1. ~Overlap(i, StayInterval(t))
      BY <1>4, <1>8, <2>1, <2>3
    <3>2. StayInterval(t).from = stay[t].from /\ StayInterval(t).until = stay[t].until
      BY <2>1 DEF StayInterval
    <3>3. ~(a < stay[t].until + Buffer /\ stay[t].from < stay[s].until + Buffer)
      BY <1>3, <3>1, <3>2 DEF Overlap
    <3> QED
      BY <1>2, <1>3, <2>1, <2>2, <3>3, RoomNumbers
  <2> QED
    BY <1>5, <2>1, <2>3
<1>9. StaysFollow'
  <2> SUFFICES ASSUME NEW t \in Stays, NEW u \in Stays, t # u, stay'[t].state # "NONE",
                      stay'[u].state # "NONE", stay'[t].room = stay'[u].room
               PROVE  \/ stay'[u].state = "CLOSED" /\ stay'[u].until + Buffer <= stay'[t].from
                      \/ stay'[t].state = "CLOSED" /\ stay'[t].until + Buffer <= stay'[u].from
    BY DEF StaysFollow, Follows
  <2>1. CASE t = s
    BY <1>8, <2>1 DEF a, r
  <2>2. CASE u = s
    BY <1>8, <2>2 DEF a, r
  <2>3. CASE t # s /\ u # s
    BY <2>3, InvParts DEF StaysFollow, Follows
  <2> QED
    BY <2>1, <2>2, <2>3
<1>10. ReservedApart'
  <2> SUFFICES ASSUME NEW t \in Stays, NEW b \in Bookings, stay'[t].state = "ACTIVE",
                      reserved[b].state = "CONFIRMED", stay'[t].room = reserved[b].room
               PROVE  ~Overlap(stay'[t], reserved[b])
    BY DEF ReservedApart, Overlap
  <2>1. CASE t = s /\ a = stay[s].from
    <3>1. ~Overlap(stay[s], reserved[b])
      BY <2>1, InvParts DEF ReservedApart
    <3> QED
      BY <2>1, <3>1 DEF Overlap, a
  <2>2. CASE t = s /\ ValidAmendment(s, a)
    <3>1. reserved[b] \in Reservations(r, {})
      BY <2>2 DEF Reservations, r
    <3>2. ~Overlap(i, reserved[b])
      BY <1>4, <2>2, <3>1
    <3> QED
      BY <1>3, <2>2, <3>2 DEF Overlap, a
  <2>3. CASE t # s
    BY <2>3, InvParts DEF ReservedApart
  <2> QED
    BY <1>5, <2>1, <2>2, <2>3
<1>11. NoPendingAtCheckout'
  BY InvParts DEF NoPendingAtCheckout
<1>12. GuestsInCleanRooms(room, stay')
  BY InvParts DEF GuestsInCleanRooms
<1>13. InactiveRoomsEmpty(room, stay', reserved, task)
  BY InvParts DEF InactiveRoomsEmpty
<1>14. HouseInOrder(room', category', stay', reserved', claim', task')
  BY <1>12, <1>13, InvParts DEF HouseInOrder
<1> QED
  BY <1>1, <1>7, <1>9, <1>10, <1>11, <1>14, InvStep

LEMMA RequestAmendmentKeepsOrder ==
    ASSUME RoomInv, NEW s \in Stays, NEW n \in Times, RequestAmendment(s, n)
    PROVE  RoomInv'
<1> DEFINE y == [stay[s] EXCEPT !.asked = {n}]
<1>1. /\ started < MaxStarted /\ started' = started + 1 /\ stay[s].state = "ACTIVE" /\ ~stay[s].leaving
      /\ stay' = [stay EXCEPT ![s] = y]
      /\ hour' = hour /\ room' = room /\ category' = category /\ claim' = claim
      /\ reserved' = reserved /\ task' = task /\ package' = package
  BY DEF RequestAmendment, Begins, Amendable
<1>2. stay[s] \in StayRow
  BY InvParts
<1>3. /\ y \in StayRow /\ y.leaving = stay[s].leaving /\ y.from = stay[s].from
      /\ y.state = stay[s].state /\ y.room = stay[s].room
      /\ y.until = stay[s].until /\ y.recorded = stay[s].recorded /\ y.ready = stay[s].ready
  BY <1>2 DEF StayRow
<1> HIDE DEF y
<1>4. /\ stay' \in [Stays -> StayRow] /\ stay'[s] = y /\ \A t \in Stays : t # s => stay'[t] = stay[t]
  BY <1>1, <1>3, InvParts
<1>5. started' \in 0 .. MaxStarted
  BY <1>1, InvParts, RoomNumbers
<1>6. /\ stay'[s].state = stay[s].state /\ stay'[s].room = stay[s].room
      /\ stay'[s].until = stay[s].until /\ stay'[s].recorded = stay[s].recorded
      /\ stay'[s].ready = stay[s].ready /\ stay'[s].from = stay[s].from
      /\ stay'[s].leaving => stay'[s].asked = {}
  BY <1>1, <1>3, <1>4
<1> QED
  BY <1>1, <1>4, <1>5, <1>6, SameStays

LEMMA DecideKeepsOrder ==
    ASSUME RoomInv, NEW s \in Stays, NEW approve \in BOOLEAN, DecideAmendment(s, approve)
    PROVE  RoomInv'
<1>1. PICK n \in stay[s].asked :
         /\ approve => ValidAmendment(s, n)
         /\ stay' = [stay EXCEPT ![s] = [stay[s] EXCEPT !.asked = {}, !.from = IF approve THEN n ELSE stay[s].from]]
  BY DEF DecideAmendment
<1> DEFINE v == IF approve THEN n ELSE stay[s].from
           y == [stay[s] EXCEPT !.asked = {}, !.from = v]
<1>2. /\ stay[s].state = "ACTIVE" /\ ~stay[s].leaving
      /\ hour' = hour /\ room' = room /\ category' = category /\ claim' = claim
      /\ reserved' = reserved /\ task' = task /\ package' = package /\ started' = started
  BY DEF DecideAmendment, Amendable
<1>3. stay[s] \in StayRow
  BY InvParts
<1>4. v \in Times /\ (v = stay[s].from \/ ValidAmendment(s, v))
  <2>1. n \in Times /\ stay[s].from \in Times
    BY <1>3 DEF StayRow
  <2> QED
    BY <1>1, <2>1
<1>5. stay' = [stay EXCEPT ![s] = y]
  BY <1>1
<1> HIDE DEF v
<1>6. /\ y \in StayRow /\ y.leaving = stay[s].leaving /\ y.from = v /\ y.asked = {}
      /\ y.state = stay[s].state /\ y.room = stay[s].room
      /\ y.until = stay[s].until /\ y.recorded = stay[s].recorded /\ y.ready = stay[s].ready
  BY <1>3, <1>4 DEF StayRow
<1> HIDE DEF y
<1>7. /\ stay' \in [Stays -> StayRow] /\ stay'[s] = y /\ \A t \in Stays : t # s => stay'[t] = stay[t]
  BY <1>5, <1>6, InvParts
<1>8. started' \in 0 .. MaxStarted
  BY <1>2, InvParts
<1>9. /\ stay'[s].state = stay[s].state /\ stay'[s].room = stay[s].room
      /\ stay'[s].until = stay[s].until /\ stay'[s].recorded = stay[s].recorded
      /\ stay'[s].ready = stay[s].ready
      /\ stay'[s].leaving => stay'[s].asked = {}
      /\ stay'[s].from = stay[s].from \/ ValidAmendment(s, stay'[s].from)
  BY <1>4, <1>6, <1>7
<1> QED
  BY <1>2, <1>7, <1>8, <1>9, SameStays

LEMMA InitiateKeepsOrder ==
    ASSUME RoomInv, NEW s \in Stays, InitiateCheckout(s)
    PROVE  RoomInv'
<1> DEFINE y == [stay[s] EXCEPT !.leaving = TRUE]
<1>1. /\ stay[s].state = "ACTIVE" /\ stay[s].asked = {}
      /\ stay' = [stay EXCEPT ![s] = y]
      /\ hour' = hour /\ room' = room /\ category' = category /\ claim' = claim
      /\ reserved' = reserved /\ task' = task /\ package' = package /\ started' = started
  BY DEF InitiateCheckout
<1>2. stay[s] \in StayRow
  BY InvParts
<1>3. /\ y \in StayRow /\ y.asked = stay[s].asked /\ y.from = stay[s].from
      /\ y.state = stay[s].state /\ y.room = stay[s].room
      /\ y.until = stay[s].until /\ y.recorded = stay[s].recorded /\ y.ready = stay[s].ready
  BY <1>2 DEF StayRow
<1> HIDE DEF y
<1>4. /\ stay' \in [Stays -> StayRow] /\ stay'[s] = y /\ \A t \in Stays : t # s => stay'[t] = stay[t]
  BY <1>1, <1>3, InvParts
<1>5. started' \in 0 .. MaxStarted
  BY <1>1, InvParts
<1>6. /\ stay'[s].state = stay[s].state /\ stay'[s].room = stay[s].room
      /\ stay'[s].until = stay[s].until /\ stay'[s].recorded = stay[s].recorded
      /\ stay'[s].ready = stay[s].ready /\ stay'[s].from = stay[s].from
      /\ stay'[s].leaving => stay'[s].asked = {}
  BY <1>1, <1>3, <1>4
<1> QED
  BY <1>1, <1>4, <1>5, <1>6, SameStays

LEMMA CheckoutKeepsOrder ==
    ASSUME RoomInv, NEW s \in Stays, Checkout(s)
    PROVE  RoomInv'
<1> DEFINE r == stay[s].room
           y == [stay[s] EXCEPT !.state = "CLOSED", !.until = hour, !.recorded = 0, !.ready = 0,
                                !.arrival = 0, !.leaving = FALSE]
           z == [room[r] EXCEPT !.clean = "DIRTY"]
           rs == [room EXCEPT ![r] = z]
           v == IF package >= 25000 THEN "WAITING" ELSE task[r]
<1>1. /\ stay[s].state = "ACTIVE" /\ stay[s].asked = {} /\ room[r].status \in {"ACTIVE", "RETIRING"}
      /\ hour' = hour /\ claim' = claim /\ reserved' = reserved /\ package' = package
      /\ started' = started
  BY DEF Checkout, MayClose
<1>2. stay' = [stay EXCEPT ![s] = y] /\ Publish(rs, category) /\ task' = [task EXCEPT ![r] = v]
  <2>1. stay' = [stay EXCEPT ![s] = y]
    BY DEF Checkout
  <2>2. Publish([room EXCEPT ![r].clean = "DIRTY"], category)
    BY DEF Checkout
  <2>3. task' = [task EXCEPT ![r] = IF package >= 25000 THEN "WAITING" ELSE @]
    BY DEF Checkout
  <2>5. rs = [room EXCEPT ![r].clean = "DIRTY"]
    BY InvParts
  <2>6. task' = [task EXCEPT ![r] = v]
    BY <2>3
  <2> QED
    BY <2>1, <2>2, <2>5, <2>6
<1>3. stay[s] \in StayRow /\ r \in Rooms /\ room[r] \in RoomRow /\ hour \in Times
  BY InvParts, RoomNumbers
<1>4. hour \in Later /\ 0 \in Later /\ 0 \in Times
  BY <1>3, RoomNumbers DEF Times, Later
<1>5. y \in StayRow /\ y.state = "CLOSED" /\ y.room = r /\ y.from = stay[s].from /\ y.until = hour /\ y.asked = {}
  BY <1>1, <1>3, <1>4 DEF StayRow
<1>6. z \in RoomRow /\ z.clean = "DIRTY" /\ z.cat = room[r].cat /\ z.status = room[r].status
  BY <1>3, RoomEdits
<1>7. v \in {"NONE", "WAITING", "OPEN"}
  BY <1>3, InvParts
<1> HIDE DEF y, z, v
<1>8. stay' \in [Stays -> StayRow] /\ stay'[s] = y /\ \A t \in Stays : t # s => stay'[t] = stay[t]
  BY <1>2, <1>5, InvParts
<1>9. rs \in [Rooms -> RoomRow] /\ rs[r] = z /\ \A q \in Rooms : q # r => rs[q] = room[q]
  BY <1>3, <1>6, InvParts
<1> HIDE DEF rs, r
<1>10. task' \in [Rooms -> {"NONE", "WAITING", "OPEN"}] /\ \A q \in Rooms : q # r => task'[q] = task[q]
  BY <1>2, <1>3, <1>7, InvParts
<1>11. /\ room' \in [Rooms -> RoomRow] /\ category' = category
       /\ \A q \in Rooms : /\ room'[q].cat = rs[q].cat /\ room'[q].status = rs[q].status
                           /\ room'[q].clean = rs[q].clean
                           /\ room'[q].ready # NotReady <=> IsReady(room', category', q)
  BY <1>2, <1>9, InvParts, PublishRows
<1>12. RoomTypeOK'
  <2>1. /\ hour' \in Times /\ started' \in 0 .. MaxStarted /\ package' \in {20000, 25000}
        /\ category' \in [Categories -> Statuses] /\ claim' \in [Claims -> ClaimRow]
        /\ reserved' \in [Bookings -> ReservedRow]
    BY <1>1, <1>11, InvParts
  <2> QED
    BY <1>8, <1>10, <1>11, <2>1, TypeStep
<1>13. stay[s].from <= hour /\ hour <= hour
  <2>1. stay[s].from <= stay[s].recorded /\ stay[s].recorded <= hour
    BY <1>1, InvParts DEF StaysFit
  <2> QED
    BY <2>1, RoomNumbers
<1>14. StaysFit'
  BY <1>1, <1>5, <1>8, <1>13, InvParts DEF StaysFit
<1>15. ASSUME NEW t \in Stays, t # s, stay[t].state # "NONE", stay[t].room = r
       PROVE  stay[t].state = "CLOSED" /\ stay[t].until + Buffer <= stay[s].from
  BY <1>1, <1>15, OneGuest DEF r
<1>16. StaysFollow'
  <2> SUFFICES ASSUME NEW t \in Stays, NEW u \in Stays, t # u, stay'[t].state # "NONE",
                      stay'[u].state # "NONE", stay'[t].room = stay'[u].room
               PROVE  \/ stay'[u].state = "CLOSED" /\ stay'[u].until + Buffer <= stay'[t].from
                      \/ stay'[t].state = "CLOSED" /\ stay'[t].until + Buffer <= stay'[u].from
    BY DEF StaysFollow, Follows
  <2>1. CASE t = s
    BY <1>5, <1>8, <1>15, <2>1
  <2>2. CASE u = s
    BY <1>5, <1>8, <1>15, <2>2
  <2>3. CASE t # s /\ u # s
    BY <1>8, <2>3, InvParts DEF StaysFollow, Follows
  <2> QED
    BY <2>1, <2>2, <2>3
<1>17. ReservedApart'
  <2> SUFFICES ASSUME NEW t \in Stays, NEW b \in Bookings, stay'[t].state = "ACTIVE",
                      reserved[b].state = "CONFIRMED", stay'[t].room = reserved[b].room
               PROVE  ~Overlap(stay'[t], reserved[b])
    BY <1>1 DEF ReservedApart, Overlap
  <2>1. t # s
    BY <1>5, <1>8
  <2> QED
    BY <1>8, <2>1, InvParts DEF ReservedApart
<1>18. NoPendingAtCheckout'
  BY <1>5, <1>8, InvParts DEF NoPendingAtCheckout
<1>19. WorkInDirtyRooms(room', task')
  BY <1>6, <1>9, <1>10, <1>11, InvParts DEF WorkInDirtyRooms
<1>20. GuestsInCleanRooms(room', stay')
  <2> SUFFICES ASSUME NEW t \in Stays, stay'[t].state = "ACTIVE"
               PROVE  room'[stay'[t].room].clean = "CLEAN" /\ room'[stay'[t].room].status # "INACTIVE"
    BY DEF GuestsInCleanRooms
  <2>1. t # s /\ stay'[t] = stay[t]
    BY <1>5, <1>8
  <2>2. stay[t].room # r /\ stay[t].room \in Rooms
    BY <1>15, <2>1, RoomNumbers
  <2> QED
    BY <1>9, <1>11, <2>1, <2>2, InvParts DEF GuestsInCleanRooms
<1>21. InactiveRoomsEmpty(room', stay', reserved, task')
  <2> SUFFICES ASSUME NEW q \in Rooms, room'[q].status = "INACTIVE"
               PROVE  /\ task'[q] = "NONE"
                      /\ \A b \in Bookings : reserved[b].state = "CONFIRMED" /\ reserved[b].room = q => reserved[b].until <= hour
                      /\ room'[q].clean # "CLEAN" => \A t \in Stays : stay'[t].room = q => stay'[t].state = "NONE"
    BY DEF InactiveRoomsEmpty
  <2>1. q # r
    BY <1>1, <1>6, <1>9, <1>11 DEF r
  <2>2. room[q].status = "INACTIVE" /\ room'[q].clean = room[q].clean /\ task'[q] = task[q]
    BY <1>9, <1>10, <1>11, <2>1
  <2>3. \A t \in Stays : stay'[t].room = q => t # s
    BY <1>5, <1>8, <2>1
  <2> QED
    BY <1>8, <2>2, <2>3, InvParts DEF InactiveRoomsEmpty
<1>22. InactiveCategoriesEmpty(room', category', claim)
  BY <1>6, <1>9, <1>11, InvParts DEF InactiveCategoriesEmpty
<1>23. HouseInOrder(room', category', stay', reserved', claim', task')
  BY <1>1, <1>19, <1>20, <1>21, <1>22 DEF HouseInOrder
<1> QED
  BY <1>1, <1>12, <1>14, <1>16, <1>17, <1>18, <1>23, InvStep

LEMMA ClockKeepsOrder == ASSUME RoomInv, ClockTicks PROVE RoomInv'
<1>1. /\ hour < LastTime /\ hour' = hour + 1
      /\ room' = room /\ category' = category /\ stay' = stay /\ claim' = claim
      /\ reserved' = reserved /\ task' = task /\ package' = package /\ started' = started
  BY DEF ClockTicks
<1>2. hour' \in Times /\ \A n \in Nat : n <= hour => n <= hour'
  BY <1>1, RoomNumbers DEF Times
<1>3. RoomTypeOK'
  BY <1>1, <1>2, InvParts DEF RoomTypeOK, IsReady, Statuses
<1>4. StaysFit'
  BY <1>1, <1>2, InvParts, RoomNumbers DEF StaysFit
<1>5. StaysFollow' /\ ReservedApart' /\ NoPendingAtCheckout'
  BY <1>1, InvParts DEF StaysFollow, Follows, ReservedApart, Overlap, NoPendingAtCheckout
<1>6. (WorkInDirtyRooms(room, task))' /\ (GuestsInCleanRooms(room, stay))'
  BY <1>1, InvParts DEF WorkInDirtyRooms, GuestsInCleanRooms
<1>7. (InactiveRoomsEmpty(room, stay, reserved, task))'
  BY <1>1, <1>2, InvParts, RoomNumbers DEF InactiveRoomsEmpty
<1>8. (InactiveCategoriesEmpty(room, category, claim))'
  BY <1>1, <1>2, InvParts, RoomNumbers DEF InactiveCategoriesEmpty
<1>9. (HouseInOrder(room, category, stay, reserved, claim, task))'
  BY <1>6, <1>7, <1>8 DEF HouseInOrder
<1> QED
  BY <1>3, <1>4, <1>5, <1>9 DEF RoomInv

-----------------------------------------------------------------------------
(* The theorems.                                                           *)

LEMMA RoomStep == RoomInv /\ [RoomNext]_roomVars => RoomInv'
<1> SUFFICES ASSUME RoomInv, [RoomNext]_roomVars PROVE RoomInv'
  OBVIOUS
<1>1. CASE UNCHANGED roomVars
  <2>1. /\ hour' = hour /\ room' = room /\ category' = category /\ stay' = stay /\ claim' = claim
        /\ reserved' = reserved /\ task' = task /\ package' = package /\ started' = started
    BY <1>1 DEF roomVars
  <2>2. HouseInOrder(room', category', stay, reserved, claim', task')
    BY <2>1, InvParts
  <2> QED
    BY <2>1, <2>2, InvParts, HouseStep DEF IsReady
<1>2. ASSUME NEW x \in Claims, NEW c \in Categories, NEW i \in Intervals, CreateHold(x, c, i) PROVE RoomInv'
  BY <1>2, HoldKeepsOrder
<1>3. ASSUME NEW x \in Claims, ApplyCapture(x) \/ ReleaseClaim(x) \/ HotelCancels(x) PROVE RoomInv'
  BY <1>3, CaptureKeepsOrder, ReleaseKeepsOrder
<1>4. ASSUME NEW x \in Claims, NEW r \in Rooms, Upgrade(x, r) PROVE RoomInv'
  BY <1>4, UpgradeKeepsOrder
<1>5. ASSUME NEW b \in Bookings, NEW r \in Rooms, NEW i \in Intervals, ReserveRoom(b, r, i) PROVE RoomInv'
  BY <1>5, ReserveKeepsOrder
<1>6. ASSUME NEW s \in Stays, NEW r \in Rooms, NEW a \in Times, NEW n \in 1 .. MaxNights, WalkIn(s, r, a, n)
      PROVE  RoomInv'
  BY <1>6, WalkInKeepsOrder
<1>7. ASSUME NEW s \in Stays, NEW b \in Bookings, NEW a \in Times, CheckInBooking(s, b, a) PROVE RoomInv'
  BY <1>7, BookingArrivalKeepsOrder
<1>8. ASSUME NEW s \in Stays, NEW x \in Claims, NEW r \in Rooms, NEW a \in Times, CheckInClaim(s, x, r, a)
      PROVE  RoomInv'
  BY <1>8, ClaimArrivalKeepsOrder
<1>9. ASSUME NEW s \in Stays, NEW a \in Times, RequestAmendment(s, a) PROVE RoomInv'
  BY <1>9, RequestAmendmentKeepsOrder
<1>10. ASSUME NEW s \in Stays, NEW approve \in BOOLEAN, DecideAmendment(s, approve) PROVE RoomInv'
  BY <1>10, DecideKeepsOrder
<1>11. ASSUME NEW s \in Stays, InitiateCheckout(s) \/ Checkout(s) PROVE RoomInv'
  BY <1>11, InitiateKeepsOrder, CheckoutKeepsOrder
<1>12. ASSUME NEW r \in Rooms,
              \/ RequestCleaning(r) \/ ClaimCleaning(r) \/ StartCleaning(r) \/ PostCleaning(r) \/ ManagerCleans(r)
       PROVE  RoomInv'
  BY <1>12, RequestKeepsOrder, StartKeepsOrder, PostKeepsOrder, ManagerKeepsOrder
<1>13. ASSUME NEW r \in Rooms, DeactivateRoom(r) \/ ReactivateRoom(r) PROVE RoomInv'
  BY <1>13, DeactivateRoomKeepsOrder, ReactivateRoomKeepsOrder
<1>14. ASSUME NEW r \in Rooms, NEW c \in Categories, ReassignCategory(r, c) PROVE RoomInv'
  BY <1>14, ReassignKeepsOrder
<1>15. ASSUME NEW c \in Categories, DeactivateCategory(c) \/ ReactivateCategory(c) PROVE RoomInv'
  BY <1>15, CategoryKeepsOrder
<1>16. CASE PackageGrows \/ ClockTicks
  BY <1>16, PackageKeepsOrder, ClockKeepsOrder
<1> QED
  BY <1>1, <1>2, <1>3, <1>4, <1>5, <1>6, <1>7, <1>8, <1>9, <1>10, <1>11, <1>12, <1>13, <1>14, <1>15, <1>16
     DEF RoomNext

LEMMA RoomSafe == RoomSpec => []RoomInv
  BY InitRoomInv, RoomStep, PTL DEF RoomSpec

\* Every row keeps its shape, and a room counts as ready since some time exactly
\* when it is clean and in service in a category in service (the triggers of room
\* and room_category).
THEOREM RoomTypes == RoomSpec => []RoomTypeOK
<1>1. RoomInv => RoomTypeOK
  BY DEF RoomInv
<1> QED
  BY <1>1, RoomSafe, PTL

\* However the commands of desk, guests and cleaners interleave with the clock, the
\* uses of a room never overlap and no stay begins before its room was ready.
THEOREM RoomsArePromisedOnce == RoomSpec => []RoomPromisedOnce
  BY RoomSafe, InvPromisedOnce, PTL

\* A guest's room is never cleaned or retired under them, no amendment outlives its
\* stay, and what is out of service holds neither work nor promises.
THEOREM HouseStaysInOrder == RoomSpec => []RoomsAreLeftInOrder
  BY RoomSafe, InvLeftInOrder, PTL

-----------------------------------------------------------------------------
(* Claims stay assignable.  A claim that has more free rooms than there    *)
(* are claims it overlaps can be seated last, whatever rooms the others    *)
(* were given; so a command only has to reseat the claims it counted.      *)

\* g gives every claim of S a room it has free, overlapping claims different rooms.
Seats(g, S, free, iv) ==
    /\ g \in [S -> Rooms]
    /\ \A x \in S : g[x] \in free[x]
    /\ \A x, y \in S : x # y /\ g[x] = g[y] => ~Overlap(iv[x], iv[y])

Open == UNION {Outstanding(c) : c \in Categories}
Free == [x \in Claims |-> {r \in Rooms : /\ room[r].cat = claim[x].cat /\ Eligible(r)
                                         /\ \A i \in RoomIntervals(r, {}) : ~Overlap(claim[x], i)}]
\* The other open claims of its category that overlap x.
Rivals(x) == {y \in Open \ {x} : claim[y].cat = claim[x].cat /\ Overlap(claim[x], claim[y])}

LEMMA OpenClaims == \A x \in Open : x \in Claims
  BY DEF Open, Outstanding

CanSeat == \E g : Seats(g, Open, Free, claim)

LEMMA SeatedIsAssignable == Assignable <=> CanSeat
<1> DEFINE fits(x) == {r \in Rooms : /\ room[r].cat = claim[x].cat /\ Eligible(r)
                                     /\ \A i \in RoomIntervals(r, {}) : ~Overlap(claim[x], i)}
<1>1. \A x \in Open : Free[x] = fits(x)
  BY OpenClaims DEF Free
<1>2. Assignable <=> \E g \in [Open -> Rooms] :
                        /\ \A x \in Open : g[x] \in fits(x)
                        /\ \A x, y \in Open : x # y /\ g[x] = g[y] => ~Overlap(claim[x], claim[y])
  BY Zenon DEF Assignable, Open
<1> HIDE DEF fits
<1>3. \A g : Seats(g, Open, Free, claim) <=>
                /\ g \in [Open -> Rooms]
                /\ \A x \in Open : g[x] \in fits(x)
                /\ \A x, y \in Open : x # y /\ g[x] = g[y] => ~Overlap(claim[x], claim[y])
  BY <1>1 DEF Seats
<1> QED
  BY <1>2, <1>3 DEF CanSeat

\* One more claim is seated beside the seated ones.
LEMMA SeatOne ==
    ASSUME NEW S, NEW x, x \notin S, NEW free, NEW iv, NEW g, Seats(g, S, free, iv),
           NEW r \in Rooms, r \in free[x],
           \A y \in S : g[y] = r => ~Overlap(iv[x], iv[y])
    PROVE  \E h : Seats(h, S \cup {x}, free, iv)
<1> DEFINE h == [y \in S \cup {x} |-> IF y = x THEN r ELSE g[y]]
<1>1. h[x] = r /\ \A y \in S : h[y] = g[y]
  OBVIOUS
<1>2. /\ g \in [S -> Rooms] /\ \A y \in S : g[y] \in free[y]
      /\ \A y, z \in S : y # z /\ g[y] = g[z] => ~Overlap(iv[y], iv[z])
  BY DEF Seats
<1>3. h \in [S \cup {x} -> Rooms]
  BY <1>2
<1> HIDE DEF h
<1>4. \A y \in S : g[y] = r => ~Overlap(iv[x], iv[y]) /\ ~Overlap(iv[y], iv[x])
  BY DEF Overlap
<1>5. \A y \in S \cup {x} : h[y] \in free[y]
  BY <1>1, <1>2
<1>6. \A y, z \in S \cup {x} : y # z /\ h[y] = h[z] => ~Overlap(iv[y], iv[z])
  <2> SUFFICES ASSUME NEW y \in S \cup {x}, NEW z \in S \cup {x}, y # z, h[y] = h[z]
               PROVE  ~Overlap(iv[y], iv[z])
    OBVIOUS
  <2>1. CASE y = x
    BY <1>1, <1>4, <2>1
  <2>2. CASE z = x
    BY <1>1, <1>4, <2>2
  <2>3. CASE y # x /\ z # x
    BY <1>1, <1>2, <2>3
  <2> QED
    BY <2>1, <2>2, <2>3
<1> QED
  BY <1>3, <1>5, <1>6 DEF Seats

\* No more rooms are taken than there are claims that take them.
LEMMA ImageSize ==
    ASSUME NEW S, IsFiniteSet(S), NEW h
    PROVE  /\ IsFiniteSet({h[y] : y \in S})
           /\ Cardinality({h[y] : y \in S}) <= Cardinality(S)
<1> DEFINE T == {h[y] : y \in S}
           f == [y \in S |-> h[y]]
<1>1. f \in Surjection(S, T)
  BY DEF Surjection
<1> HIDE DEF f
<1>2. IsFiniteSet(T) /\ Cardinality(T) <= Cardinality(S)
  <2> HIDE DEF T
  <2> QED
    BY <1>1, FS_Surjection
<1> QED
  BY <1>2

\* Claims that each have more free rooms than rivals are seated one after the
\* other, beside the claims that sit already.
LEMMA SeatTheRest ==
    ASSUME NEW S \in SUBSET Claims, NEW E \in SUBSET S, NEW free, NEW iv,
           \A x \in E : free[x] \subseteq Rooms,
           NEW near, \A x \in E : near[x] \subseteq Claims /\ Cardinality(near[x]) < Cardinality(free[x]),
           \A x \in E : \A y \in S \ {x} :
               y \notin near[x] => ~Overlap(iv[x], iv[y]) \/ free[x] \cap free[y] = {},
           NEW g, Seats(g, S \ E, free, iv)
    PROVE  \E h : Seats(h, S, free, iv)
<1> DEFINE B == {T \in SUBSET E : \E h : Seats(h, S \ T, free, iv)}
<1>1. IsFiniteSet(Claims) /\ IsFiniteSet(Rooms)
  BY RoomStayAssumption
<1>2. IsFiniteSet(E)
  <2>1. E \subseteq Claims
    OBVIOUS
  <2> QED
    BY <1>1, <2>1, FS_Subset
<1>3. E \in B /\ B \subseteq SUBSET E
  OBVIOUS
<1> HIDE DEF B
<1>4. PICK T \in B : \A U \in B : U \subseteq T => U = T
  BY <1>2, <1>3, SmallestSubset
<1>5. T \in SUBSET E /\ \E h : Seats(h, S \ T, free, iv)
  BY <1>4 DEF B
<1>6. PICK h : Seats(h, S \ T, free, iv)
  BY <1>5
<1>7. ASSUME NEW x \in T PROVE FALSE
  <2>1. x \in E /\ x \in S /\ x \notin S \ T
    BY <1>5
  <2> DEFINE used == {h[y] : y \in (S \ T) \cap near[x]}
  <2>2. PICK r \in free[x] : r \notin used
    <3>1. IsFiniteSet(near[x]) /\ (S \ T) \cap near[x] \subseteq near[x]
      BY <1>1, <2>1, FS_Subset
    <3>2. /\ IsFiniteSet((S \ T) \cap near[x])
          /\ Cardinality((S \ T) \cap near[x]) <= Cardinality(near[x])
      BY <3>1, FS_Subset
    <3>3. IsFiniteSet(used) /\ Cardinality(used) <= Cardinality((S \ T) \cap near[x])
      BY <3>2, ImageSize
    <3>4. ASSUME free[x] \subseteq used PROVE FALSE
      <4>1. Cardinality(free[x]) <= Cardinality(used)
        BY <3>3, <3>4, FS_Subset
      <4>2. /\ Cardinality(free[x]) \in Nat /\ Cardinality(used) \in Nat
            /\ Cardinality(near[x]) \in Nat /\ Cardinality((S \ T) \cap near[x]) \in Nat
        BY <3>1, <3>2, <3>3, <3>4, FS_CardinalityType, FS_Subset
      <4>3. Cardinality(near[x]) < Cardinality(free[x])
        BY <2>1
      <4> HIDE DEF used
      <4> QED
        BY <3>2, <3>3, <4>1, <4>2, <4>3
    <3> QED
      BY <3>4
  <2>3. \A y \in S \ T : h[y] = r => ~Overlap(iv[x], iv[y])
    <3> SUFFICES ASSUME NEW y \in S \ T, h[y] = r PROVE ~Overlap(iv[x], iv[y])
      OBVIOUS
    <3>1. y \notin near[x] /\ y \in S \ {x}
      BY <2>2
    <3>2. h[y] \in free[y]
      BY <1>6 DEF Seats
    <3>3. free[x] \cap free[y] # {}
      BY <2>2, <3>2
    <3> QED
      BY <2>1, <3>1, <3>3
  <2>4. r \in Rooms
    BY <2>1, <2>2
  <2>5. \E k : Seats(k, (S \ T) \cup {x}, free, iv)
    BY <1>6, <2>1, <2>2, <2>3, <2>4, SeatOne
  <2>6. (S \ T) \cup {x} = S \ (T \ {x})
    BY <2>1
  <2>7. T \ {x} \in B
    BY <1>5, <2>5, <2>6 DEF B
  <2> QED
    BY <1>4, <2>7
<1>8. S \ T = S
  BY <1>7
<1> QED
  BY <1>6, <1>8

LEMMA SeatedNext == Assignable' <=> \E g : Seats(g, Open', Free', claim')
<1>1. Assignable' <=> CanSeat'
  BY SeatedIsAssignable, PTL
<1> QED
  BY <1>1 DEF CanSeat, Seats, Overlap

LEMMA FreeRooms ==
    /\ \A x \in Claims : Free[x] \subseteq Rooms
    /\ \A x \in Claims : \A r \in Free[x] : room[r].cat = claim[x].cat
    /\ \A x \in Claims : Rivals(x) \subseteq Claims
<1>1. \A x \in Claims : Rivals(x) \subseteq Claims
  BY OpenClaims DEF Rivals
<1> QED
  BY <1>1 DEF Free

LEMMA FreeRoomsNext ==
    /\ \A x \in Claims : Free'[x] \subseteq Rooms
    /\ \A x \in Claims : \A r \in Free'[x] : room'[r].cat = claim'[x].cat
    /\ \A x \in Claims : Rivals(x)' \subseteq Claims
    /\ \A x \in Open' : x \in Claims
<1>1. \A x \in Open' : x \in Claims
  BY DEF Open, Outstanding
<1>2. \A x \in Claims : Rivals(x)' \subseteq Claims
  BY <1>1 DEF Rivals
<1> QED
  BY <1>1, <1>2 DEF Free

\* The claims outside E keep their rooms, those of E have rooms to spare.
LEMMA Reseat ==
    ASSUME Assignable, NEW E,
           \A x \in Open' \ E : /\ x \in Open /\ Free[x] \subseteq Free'[x]
                                /\ claim'[x].from = claim[x].from /\ claim'[x].until = claim[x].until,
           \A x \in E \cap Open' : Cardinality(Rivals(x)') < Cardinality(Free'[x])
    PROVE  Assignable'
<1> DEFINE S == Open'
           D == E \cap S
           free == Free'
           iv == claim'
           near == [x \in Claims |-> Rivals(x)']
<1>1. PICK g : Seats(g, Open, Free, claim)
  BY SeatedIsAssignable DEF CanSeat
<1> DEFINE k == [x \in S \ D |-> g[x]]
<1>2. /\ g \in [Open -> Rooms] /\ \A x \in Open : g[x] \in Free[x]
      /\ \A x, y \in Open : x # y /\ g[x] = g[y] => ~Overlap(claim[x], claim[y])
  BY <1>1 DEF Seats
<1>3. \A x \in S \ D : /\ x \in Open /\ Free[x] \subseteq free[x]
                       /\ iv[x].from = claim[x].from /\ iv[x].until = claim[x].until
  OBVIOUS
<1>4. S \in SUBSET Claims /\ D \in SUBSET S
  BY FreeRoomsNext
<1>5. \A x \in D : free[x] \subseteq Rooms
  BY <1>4, FreeRoomsNext
<1>6. \A x \in D : near[x] \subseteq Claims /\ Cardinality(near[x]) < Cardinality(free[x])
  BY <1>4, FreeRoomsNext
<1>7. ASSUME NEW x \in D, NEW y \in S \ {x}, y \notin near[x]
      PROVE  ~Overlap(iv[x], iv[y]) \/ free[x] \cap free[y] = {}
  <2>1. x \in Claims /\ y \in Claims /\ y \notin Rivals(x)'
    BY <1>4, <1>7
  <2>2. claim'[y].cat # claim'[x].cat \/ ~Overlap(claim'[x], claim'[y])
    BY <2>1 DEF Rivals, Overlap
  <2>3. ASSUME NEW r \in free[x] \cap free[y] PROVE claim'[y].cat = claim'[x].cat
    BY <2>1, FreeRoomsNext
  <2> QED
    BY <2>2, <2>3
<1> HIDE DEF S, free, iv, near, D
<1>8. Seats(k, S \ D, free, iv)
  <2>1. k \in [S \ D -> Rooms]
    BY <1>2, <1>3
  <2>2. \A x \in S \ D : k[x] = g[x] /\ k[x] \in free[x]
    BY <1>2, <1>3
  <2> HIDE DEF k
  <2>3. \A x, y \in S \ D : x # y /\ k[x] = k[y] => ~Overlap(iv[x], iv[y])
    BY <1>2, <1>3, <2>2 DEF Overlap
  <2> QED
    BY <2>1, <2>2, <2>3 DEF Seats
<1> HIDE DEF k
<1>9. \E h : Seats(h, S, free, iv)
  BY <1>4, <1>5, <1>6, <1>7, <1>8, SeatTheRest
<1> QED
  BY <1>9, SeatedNext DEF S, free, iv

\* What the claims may rely on in a step: rooms stay in service, claims as they were.
RoomsKept == \A r \in Rooms : Eligible(r) => (Eligible(r))' /\ room'[r].cat = room[r].cat
SameClaim(x) ==
    claim'[x].cat = claim[x].cat /\ claim'[x].from = claim[x].from /\ claim'[x].until = claim[x].until
ClaimsKept == \A x \in Open' : x \in Open /\ SameClaim(x)
\* No room of x's category gets busier for x.
BusyKept(x) ==
    \A r \in Rooms : room[r].cat = claim[x].cat =>
        \A j \in RoomIntervals(r, {})' : Overlap(claim[x], j) =>
            \E k \in RoomIntervals(r, {}) : Overlap(claim[x], k)

LEMMA FreeGrows ==
    ASSUME RoomsKept, NEW x \in Claims, SameClaim(x), BusyKept(x)
    PROVE  Free[x] \subseteq Free'[x]
<1> SUFFICES ASSUME NEW r \in Free[x] PROVE r \in Free'[x]
  OBVIOUS
<1>1. /\ r \in Rooms /\ room[r].cat = claim[x].cat /\ Eligible(r)
      /\ \A k \in RoomIntervals(r, {}) : ~Overlap(claim[x], k)
  BY DEF Free
<1>2. room'[r].cat = claim'[x].cat /\ (Eligible(r))'
  BY <1>1 DEF RoomsKept, SameClaim
<1>3. \A j \in RoomIntervals(r, {})' : ~Overlap(claim[x], j)
  BY <1>1 DEF BusyKept
<1>4. \A j : Overlap(claim'[x], j) <=> Overlap(claim[x], j)
  BY DEF SameClaim, Overlap
<1>5. \A j \in RoomIntervals(r, {})' : ~Overlap(claim'[x], j)
  BY <1>3, <1>4
<1>6. r \in {q \in Rooms : /\ room'[q].cat = claim'[x].cat /\ (Eligible(q))'
                           /\ \A j \in RoomIntervals(q, {})' : ~Overlap(claim'[x], j)}
  BY <1>1, <1>2, <1>5
<1> QED
  BY <1>6 DEF Free, Overlap

\* A step in which no room gets busier.
LEMMA Undisturbed ==
    ASSUME Assignable, RoomsKept, ClaimsKept, \A x \in Open' : BusyKept(x)
    PROVE  Assignable'
<1>1. \A x \in Open' : /\ x \in Open /\ Free[x] \subseteq Free'[x]
                       /\ claim'[x].from = claim[x].from /\ claim'[x].until = claim[x].until
  <2> SUFFICES ASSUME NEW x \in Open'
               PROVE  /\ x \in Open /\ Free[x] \subseteq Free'[x]
                      /\ claim'[x].from = claim[x].from /\ claim'[x].until = claim[x].until
    OBVIOUS
  <2>1. x \in Open /\ SameClaim(x) /\ BusyKept(x) /\ x \in Claims
    BY OpenClaims DEF ClaimsKept
  <2>2. Free[x] \subseteq Free'[x]
    BY <2>1, FreeGrows
  <2> QED
    BY <2>1, <2>2 DEF SameClaim
<1> DEFINE E == {}
<1>2. \A x \in Open' \ E : /\ x \in Open /\ Free[x] \subseteq Free'[x]
                           /\ claim'[x].from = claim[x].from /\ claim'[x].until = claim[x].until
  BY <1>1
<1>3. \A x \in E \cap Open' : Cardinality(Rivals(x)') < Cardinality(Free'[x])
  OBVIOUS
<1> HIDE DEF E
<1> QED
  BY <1>2, <1>3, Reseat

\* The claims E find no room busier than before, but room r for interval i; the
\* other claims find none busier.
TakesOnly(E, r, i, without) ==
    \A x \in E, q \in Rooms : \A j \in RoomIntervals(q, {})' : Overlap(claim[x], j) =>
        \/ \E k \in RoomIntervals(q, without) : Overlap(claim[x], k)
        \/ q = r /\ Overlap(claim[x], i)
OthersUndisturbed(E) == \A x \in Open' \ E : BusyKept(x)

\* A step that takes room r for interval i, as protect_existing_claims allows it.
LEMMA Protected ==
    ASSUME RoomInv, Assignable, RoomsKept, ClaimsKept, NEW r \in Rooms, NEW i, NEW without, NEW holds,
           ProtectExistingClaims(r, i, without, holds), \A x \in Open' : x \notin holds,
           NEW E \in SUBSET Claims, \A x \in E : claim[x].cat = room[r].cat,
           TakesOnly(E, r, i, without), OthersUndisturbed(E)
    PROVE  Assignable'
<1> DEFINE c == room[r].cat
           claims == Outstanding(c) \ holds
           busy == [q \in Rooms |-> RoomIntervals(q, without) \cup IF q = r THEN {i} ELSE {}]
           free(x) == {q \in Rooms : room[q].cat = c /\ Eligible(q) /\ \A b \in busy[q] : ~Overlap(claim[x], b)}
           rivals(x) == {y \in claims \ {x} : Overlap(claim[x], claim[y])}
<1>1. \A x \in claims : Cardinality(rivals(x)) < Cardinality(free(x))
  BY DEF ProtectExistingClaims, UnassignedCapacity
<1>2. ASSUME NEW x \in Open' \ E
      PROVE  /\ x \in Open /\ Free[x] \subseteq Free'[x]
             /\ claim'[x].from = claim[x].from /\ claim'[x].until = claim[x].until
  <2>1. x \in Open /\ SameClaim(x) /\ BusyKept(x) /\ x \in Claims
    BY OpenClaims DEF ClaimsKept, OthersUndisturbed
  <2>2. Free[x] \subseteq Free'[x]
    BY <2>1, FreeGrows
  <2> QED
    BY <2>1, <2>2 DEF SameClaim
<1>3. ASSUME NEW x \in E \cap Open'
      PROVE  Cardinality(Rivals(x)') < Cardinality(Free'[x])
  <2>1. /\ x \in Claims /\ x \in Open /\ SameClaim(x) /\ x \notin holds /\ claim[x].cat = c
    BY DEF ClaimsKept
  <2>2. \A y \in Open : y \in Claims /\ y \in Outstanding(claim[y].cat)
    BY DEF Open, Outstanding
  <2>3. x \in claims
    BY <2>1, <2>2
  <2>4. Rivals(x)' \subseteq rivals(x)
    <3> SUFFICES ASSUME NEW y \in Rivals(x)' PROVE y \in rivals(x)
      OBVIOUS
    <3>1. y \in Open' /\ y # x /\ claim'[y].cat = claim'[x].cat /\ Overlap(claim'[x], claim'[y])
      BY DEF Rivals, Overlap
    <3>2. y \in Open /\ SameClaim(y) /\ y \notin holds
      BY <3>1 DEF ClaimsKept
    <3>3. claim[y].cat = c
      BY <2>1, <3>1, <3>2 DEF SameClaim
    <3>4. y \in claims \ {x}
      BY <2>2, <3>1, <3>2, <3>3
    <3>5. Overlap(claim[x], claim[y])
      BY <2>1, <3>1, <3>2 DEF SameClaim, Overlap
    <3> QED
      BY <3>4, <3>5
  <2>5. free(x) \subseteq Free'[x]
    <3> SUFFICES ASSUME NEW q \in free(x) PROVE q \in Free'[x]
      OBVIOUS
    <3>1. q \in Rooms /\ room[q].cat = c /\ Eligible(q) /\ \A b \in busy[q] : ~Overlap(claim[x], b)
      OBVIOUS
    <3>2. /\ \A k \in RoomIntervals(q, without) : ~Overlap(claim[x], k)
          /\ q = r => ~Overlap(claim[x], i)
      BY <3>1
    <3>3. \A j \in RoomIntervals(q, {})' : ~Overlap(claim[x], j)
      BY <3>1, <3>2 DEF TakesOnly
    <3>4. \A j : Overlap(claim'[x], j) <=> Overlap(claim[x], j)
      BY <2>1 DEF SameClaim, Overlap
    <3>5. \A j \in RoomIntervals(q, {})' : ~Overlap(claim'[x], j)
      BY <3>3, <3>4
    <3>6. room'[q].cat = claim'[x].cat /\ (Eligible(q))'
      BY <2>1, <3>1 DEF RoomsKept, SameClaim
    <3>7. q \in {p \in Rooms : /\ room'[p].cat = claim'[x].cat /\ (Eligible(p))'
                               /\ \A j \in RoomIntervals(p, {})' : ~Overlap(claim'[x], j)}
      BY <3>1, <3>5, <3>6
    <3> QED
      BY <2>1, <3>7 DEF Free, Overlap
  <2>6. /\ rivals(x) \subseteq Claims /\ Free'[x] \subseteq Rooms
        /\ IsFiniteSet(Claims) /\ IsFiniteSet(Rooms)
    BY <2>1, FreeRoomsNext, RoomStayAssumption DEF Outstanding
  <2>7. Cardinality(rivals(x)) < Cardinality(free(x))
    BY <1>1, <2>3
  <2> HIDE DEF rivals, free, claims, busy, c
  <2>8. /\ IsFiniteSet(rivals(x)) /\ IsFiniteSet(Free'[x])
    BY <2>6, FS_Subset
  <2>9. IsFiniteSet(Rivals(x)') /\ Cardinality(Rivals(x)') <= Cardinality(rivals(x))
    BY <2>4, <2>8, FS_Subset
  <2>10. IsFiniteSet(free(x)) /\ Cardinality(free(x)) <= Cardinality(Free'[x])
    BY <2>5, <2>8, FS_Subset
  <2>11. /\ Cardinality(rivals(x)) \in Nat /\ Cardinality(Free'[x]) \in Nat
         /\ Cardinality(Rivals(x)') \in Nat /\ Cardinality(free(x)) \in Nat
    BY <2>8, <2>9, <2>10, FS_CardinalityType
  <2> QED
    BY <2>7, <2>9, <2>10, <2>11
<1> QED
  BY <1>2, <1>3, Reseat

\* Where the intervals of a room come from, after a step.
LEMMA IntervalsNext ==
    ASSUME NEW r \in Rooms, NEW j \in RoomIntervals(r, {})'
    PROVE  \/ \E t \in Stays : stay'[t].state # "NONE" /\ stay'[t].room = r /\ j = StayInterval(t)'
           \/ \E b \in Bookings : reserved'[b].state = "CONFIRMED" /\ reserved'[b].room = r /\ j = reserved'[b]
  BY DEF RoomIntervals, Reservations

LEMMA IntervalsNow ==
    ASSUME NEW r \in Rooms, NEW without
    PROVE  /\ \A t \in Stays \ without : stay[t].state # "NONE" /\ stay[t].room = r => StayInterval(t) \in RoomIntervals(r, without)
           /\ \A b \in Bookings : reserved[b].state = "CONFIRMED" /\ reserved[b].room = r => reserved[b] \in RoomIntervals(r, without)
  BY DEF RoomIntervals, Reservations

LEMMA ClaimsShrink ==
    ASSUME \A x \in Claims : claim'[x].state \in {"ACTIVE", "CONFIRMED"} =>
               claim[x].state \in {"ACTIVE", "CONFIRMED"} /\ SameClaim(x),
           claim \in [Claims -> ClaimRow]
    PROVE  ClaimsKept
<1> SUFFICES ASSUME NEW x \in Open' PROVE x \in Open /\ SameClaim(x)
  BY DEF ClaimsKept
<1>1. x \in Claims /\ claim'[x].state \in {"ACTIVE", "CONFIRMED"}
  BY DEF Open, Outstanding
<1>2. claim[x].state \in {"ACTIVE", "CONFIRMED"} /\ SameClaim(x)
  BY <1>1
<1>3. claim[x].cat \in Categories
  BY <1>1 DEF ClaimRow
<1> QED
  BY <1>1, <1>2, <1>3 DEF Open, Outstanding

\* Stays that end earlier than they might have, or not at all differently.
LEMMA ShorterStays ==
    ASSUME RoomInv, RoomInv', Assignable, RoomsKept, ClaimsKept, hour' = hour, reserved' = reserved,
           \A t \in Stays : stay'[t].state # "NONE" =>
               /\ stay[t].state # "NONE" /\ stay'[t].room = stay[t].room
               /\ StayInterval(t)'.from = StayInterval(t).from
               /\ StayInterval(t)'.until <= StayInterval(t).until
    PROVE  Assignable'
<1>1. ASSUME NEW x \in Open' PROVE BusyKept(x)
  <2> SUFFICES ASSUME NEW r \in Rooms, NEW j \in RoomIntervals(r, {})', Overlap(claim[x], j)
               PROVE  \E k \in RoomIntervals(r, {}) : Overlap(claim[x], k)
    BY DEF BusyKept
  <2>1. x \in Claims
    BY FreeRoomsNext
  <2>2. CASE \E t \in Stays : stay'[t].state # "NONE" /\ stay'[t].room = r /\ j = StayInterval(t)'
    <3>1. PICK t \in Stays : stay'[t].state # "NONE" /\ stay'[t].room = r /\ j = StayInterval(t)'
      BY <2>2
    <3>2. StayInterval(t) \in RoomIntervals(r, {})
      BY <3>1, IntervalsNow
    <3>3. /\ StayInterval(t).until \in Nat /\ StayInterval(t).from \in Nat
          /\ StayInterval(t)'.until \in Nat
      <4>1. stay[t].from \in Nat /\ stay[t].until \in Nat /\ hour \in Nat
        BY RoomNumbers
      <4>2. stay'[t].until \in Nat /\ hour' \in Nat
        <5>1. stay'[t] \in StayRow
          BY DEF RoomInv, RoomTypeOK
        <5> QED
          BY <4>1, <5>1, RoomStayAssumption DEF StayRow, Later
      <4> QED
        BY <4>1, <4>2 DEF StayInterval, Greater
    <3>4. Overlap(claim[x], StayInterval(t))
      BY <2>1, <3>1, <3>3, RoomNumbers DEF Overlap
    <3> QED
      BY <3>2, <3>4
  <2>3. CASE \E b \in Bookings : reserved'[b].state = "CONFIRMED" /\ reserved'[b].room = r /\ j = reserved'[b]
    BY <2>3, IntervalsNow
  <2> QED
    BY <2>2, <2>3, IntervalsNext
<1> QED
  BY <1>1, Undisturbed

\* Commands that leave the stays and the reservations alone.
LEMMA QuietClaims ==
    ASSUME RoomInv, RoomInv', Assignable, RoomsKept, ClaimsKept, hour' = hour, reserved' = reserved,
           stay' = stay
    PROVE  Assignable'
<1>1. \A t \in Stays : stay'[t].state # "NONE" =>
         /\ stay[t].state # "NONE" /\ stay'[t].room = stay[t].room
         /\ StayInterval(t)'.from = StayInterval(t).from
         /\ StayInterval(t)'.until <= StayInterval(t).until
  <2>1. \A t \in Stays : StayInterval(t)' = StayInterval(t) /\ StayInterval(t).until \in Nat
    BY RoomNumbers DEF StayInterval, Greater
  <2> QED
    BY <2>1
<1> QED
  BY <1>1, ShorterStays

\* A stay begins where protect_existing_claims lets it.
LEMMA EnterSeats ==
    ASSUME RoomInv, Assignable, RoomsKept, ClaimsKept, hour' = hour,
           NEW s \in Stays, NEW r \in Rooms, NEW actual \in Times, NEW until \in Later,
           NEW arrival \in Later, NEW own, NEW holds, Enter(s, r, actual, until, arrival, own, holds),
           until > hour, \A x \in Open' : x \notin holds,
           \A b \in Bookings : reserved'[b].state = "CONFIRMED" => reserved'[b] = reserved[b]
    PROVE  Assignable'
<1> DEFINE i == [from |-> actual, until |-> until]
           E == {x \in Claims : claim[x].cat = room[r].cat}
           y == [state |-> "ACTIVE", room |-> r, from |-> actual, until |-> until, recorded |-> hour,
                 ready |-> room[r].ready, arrival |-> arrival, asked |-> {}, leaving |-> FALSE]
<1>1. ProtectExistingClaims(r, i, {}, holds) /\ stay' = [stay EXCEPT ![s] = y]
  BY DEF Enter, Available
<1>2. /\ y.state = "ACTIVE" /\ y.room = r /\ y.from = actual /\ y.until = until
      /\ i.from = actual /\ i.until = until
  OBVIOUS
<1> HIDE DEF y, i
<1>3. stay'[s] = y /\ \A t \in Stays : t # s => stay'[t] = stay[t]
  BY <1>1, InvParts
<1>4. StayInterval(s)'.from = i.from /\ StayInterval(s)'.until = i.until
  <2>1. until \in Nat /\ hour \in Nat
    BY RoomNumbers, RoomStayAssumption DEF Later
  <2> QED
    BY <1>2, <1>3, <2>1 DEF StayInterval, Greater
<1>5. ASSUME NEW q \in Rooms, NEW j \in RoomIntervals(q, {})', NEW x \in Claims, Overlap(claim[x], j)
      PROVE  (\E k \in RoomIntervals(q, {}) : Overlap(claim[x], k)) \/ (q = r /\ Overlap(claim[x], i))
  <2>1. CASE \E t \in Stays : stay'[t].state # "NONE" /\ stay'[t].room = q /\ j = StayInterval(t)'
    <3>1. PICK t \in Stays : stay'[t].state # "NONE" /\ stay'[t].room = q /\ j = StayInterval(t)'
      BY <2>1
    <3>2. CASE t = s
      <4>1. q = r
        BY <1>2, <1>3, <3>1, <3>2
      <4>2. Overlap(claim[x], i)
        BY <1>4, <1>5, <3>1, <3>2 DEF Overlap
      <4> QED
        BY <4>1, <4>2
    <3>3. CASE t # s
      <4>1. stay[t].state # "NONE" /\ stay[t].room = q /\ StayInterval(t)' = StayInterval(t)
        BY <1>3, <3>1, <3>3 DEF StayInterval
      <4>2. j \in RoomIntervals(q, {})
        BY <3>1, <4>1, IntervalsNow
      <4> QED
        BY <1>5, <4>2
    <3> QED
      BY <3>2, <3>3
  <2>2. CASE \E b \in Bookings : reserved'[b].state = "CONFIRMED" /\ reserved'[b].room = q /\ j = reserved'[b]
    <3>1. j \in RoomIntervals(q, {})
      BY <2>2, IntervalsNow
    <3> QED
      BY <1>5, <3>1
  <2> QED
    BY <2>1, <2>2, IntervalsNext
<1>6. ASSUME NEW x \in Open' \ E PROVE BusyKept(x)
  <2>1. x \in Claims /\ claim[x].cat # room[r].cat
    BY FreeRoomsNext
  <2> QED
    BY <1>5, <2>1 DEF BusyKept
<1>7. E \in SUBSET Claims /\ \A x \in E : claim[x].cat = room[r].cat
  OBVIOUS
<1>8. TakesOnly(E, r, i, {}) /\ OthersUndisturbed(E)
  BY <1>5, <1>6, <1>7 DEF TakesOnly, OthersUndisturbed
<1> HIDE DEF E
<1> QED
  BY <1>1, <1>7, <1>8, Protected

LEMMA ReserveSeats ==
    ASSUME RoomInv, Assignable, RoomsKept, NEW b \in Bookings, NEW r \in Rooms, NEW i \in Intervals,
           ReserveRoom(b, r, i)
    PROVE  Assignable'
<1> DEFINE E == {x \in Claims : claim[x].cat = room[r].cat}
           y == [state |-> "CONFIRMED", room |-> r, from |-> i.from, until |-> i.until]
<1>1. /\ ProtectExistingClaims(r, i, {}, {}) /\ reserved' = [reserved EXCEPT ![b] = y]
      /\ hour' = hour /\ stay' = stay /\ claim' = claim
  BY DEF ReserveRoom, Available
<1>2. y.room = r /\ y.from = i.from /\ y.until = i.until
  OBVIOUS
<1> HIDE DEF y
<1>3. reserved'[b] = y /\ \A c \in Bookings : c # b => reserved'[c] = reserved[c]
  BY <1>1, InvParts
<1>4. ClaimsKept
  BY <1>1, InvParts, ClaimsShrink DEF SameClaim
<1>5. ASSUME NEW q \in Rooms, NEW j \in RoomIntervals(q, {})', NEW x \in Claims, Overlap(claim[x], j)
      PROVE  (\E k \in RoomIntervals(q, {}) : Overlap(claim[x], k)) \/ (q = r /\ Overlap(claim[x], i))
  <2>1. CASE \E t \in Stays : stay'[t].state # "NONE" /\ stay'[t].room = q /\ j = StayInterval(t)'
    <3>1. PICK t \in Stays : stay'[t].state # "NONE" /\ stay'[t].room = q /\ j = StayInterval(t)'
      BY <2>1
    <3>2. stay[t].state # "NONE" /\ stay[t].room = q /\ StayInterval(t)' = StayInterval(t)
      BY <1>1, <3>1 DEF StayInterval
    <3>3. j \in RoomIntervals(q, {})
      BY <3>1, <3>2, IntervalsNow
    <3> QED
      BY <1>5, <3>3
  <2>2. CASE \E c \in Bookings : reserved'[c].state = "CONFIRMED" /\ reserved'[c].room = q /\ j = reserved'[c]
    <3>1. PICK c \in Bookings : reserved'[c].state = "CONFIRMED" /\ reserved'[c].room = q /\ j = reserved'[c]
      BY <2>2
    <3>2. CASE c = b
      <4>1. q = r
        BY <1>2, <1>3, <3>1, <3>2
      <4>2. Overlap(claim[x], i)
        BY <1>2, <1>3, <1>5, <3>1, <3>2 DEF Overlap
      <4> QED
        BY <4>1, <4>2
    <3>3. CASE c # b
      <4>1. j \in RoomIntervals(q, {})
        BY <1>3, <3>1, <3>3, IntervalsNow
      <4> QED
        BY <1>5, <4>1
    <3> QED
      BY <3>2, <3>3
  <2> QED
    BY <2>1, <2>2, IntervalsNext
<1>6. ASSUME NEW x \in Open' \ E PROVE BusyKept(x)
  <2>1. x \in Claims /\ claim[x].cat # room[r].cat
    BY FreeRoomsNext
  <2> QED
    BY <1>5, <2>1 DEF BusyKept
<1>7. E \in SUBSET Claims /\ \A x \in E : claim[x].cat = room[r].cat
  OBVIOUS
<1>8. TakesOnly(E, r, i, {}) /\ OthersUndisturbed(E)
  BY <1>5, <1>6, <1>7 DEF TakesOnly, OthersUndisturbed
<1> DEFINE none == {}
<1>9. ProtectExistingClaims(r, i, none, none) /\ \A x \in Open' : x \notin none
  BY <1>1
<1> HIDE DEF E
<1> QED
  BY <1>1, <1>4, <1>7, <1>8, <1>9, Protected

LEMMA HoldSeats ==
    ASSUME RoomInv, Assignable, RoomsKept, NEW x \in Claims, NEW c \in Categories, NEW i \in Intervals,
           CreateHold(x, c, i)
    PROVE  Assignable'
<1> DEFINE y == [state |-> "ACTIVE", cat |-> c, from |-> i.from, until |-> i.until, upgrade |-> {}]
           rivals == {z \in Outstanding(c) : Overlap(i, claim[z])}
           free == {r \in Rooms : room[r].cat = c /\ Eligible(r) /\ \A b \in RoomIntervals(r, {}) : ~Overlap(i, b)}
           E == {x}
<1>1. /\ claim[x].state = "NONE" /\ claim' = [claim EXCEPT ![x] = y]
      /\ hour' = hour /\ stay' = stay /\ reserved' = reserved
  BY DEF CreateHold
<1>2. Cardinality(rivals) < Cardinality(free)
  <2>1. RequireCapacity(i, c, {})
    BY DEF CreateHold
  <2>2. UnassignedCapacity(i, c, [r \in Rooms |-> RoomIntervals(r, {})], Outstanding(c) \ {})
    BY <2>1 DEF RequireCapacity
  <2>3. /\ rivals = {z \in Outstanding(c) \ {} : Overlap(i, claim[z])}
        /\ free = {r \in Rooms : /\ room[r].cat = c /\ Eligible(r)
                                 /\ \A b \in [q \in Rooms |-> RoomIntervals(q, {})][r] : ~Overlap(i, b)}
    OBVIOUS
  <2> HIDE DEF rivals, free
  <2> QED
    BY <2>2, <2>3 DEF UnassignedCapacity
<1>3. y.cat = c /\ y.from = i.from /\ y.until = i.until
  OBVIOUS
<1> HIDE DEF y
<1>4. claim'[x] = y /\ \A z \in Claims : z # x => claim'[z] = claim[z]
  BY <1>1, InvParts
<1>5. \A r \in Rooms : RoomIntervals(r, {})' = RoomIntervals(r, {})
  BY <1>1 DEF RoomIntervals, Reservations, StayInterval
<1>6. ASSUME NEW z \in Open' \ {x}
      PROVE  /\ z \in Open /\ Free[z] \subseteq Free'[z]
             /\ claim'[z].from = claim[z].from /\ claim'[z].until = claim[z].until
  <2>1. z \in Claims /\ claim'[z] = claim[z] /\ SameClaim(z)
    BY <1>4, FreeRoomsNext DEF SameClaim
  <2>2. BusyKept(z)
    BY <1>5 DEF BusyKept
  <2>3. Free[z] \subseteq Free'[z]
    BY <2>1, <2>2, FreeGrows
  <2>4. z \in Open
    <3>1. PICK d \in Categories : claim'[z].state \in {"ACTIVE", "CONFIRMED"} /\ claim'[z].cat = d
      BY DEF Open, Outstanding
    <3> QED
      BY <2>1, <3>1 DEF Open, Outstanding
  <2> QED
    BY <2>1, <2>3, <2>4
<1>7. Cardinality(Rivals(x)') < Cardinality(Free'[x])
  <2>1. Rivals(x)' \subseteq rivals
    <3> SUFFICES ASSUME NEW z \in Rivals(x)' PROVE z \in rivals
      OBVIOUS
    <3>1. z \in Open' /\ z # x /\ claim'[z].cat = claim'[x].cat /\ Overlap(claim'[x], claim'[z])
      BY DEF Rivals, Overlap
    <3>2. z \in Claims /\ claim'[z] = claim[z] /\ claim'[z].state \in {"ACTIVE", "CONFIRMED"}
      BY <1>4, <3>1, FreeRoomsNext DEF Open, Outstanding
    <3>3. Overlap(i, claim[z])
      BY <1>3, <1>4, <3>1, <3>2 DEF Overlap
    <3>4. z \in Outstanding(c)
      BY <1>3, <1>4, <3>1, <3>2 DEF Outstanding
    <3> QED
      BY <3>3, <3>4
  <2>2. free \subseteq Free'[x]
    <3> SUFFICES ASSUME NEW r \in free PROVE r \in Free'[x]
      OBVIOUS
    <3>1. r \in Rooms /\ room[r].cat = c /\ Eligible(r) /\ \A b \in RoomIntervals(r, {}) : ~Overlap(i, b)
      OBVIOUS
    <3>2. room'[r].cat = claim'[x].cat /\ (Eligible(r))'
      BY <1>3, <1>4, <3>1 DEF RoomsKept
    <3>3. \A b \in RoomIntervals(r, {})' : ~Overlap(claim'[x], b)
      BY <1>3, <1>4, <1>5, <3>1 DEF Overlap
    <3>4. r \in {p \in Rooms : /\ room'[p].cat = claim'[x].cat /\ (Eligible(p))'
                               /\ \A j \in RoomIntervals(p, {})' : ~Overlap(claim'[x], j)}
      BY <3>1, <3>2, <3>3
    <3> QED
      BY <3>4 DEF Free, Overlap
  <2>3. /\ rivals \subseteq Claims /\ Free'[x] \subseteq Rooms
        /\ IsFiniteSet(Claims) /\ IsFiniteSet(Rooms)
    BY FreeRoomsNext, RoomStayAssumption DEF Outstanding
  <2> HIDE DEF rivals, free
  <2>4. IsFiniteSet(rivals) /\ IsFiniteSet(Free'[x])
    BY <2>3, FS_Subset
  <2>5. IsFiniteSet(Rivals(x)') /\ Cardinality(Rivals(x)') <= Cardinality(rivals)
    BY <2>1, <2>4, FS_Subset
  <2>6. IsFiniteSet(free) /\ Cardinality(free) <= Cardinality(Free'[x])
    BY <2>2, <2>4, FS_Subset
  <2>7. /\ Cardinality(rivals) \in Nat /\ Cardinality(Free'[x]) \in Nat
        /\ Cardinality(Rivals(x)') \in Nat /\ Cardinality(free) \in Nat
    BY <2>4, <2>5, <2>6, FS_CardinalityType
  <2> QED
    BY <1>2, <2>5, <2>6, <2>7
<1>8. /\ \A z \in Open' \ E : /\ z \in Open /\ Free[z] \subseteq Free'[z]
                              /\ claim'[z].from = claim[z].from /\ claim'[z].until = claim[z].until
      /\ \A z \in E \cap Open' : Cardinality(Rivals(z)') < Cardinality(Free'[z])
  BY <1>6, <1>7
<1> HIDE DEF E
<1> QED
  BY <1>8, Reseat

\* No claim ends before it begins.
ClaimsFit == \A x \in Claims : claim[x].from <= claim[x].until

\* An approved amendment.  The check looks at the stay as booked although an overdue
\* guest is counted until now; but a claim that begins after the booked end had the
\* guest in its way already, so only the earlier claims have to be seated again.
LEMMA AmendSeats ==
    ASSUME RoomInv, ClaimsFit, Assignable, RoomsKept, NEW s \in Stays, DecideAmendment(s, TRUE)
    PROVE  Assignable'
<1>1. PICK n \in stay[s].asked :
         /\ ValidAmendment(s, n)
         /\ stay' = [stay EXCEPT ![s] = [stay[s] EXCEPT !.asked = {}, !.from = n]]
  BY DEF DecideAmendment
<1> DEFINE r == stay[s].room
           i == [from |-> n, until |-> stay[s].until]
           y == [stay[s] EXCEPT !.asked = {}, !.from = n]
           E == {x \in Claims : claim[x].cat = room[r].cat /\ claim[x].from < stay[s].until + Buffer}
           without == {s}
           none == {}
<1>2. /\ stay[s].state = "ACTIVE" /\ hour' = hour /\ claim' = claim /\ reserved' = reserved
  BY DEF DecideAmendment, Amendable
<1>3. stay[s] \in StayRow /\ r \in Rooms /\ stay' = [stay EXCEPT ![s] = y]
  BY <1>1, InvParts, RoomNumbers
<1>4. n \in Nat
  BY <1>3, RoomStayAssumption DEF StayRow, Times
<1>5. /\ y.state = stay[s].state /\ y.room = r /\ y.from = n /\ y.until = stay[s].until
      /\ i.from = n /\ i.until = stay[s].until
  BY <1>3 DEF StayRow
<1>6. ProtectExistingClaims(r, i, without, none)
  BY <1>1 DEF ValidAmendment
<1> HIDE DEF y, i
<1>7. stay'[s] = y /\ \A t \in Stays : t # s => stay'[t] = stay[t]
  BY <1>3, InvParts
<1> HIDE DEF r, without, none
<1>8. ClaimsKept
  BY <1>2, InvParts, ClaimsShrink DEF SameClaim
<1>9. /\ StayInterval(s)'.from = n /\ StayInterval(s)'.until = StayInterval(s).until
      /\ StayInterval(s).from = stay[s].from /\ StayInterval(s).until \in Nat
  BY <1>2, <1>5, <1>7, RoomNumbers DEF StayInterval, Greater
<1>10. ASSUME NEW q \in Rooms, NEW j \in RoomIntervals(q, {})', NEW x \in Claims, Overlap(claim[x], j)
       PROVE  \/ \E k \in RoomIntervals(q, without) : Overlap(claim[x], k)
              \/ q = r /\ j = StayInterval(s)'
  <2>1. CASE \E t \in Stays : stay'[t].state # "NONE" /\ stay'[t].room = q /\ j = StayInterval(t)'
    <3>1. PICK t \in Stays : stay'[t].state # "NONE" /\ stay'[t].room = q /\ j = StayInterval(t)'
      BY <2>1
    <3>2. CASE t = s
      BY <1>5, <1>7, <3>1, <3>2
    <3>3. CASE t # s
      <4>1. stay[t].state # "NONE" /\ stay[t].room = q /\ StayInterval(t)' = StayInterval(t)
        BY <1>2, <1>7, <3>1, <3>3 DEF StayInterval
      <4>2. t \in Stays \ without
        BY <3>3 DEF without
      <4>3. j \in RoomIntervals(q, without)
        BY <3>1, <4>1, <4>2, IntervalsNow
      <4> QED
        BY <1>10, <4>3
    <3> QED
      BY <3>2, <3>3
  <2>2. CASE \E b \in Bookings : reserved'[b].state = "CONFIRMED" /\ reserved'[b].room = q /\ j = reserved'[b]
    <3>1. j \in RoomIntervals(q, without)
      BY <1>2, <2>2, IntervalsNow
    <3> QED
      BY <1>10, <3>1
  <2> QED
    BY <2>1, <2>2, IntervalsNext
<1>11. ASSUME NEW x \in E, NEW q \in Rooms, NEW j \in RoomIntervals(q, {})', Overlap(claim[x], j)
       PROVE  \/ \E k \in RoomIntervals(q, without) : Overlap(claim[x], k)
              \/ q = r /\ Overlap(claim[x], i)
  <2>1. x \in Claims /\ claim[x].from < stay[s].until + Buffer
    OBVIOUS
  <2>2. CASE q = r /\ j = StayInterval(s)'
    <3>1. Overlap(claim[x], i)
      BY <1>5, <1>9, <1>11, <2>1, <2>2 DEF Overlap
    <3> QED
      BY <2>2, <3>1
  <2> QED
    BY <1>10, <1>11, <2>1, <2>2
<1>12. ASSUME NEW x \in Open' \ E PROVE BusyKept(x)
  <2> SUFFICES ASSUME NEW q \in Rooms, room[q].cat = claim[x].cat, NEW j \in RoomIntervals(q, {})',
                      Overlap(claim[x], j)
               PROVE  \E k \in RoomIntervals(q, {}) : Overlap(claim[x], k)
    BY DEF BusyKept
  <2>1. x \in Claims
    BY FreeRoomsNext
  <2>2. CASE \E k \in RoomIntervals(q, without) : Overlap(claim[x], k)
    <3>1. RoomIntervals(q, without) \subseteq RoomIntervals(q, {})
      BY DEF RoomIntervals
    <3> QED
      BY <2>2, <3>1
  <2>3. CASE q = r /\ j = StayInterval(s)'
    <3>1. ~(claim[x].from < stay[s].until + Buffer)
      BY <2>1, <2>3
    <3>2. claim[x].from <= claim[x].until
      BY <2>1 DEF ClaimsFit
    <3>3. stay[s].from <= stay[s].recorded /\ stay[s].recorded < stay[s].until
      BY <1>2, InvParts DEF StaysFit
    <3>4. claim[x].from < StayInterval(s).until + Buffer
      BY <1>9, <2>3 DEF Overlap
    <3>5. stay[s].from < claim[x].until + Buffer
      BY <2>1, <3>1, <3>2, <3>3, RoomNumbers
    <3>6. Overlap(claim[x], StayInterval(s))
      BY <1>9, <3>4, <3>5 DEF Overlap
    <3>7. StayInterval(s) \in RoomIntervals(q, {})
      BY <1>2, <2>3, IntervalsNow DEF r
    <3> QED
      BY <3>6, <3>7
  <2> QED
    BY <1>10, <2>1, <2>2, <2>3
<1>13. E \in SUBSET Claims /\ \A x \in E : claim[x].cat = room[r].cat
  OBVIOUS
<1>14. \A x \in Open' : x \notin none
  BY DEF none
<1> HIDE DEF E
<1>15. TakesOnly(E, r, i, without) /\ OthersUndisturbed(E)
  BY <1>11, <1>12 DEF TakesOnly, OthersUndisturbed
<1> QED
  BY <1>3, <1>6, <1>8, <1>13, <1>14, <1>15, Protected

LEMMA ClaimsFitInit == RoomInit => ClaimsFit
  BY RoomStayAssumption DEF RoomInit, ClaimsFit

LEMMA ClaimsFitStep == RoomInv /\ ClaimsFit /\ [RoomNext]_roomVars => ClaimsFit'
<1> SUFFICES ASSUME RoomInv, ClaimsFit, [RoomNext]_roomVars PROVE ClaimsFit'
  OBVIOUS
<1>1. CASE claim' = claim
  BY <1>1 DEF ClaimsFit
<1>2. ASSUME NEW x \in Claims, claim' = [claim EXCEPT ![x] = GoneClaim] PROVE ClaimsFit'
  BY <1>2, InvParts DEF ClaimsFit, GoneClaim
<1>3. ASSUME NEW x \in Claims, NEW c \in Categories, NEW i \in Intervals, CreateHold(x, c, i) PROVE ClaimsFit'
  <2>1. claim' = [claim EXCEPT ![x] = [state |-> "ACTIVE", cat |-> c, from |-> i.from, until |-> i.until, upgrade |-> {}]]
    BY <1>3 DEF CreateHold
  <2>2. i.from <= i.until
    BY IntervalBounds
  <2> QED
    BY <2>1, <2>2, InvParts DEF ClaimsFit
<1>4. ASSUME NEW x \in Claims, ApplyCapture(x) PROVE ClaimsFit'
  <2>1. claim[x] \in ClaimRow /\ claim[x].from <= claim[x].until
    BY InvParts DEF ClaimsFit
  <2>2. \/ claim' = [claim EXCEPT ![x] = [claim[x] EXCEPT !.state = "CONFIRMED"]]
        \/ claim' = [claim EXCEPT ![x] = GoneClaim]
    BY <1>4 DEF ApplyCapture
  <2>3. CASE claim' = [claim EXCEPT ![x] = [claim[x] EXCEPT !.state = "CONFIRMED"]]
    BY <2>1, <2>3, InvParts, ClaimEdits DEF ClaimsFit
  <2> QED
    BY <1>2, <2>2, <2>3
<1>5. ASSUME NEW x \in Claims, NEW r \in Rooms, Upgrade(x, r) PROVE ClaimsFit'
  <2>1. claim[x] \in ClaimRow /\ claim[x].from <= claim[x].until
    BY InvParts DEF ClaimsFit
  <2>2. claim' = [claim EXCEPT ![x] = [claim[x] EXCEPT !.upgrade = {r}]]
    BY <1>5 DEF Upgrade
  <2> QED
    BY <2>1, <2>2, InvParts, ClaimEdits DEF ClaimsFit
<1>6. ASSUME NEW x \in Claims, ReleaseClaim(x) \/ HotelCancels(x) PROVE ClaimsFit'
  BY <1>2, <1>6 DEF ReleaseClaim, HotelCancels
<1>7. ASSUME NEW s \in Stays, NEW x \in Claims, NEW r \in Rooms, NEW a \in Times, CheckInClaim(s, x, r, a)
      PROVE  ClaimsFit'
  BY <1>2, <1>7 DEF CheckInClaim
<1>8. CASE UNCHANGED roomVars
  BY <1>1, <1>8 DEF roomVars
<1>9. ASSUME NEW b \in Bookings, NEW r \in Rooms, NEW i \in Intervals, ReserveRoom(b, r, i) PROVE ClaimsFit'
  BY <1>1, <1>9 DEF ReserveRoom
<1>10. ASSUME NEW s \in Stays, NEW r \in Rooms, NEW a \in Times, NEW n \in 1 .. MaxNights, WalkIn(s, r, a, n)
       PROVE  ClaimsFit'
  BY <1>1, <1>10 DEF WalkIn
<1>11. ASSUME NEW s \in Stays, NEW b \in Bookings, NEW a \in Times, CheckInBooking(s, b, a) PROVE ClaimsFit'
  BY <1>1, <1>11 DEF CheckInBooking
<1>12. ASSUME NEW s \in Stays, NEW a \in Times, RequestAmendment(s, a) PROVE ClaimsFit'
  BY <1>1, <1>12 DEF RequestAmendment
<1>13. ASSUME NEW s \in Stays, NEW approve \in BOOLEAN, DecideAmendment(s, approve) PROVE ClaimsFit'
  BY <1>1, <1>13 DEF DecideAmendment
<1>14. ASSUME NEW s \in Stays, InitiateCheckout(s) \/ Checkout(s) PROVE ClaimsFit'
  BY <1>1, <1>14 DEF InitiateCheckout, Checkout
<1>15. ASSUME NEW r \in Rooms,
              \/ RequestCleaning(r) \/ ClaimCleaning(r) \/ StartCleaning(r) \/ PostCleaning(r) \/ ManagerCleans(r)
       PROVE  ClaimsFit'
  BY <1>1, <1>15 DEF RequestCleaning, ClaimCleaning, StartCleaning, PostCleaning, ManagerCleans
<1>16. ASSUME NEW r \in Rooms, DeactivateRoom(r) \/ ReactivateRoom(r) PROVE ClaimsFit'
  BY <1>1, <1>16 DEF DeactivateRoom, ReactivateRoom, Edit
<1>17. ASSUME NEW r \in Rooms, NEW c \in Categories, ReassignCategory(r, c) PROVE ClaimsFit'
  BY <1>1, <1>17 DEF ReassignCategory, Edit
<1>18. ASSUME NEW c \in Categories, DeactivateCategory(c) \/ ReactivateCategory(c) PROVE ClaimsFit'
  BY <1>1, <1>18 DEF DeactivateCategory, ReactivateCategory, Edit
<1>19. CASE PackageGrows \/ ClockTicks
  BY <1>1, <1>19 DEF PackageGrows, ClockTicks
<1> QED
  BY <1>3, <1>4, <1>5, <1>6, <1>7, <1>8, <1>9, <1>10, <1>11, <1>12, <1>13, <1>14, <1>15, <1>16, <1>17, <1>18, <1>19
     DEF RoomNext

LEMMA ClaimsFitAlways == RoomSpec => []ClaimsFit
  BY ClaimsFitInit, ClaimsFitStep, RoomSafe, PTL DEF RoomSpec

LEMMA GoneSeats ==
    ASSUME RoomInv, RoomInv', NEW x \in Claims, claim' = [claim EXCEPT ![x] = GoneClaim]
    PROVE  ClaimsKept /\ x \notin Open'
<1>1. claim'[x].state = "GONE" /\ \A z \in Claims : z # x => claim'[z] = claim[z]
  BY InvParts, ClaimEdits
<1>2. \A z \in Claims : claim'[z].state \in {"ACTIVE", "CONFIRMED"} =>
         claim[z].state \in {"ACTIVE", "CONFIRMED"} /\ SameClaim(z)
  BY <1>1 DEF SameClaim
<1>3. ClaimsKept
  BY <1>2, InvParts, ClaimsShrink
<1>4. x \notin Open'
  BY <1>1 DEF Open, Outstanding
<1> QED
  BY <1>3, <1>4

\* Any command, while the clock stands and no room is withdrawn.
LEMMA SeatsStep ==
    ASSUME RoomInv, RoomInv', ClaimsFit, RoomNext, Assignable, hour' = hour, RoomsKept
    PROVE  Assignable'
<1>0. claim' = claim => ClaimsKept
  BY InvParts, ClaimsShrink DEF SameClaim
<1>1. CASE stay' = stay /\ reserved' = reserved /\ claim' = claim
  BY <1>0, <1>1, QuietClaims
<1>2. ASSUME NEW x \in Claims, NEW c \in Categories, NEW i \in Intervals, CreateHold(x, c, i) PROVE Assignable'
  BY <1>2, HoldSeats
<1>3. ASSUME NEW x \in Claims, claim' = [claim EXCEPT ![x] = GoneClaim], stay' = stay, reserved' = reserved
      PROVE  Assignable'
  <2>1. ClaimsKept
    BY <1>3, GoneSeats
  <2> QED
    BY <1>3, <2>1, QuietClaims
<1>4. ASSUME NEW x \in Claims, ApplyCapture(x) PROVE Assignable'
  <2>1. claim[x] \in ClaimRow /\ stay' = stay /\ reserved' = reserved /\ claim[x].state = "ACTIVE"
    BY <1>4, InvParts DEF ApplyCapture
  <2>2. \/ claim' = [claim EXCEPT ![x] = [claim[x] EXCEPT !.state = "CONFIRMED"]]
        \/ claim' = [claim EXCEPT ![x] = GoneClaim]
    BY <1>4 DEF ApplyCapture
  <2>3. CASE claim' = [claim EXCEPT ![x] = [claim[x] EXCEPT !.state = "CONFIRMED"]]
    <3>1. \A z \in Claims : claim'[z].state \in {"ACTIVE", "CONFIRMED"} =>
             claim[z].state \in {"ACTIVE", "CONFIRMED"} /\ SameClaim(z)
      BY <2>1, <2>3, InvParts, ClaimEdits DEF SameClaim
    <3>2. ClaimsKept
      BY <3>1, InvParts, ClaimsShrink
    <3> QED
      BY <2>1, <3>2, QuietClaims
  <2>4. CASE claim' = [claim EXCEPT ![x] = GoneClaim]
    BY <1>3, <2>1, <2>4
  <2> QED
    BY <2>2, <2>3, <2>4
<1>5. ASSUME NEW x \in Claims, ReleaseClaim(x) \/ HotelCancels(x) PROVE Assignable'
  BY <1>3, <1>5 DEF ReleaseClaim, HotelCancels
<1>6. ASSUME NEW x \in Claims, NEW r \in Rooms, Upgrade(x, r) PROVE Assignable'
  <2>1. claim[x] \in ClaimRow
    BY InvParts
  <2>2. /\ claim' = [claim EXCEPT ![x] = [claim[x] EXCEPT !.upgrade = {r}]]
        /\ stay' = stay /\ reserved' = reserved
    BY <1>6 DEF Upgrade
  <2>3. \A z \in Claims : claim'[z].state \in {"ACTIVE", "CONFIRMED"} =>
           claim[z].state \in {"ACTIVE", "CONFIRMED"} /\ SameClaim(z)
    BY <2>1, <2>2, InvParts, ClaimEdits DEF SameClaim
  <2>4. ClaimsKept
    BY <2>3, InvParts, ClaimsShrink
  <2> QED
    BY <2>2, <2>4, QuietClaims
<1>7. ASSUME NEW b \in Bookings, NEW r \in Rooms, NEW i \in Intervals, ReserveRoom(b, r, i) PROVE Assignable'
  BY <1>7, ReserveSeats
<1>8. ASSUME NEW s \in Stays, NEW r \in Rooms, NEW a \in Times, NEW n \in 1 .. MaxNights, WalkIn(s, r, a, n)
      PROVE  Assignable'
  <2> DEFINE until == a + n
             none == {}
             zero == 0
  <2>1. /\ until > hour /\ Enter(s, r, a, until, zero, none, none) /\ claim' = claim /\ reserved' = reserved
    BY <1>8 DEF WalkIn
  <2>2. until \in Later /\ zero \in Later
    BY RoomNumbers DEF Times, Later
  <2>3. \A x \in Open' : x \notin none
    OBVIOUS
  <2> HIDE DEF until, none, zero
  <2>4. \A b \in Bookings : reserved'[b].state = "CONFIRMED" => reserved'[b] = reserved[b]
    BY <2>1
  <2>5. ClaimsKept
    BY <1>0, <2>1
  <2> QED
    BY <2>1, <2>2, <2>3, <2>4, <2>5, EnterSeats
<1>9. ASSUME NEW s \in Stays, NEW b \in Bookings, NEW a \in Times, CheckInBooking(s, b, a) PROVE Assignable'
  <2> DEFINE r == reserved[b].room
             until == reserved[b].until
             arrival == reserved[b].from
             own == {b}
             none == {}
             y == [reserved[b] EXCEPT !.state = "CONSUMED", !.from = 0, !.until = 0]
  <2>1. /\ hour < until /\ Enter(s, r, a, until, arrival, own, none) /\ claim' = claim
        /\ reserved' = [reserved EXCEPT ![b] = y]
    BY <1>9 DEF CheckInBooking
  <2>2. /\ r \in Rooms /\ until \in Later /\ arrival \in Later /\ until > hour
    <3>1. reserved[b] \in ReservedRow
      BY RoomNumbers
    <3> QED
      BY <2>1, <3>1, RoomNumbers DEF ReservedRow
  <2>3. \A x \in Open' : x \notin none
    OBVIOUS
  <2>4. y.state = "CONSUMED"
    BY RoomNumbers DEF ReservedRow
  <2> HIDE DEF r, until, arrival, own, none, y
  <2>5. \A c \in Bookings : reserved'[c].state = "CONFIRMED" => reserved'[c] = reserved[c]
    BY <2>1, <2>4, InvParts
  <2>6. ClaimsKept
    BY <1>0, <2>1
  <2> QED
    BY <2>1, <2>2, <2>3, <2>5, <2>6, EnterSeats
<1>10. ASSUME NEW s \in Stays, NEW x \in Claims, NEW r \in Rooms, NEW a \in Times, CheckInClaim(s, x, r, a)
       PROVE  Assignable'
  <2> DEFINE until == claim[x].until
             arrival == claim[x].from
             own == {}
             holds == {x}
  <2>1. /\ hour < until /\ Enter(s, r, a, until, arrival, own, holds) /\ reserved' = reserved
        /\ claim' = [claim EXCEPT ![x] = GoneClaim]
    BY <1>10 DEF CheckInClaim
  <2>2. until \in Later /\ arrival \in Later /\ until > hour
    <3>1. claim[x] \in ClaimRow
      BY RoomNumbers
    <3> QED
      BY <2>1, <3>1, RoomNumbers DEF ClaimRow
  <2>3. ClaimsKept /\ \A z \in Open' : z \notin holds
    BY <2>1, GoneSeats
  <2>4. \A b \in Bookings : reserved'[b].state = "CONFIRMED" => reserved'[b] = reserved[b]
    BY <2>1
  <2> HIDE DEF until, arrival, own, holds
  <2> QED
    BY <2>1, <2>2, <2>3, <2>4, EnterSeats
<1>11. ASSUME reserved' = reserved, claim' = claim,
              \A t \in Stays : /\ stay'[t].state = stay[t].state /\ stay'[t].room = stay[t].room
                               /\ stay'[t].from = stay[t].from /\ stay'[t].until = stay[t].until
       PROVE  Assignable'
  <2>1. \A t \in Stays : stay'[t].state # "NONE" =>
           /\ stay[t].state # "NONE" /\ stay'[t].room = stay[t].room
           /\ StayInterval(t)'.from = StayInterval(t).from
           /\ StayInterval(t)'.until <= StayInterval(t).until
    <3>1. \A t \in Stays : StayInterval(t)' = StayInterval(t) /\ StayInterval(t).until \in Nat
      BY <1>11, RoomNumbers DEF StayInterval, Greater
    <3> QED
      BY <1>11, <3>1
  <2> QED
    BY <1>0, <1>11, <2>1, ShorterStays
<1>12. ASSUME NEW s \in Stays, NEW a \in Times, RequestAmendment(s, a) PROVE Assignable'
  <2>1. /\ reserved' = reserved /\ claim' = claim /\ stay' = [stay EXCEPT ![s] = [stay[s] EXCEPT !.asked = {a}]]
    BY <1>12 DEF RequestAmendment
  <2>2. stay[s] \in StayRow
    BY InvParts
  <2>3. \A t \in Stays : /\ stay'[t].state = stay[t].state /\ stay'[t].room = stay[t].room
                         /\ stay'[t].from = stay[t].from /\ stay'[t].until = stay[t].until
    BY <2>1, <2>2, InvParts DEF StayRow
  <2> QED
    BY <1>11, <2>1, <2>3
<1>13. ASSUME NEW s \in Stays, NEW approve \in BOOLEAN, DecideAmendment(s, approve) PROVE Assignable'
  <2>1. CASE approve = TRUE
    <3>1. DecideAmendment(s, TRUE)
      BY <1>13, <2>1
    <3> QED
      BY <3>1, AmendSeats
  <2>2. CASE approve = FALSE
    <3>1. DecideAmendment(s, FALSE)
      BY <1>13, <2>2
    <3>2. /\ reserved' = reserved /\ claim' = claim
          /\ stay' = [stay EXCEPT ![s] = [stay[s] EXCEPT !.asked = {}, !.from = stay[s].from]]
      BY <3>1 DEF DecideAmendment
    <3>3. stay[s] \in StayRow
      BY InvParts
    <3>4. \A t \in Stays : /\ stay'[t].state = stay[t].state /\ stay'[t].room = stay[t].room
                           /\ stay'[t].from = stay[t].from /\ stay'[t].until = stay[t].until
      BY <3>2, <3>3, InvParts DEF StayRow
    <3> QED
      BY <1>11, <3>2, <3>4
  <2> QED
    BY <1>13, <2>1, <2>2
<1>14. ASSUME NEW s \in Stays, InitiateCheckout(s) PROVE Assignable'
  <2>1. /\ reserved' = reserved /\ claim' = claim /\ stay' = [stay EXCEPT ![s] = [stay[s] EXCEPT !.leaving = TRUE]]
    BY <1>14 DEF InitiateCheckout
  <2>2. stay[s] \in StayRow
    BY InvParts
  <2>3. \A t \in Stays : /\ stay'[t].state = stay[t].state /\ stay'[t].room = stay[t].room
                         /\ stay'[t].from = stay[t].from /\ stay'[t].until = stay[t].until
    BY <2>1, <2>2, InvParts DEF StayRow
  <2> QED
    BY <1>11, <2>1, <2>3
<1>15. ASSUME NEW s \in Stays, Checkout(s) PROVE Assignable'
  <2> DEFINE y == [stay[s] EXCEPT !.state = "CLOSED", !.until = hour, !.recorded = 0, !.ready = 0,
                                  !.arrival = 0, !.leaving = FALSE]
  <2>1. /\ reserved' = reserved /\ claim' = claim /\ stay[s].state = "ACTIVE"
        /\ stay' = [stay EXCEPT ![s] = y]
    BY <1>15 DEF Checkout, MayClose
  <2>2. stay[s] \in StayRow
    BY InvParts
  <2>3. y.state = "CLOSED" /\ y.room = stay[s].room /\ y.from = stay[s].from /\ y.until = hour
    BY <2>2 DEF StayRow
  <2> HIDE DEF y
  <2>4. stay'[s] = y /\ \A t \in Stays : t # s => stay'[t] = stay[t]
    BY <2>1, InvParts
  <2>5. \A t \in Stays \ {s} : StayInterval(t)' = StayInterval(t) /\ StayInterval(t).until \in Nat
    BY <2>4, RoomNumbers DEF StayInterval, Greater
  <2>6. /\ StayInterval(s)'.from = StayInterval(s).from
        /\ StayInterval(s)'.until <= StayInterval(s).until
    BY <2>1, <2>3, <2>4, RoomNumbers DEF StayInterval, Greater
  <2>7. \A t \in Stays : stay'[t].state # "NONE" =>
           /\ stay[t].state # "NONE" /\ stay'[t].room = stay[t].room
           /\ StayInterval(t)'.from = StayInterval(t).from
           /\ StayInterval(t)'.until <= StayInterval(t).until
    <3> SUFFICES ASSUME NEW t \in Stays, stay'[t].state # "NONE"
                 PROVE  /\ stay[t].state # "NONE" /\ stay'[t].room = stay[t].room
                        /\ StayInterval(t)'.from = StayInterval(t).from
                        /\ StayInterval(t)'.until <= StayInterval(t).until
      OBVIOUS
    <3>1. CASE t = s
      BY <2>1, <2>3, <2>4, <2>6, <3>1
    <3>2. CASE t # s
      BY <2>4, <2>5, <3>2
    <3> QED
      BY <3>1, <3>2
  <2> QED
    BY <1>0, <2>1, <2>7, ShorterStays
<1>16. ASSUME NEW r \in Rooms,
              \/ RequestCleaning(r) \/ ClaimCleaning(r) \/ StartCleaning(r) \/ PostCleaning(r) \/ ManagerCleans(r)
       PROVE  Assignable'
  BY <1>1, <1>16 DEF RequestCleaning, ClaimCleaning, StartCleaning, PostCleaning, ManagerCleans
<1>17. ASSUME NEW r \in Rooms, DeactivateRoom(r) \/ ReactivateRoom(r) PROVE Assignable'
  BY <1>1, <1>17 DEF DeactivateRoom, ReactivateRoom, Edit
<1>18. ASSUME NEW r \in Rooms, NEW c \in Categories, ReassignCategory(r, c) PROVE Assignable'
  BY <1>1, <1>18 DEF ReassignCategory, Edit
<1>19. ASSUME NEW c \in Categories, DeactivateCategory(c) \/ ReactivateCategory(c) PROVE Assignable'
  BY <1>1, <1>19 DEF DeactivateCategory, ReactivateCategory, Edit
<1>20. CASE PackageGrows
  BY <1>1, <1>20 DEF PackageGrows
<1>21. CASE ClockTicks
  <2>1. hour' = hour + 1
    BY <1>21 DEF ClockTicks
  <2> QED
    BY <2>1, RoomNumbers
<1> QED
  BY <1>2, <1>4, <1>5, <1>6, <1>7, <1>8, <1>9, <1>10, <1>12, <1>13, <1>14, <1>15, <1>16, <1>17, <1>18, <1>19,
     <1>20, <1>21 DEF RoomNext

\* Whoever takes a room or a promise, the claims of others can still be given rooms:
\* counting free rooms against overlapping claims, one claim at a time and over its
\* own interval, is enough (require_capacity, protect_existing_claims).
THEOREM ClaimsKeepTheirRooms == RoomSpec => ClaimsStayAssignable
<1> DEFINE Body == Assignable /\ hour' = hour /\ RoomsKept => Assignable'
<1>1. ASSUME RoomInv, RoomInv', ClaimsFit, RoomNext PROVE Body
  BY <1>1, SeatsStep
<1>2. RoomInv /\ RoomInv' /\ ClaimsFit /\ [RoomNext]_roomVars => [Body]_roomVars
  <2> HIDE DEF Body
  <2> QED
    BY <1>1
<1>3. Body <=> (/\ Assignable /\ hour' = hour
                /\ \A r \in Rooms : Eligible(r) => (Eligible(r))' /\ room'[r].cat = room[r].cat
                => Assignable')
  BY DEF RoomsKept
<1>4. ([][Body]_roomVars) => ClaimsStayAssignable
  BY <1>3, PTL DEF ClaimsStayAssignable
<1> HIDE DEF Body
<1> QED
  BY <1>2, <1>4, RoomSafe, ClaimsFitAlways, PTL DEF RoomSpec

=============================================================================
