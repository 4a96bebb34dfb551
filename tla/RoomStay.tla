------------------------------ MODULE RoomStay ------------------------------
(***************************************************************************)
(* The rooms of one hotel: categories and their retirement, readiness and  *)
(* cleaning, the promises made about rooms (category claims of the online  *)
(* booking, room reservations of the reception) and the stays that use     *)
(* them, from check-in over time amendments to checkout.                   *)
(*                                                                         *)
(* Every command below runs under the room-catalog lock of the hotel, so   *)
(* an action is a whole transaction.  What can go wrong lies between the   *)
(* transactions: each of them looks at the promises of the others through  *)
(* a count of one interval, and the clock runs on.                         *)
(*                                                                         *)
(* The payment of a hold (BookingPayment), the money of a stay             *)
(* (GuestMoney) and the minibar are left out: a claim is "ACTIVE" until    *)
(* its capture is applied and "CONFIRMED" afterwards.                      *)
(***************************************************************************)
EXTENDS Naturals, FiniteSets

CONSTANTS
    Rooms, Categories,
    Homes,         \* the categories the rooms may be created in
    New,           \* the rooms nobody has cleaned yet
    Rank,          \* booking_category_rank
    Stays,         \* bounds the stays of a behaviour
    Claims,        \* bounds the booking_hold rows
    Bookings,      \* bounds the reception_booking rows
    LastTime,      \* the clock stops here
    MaxNights,     \* longest stay or claim, in units of the clock
    Buffer,        \* cleaning_buffer_minutes, in units of the clock
    Backdate,      \* the 120 minutes of actual_time, in units of the clock
    MaxStarted     \* bounds the commands that begin something new

ASSUME RoomStayAssumption ==
    /\ IsFiniteSet(Rooms) /\ Rooms # {} /\ Categories # {} /\ IsFiniteSet(Claims)
    /\ Homes \subseteq [Rooms -> Categories] /\ New \subseteq Rooms /\ Rank \in [Categories -> Nat]
    /\ {LastTime, MaxNights, Buffer, Backdate, MaxStarted} \subseteq Nat

VARIABLES
    hour,      \* clock_timestamp()
    room,      \* prsystem.room, with the start of its readiness
    category,  \* room_category.status
    stay,      \* prsystem.stay with its amendment and checkout intent
    claim,     \* booking_hold with its application, cancellation, upgrade
    reserved,  \* room_reservation
    task,      \* the OPEN room_cleaning_request of a room and its task
    package,   \* hotel_access.package_mnt
    started    \* promises, stays, amendments, lifecycle and package changes begun so far

roomVars == <<hour, room, category, stay, claim, reserved, task, package, started>>

Times == 0 .. LastTime
NotReady == LastTime + 1
Later == 0 .. LastTime + MaxNights
NoInterval == [from |-> 0, until |-> 0]

RoomRow == [cat : Categories, status : {"ACTIVE", "RETIRING", "INACTIVE"},
            clean : {"DIRTY", "CLEANING", "CLEAN"}, ready : 0 .. NotReady]
StayRow == [state : {"NONE", "ACTIVE", "CLOSED"}, room : Rooms, from : Times, until : Later,
            recorded : Times, ready : Times, arrival : Later, asked : SUBSET Times, leaving : BOOLEAN]
ClaimRow == [state : {"NONE", "ACTIVE", "CONFIRMED", "GONE"}, cat : Categories,
             from : Later, until : Later, upgrade : SUBSET Rooms]
ReservedRow == [state : {"NONE", "CONFIRMED", "CONSUMED"}, room : Rooms, from : Later, until : Later]

-----------------------------------------------------------------------------
(* Intervals and capacity *)

Greater(a, b) == IF a >= b THEN a ELSE b
\* Half-open occupancy, each side followed by its own cleaning buffer.
Overlap(a, b) == a.from < b.until + Buffer /\ b.from < a.until + Buffer

Eligible(r) == room[r].status = "ACTIVE" /\ category[room[r].cat] = "ACTIVE"
Occupied(r) == \E s \in Stays : stay[s].state = "ACTIVE" /\ stay[s].room = r

StayInterval(s) ==
    [from |-> stay[s].from,
     until |-> IF stay[s].state = "ACTIVE" THEN Greater(stay[s].until, hour) ELSE stay[s].until]
Reservations(r, b) == {reserved[a] : a \in {a \in Bookings \ b : reserved[a].state = "CONFIRMED" /\ reserved[a].room = r}}
RoomIntervals(r, without) ==
    {StayInterval(s) : s \in {s \in Stays \ without : stay[s].state # "NONE" /\ stay[s].room = r}} \cup Reservations(r, {})

Outstanding(c) == {x \in Claims : claim[x].state \in {"ACTIVE", "CONFIRMED"} /\ claim[x].cat = c}

\* More rooms of c are free for the whole of i than claims overlap it.
UnassignedCapacity(i, c, busy, claims) ==
    Cardinality({x \in claims : Overlap(i, claim[x])})
      < Cardinality({r \in Rooms : room[r].cat = c /\ Eligible(r) /\ \A b \in busy[r] : ~Overlap(i, b)})

RequireCapacity(i, c, without) ==
    UnassignedCapacity(i, c, [r \in Rooms |-> RoomIntervals(r, {})], Outstanding(c) \ without)

\* The shortcut the comment of protect_existing_claims warns of.
ProtectOwnInterval(r, i, stays, holds) == RequireCapacity(i, room[r].cat, holds)
\* Every claim keeps its capacity, over its own interval, once r is taken for i.
ProtectExistingClaims(r, i, stays, holds) ==
    LET c == room[r].cat
        claims == Outstanding(c) \ holds
        busy == [q \in Rooms |-> RoomIntervals(q, stays) \cup IF q = r THEN {i} ELSE {}]
    IN \A x \in claims : UnassignedCapacity(claim[x], c, busy, claims \ {x})

\* A room that nobody lives in is taken to be promised to nobody.
AvailableIfEmpty(r, i, own, holds) ==
    /\ ~Occupied(r)
    /\ \A s \in Stays : stay[s].state = "CLOSED" /\ stay[s].room = r => ~Overlap(i, StayInterval(s))
    /\ ProtectExistingClaims(r, i, {}, holds)
Available(r, i, own, holds) ==
    /\ ~Occupied(r)
    /\ \A s \in Stays : stay[s].state = "CLOSED" /\ stay[s].room = r => ~Overlap(i, StayInterval(s))
    /\ \A b \in Reservations(r, own) : ~Overlap(i, b)
    /\ ProtectExistingClaims(r, i, {}, holds)

-----------------------------------------------------------------------------
(* Readiness and retirement.  The triggers of room and room_category keep  *)
(* the history of readiness; "ready" is the start of the unbroken run of   *)
(* CLEAN, ACTIVE, ACTIVE rows of the current category, which is all that   *)
(* _readiness asks of that history.                                        *)

IsReady(rs, cs, r) == rs[r].clean = "CLEAN" /\ rs[r].status = "ACTIVE" /\ cs[rs[r].cat] = "ACTIVE"
\* A trigger on room alone: a category that retires keeps its rooms ready.
PublishRooms(rs, cs) ==
    /\ category' = cs
    /\ room' = [r \in Rooms |->
         [rs[r] EXCEPT !.ready = IF rs[r].clean # "CLEAN" \/ rs[r].status # "ACTIVE" THEN NotReady
                                 ELSE IF room[r].ready # NotReady /\ room[r].cat = rs[r].cat THEN room[r].ready
                                 ELSE hour]]
Publish(rs, cs) ==
    /\ category' = cs
    /\ room' = [r \in Rooms |->
         [rs[r] EXCEPT !.ready = IF ~IsReady(rs, cs, r) THEN NotReady
                                 ELSE IF room[r].ready # NotReady /\ room[r].cat = rs[r].cat THEN room[r].ready
                                 ELSE hour]]

\* Mutants of room_blockers: reservations, or guests in the house, overlooked.
RoomBlockedByWork(r, rs, ss, bs, ts) ==
    ts[r] # "NONE" \/ \E s \in Stays : ss[s].state = "ACTIVE" /\ ss[s].room = r
RoomBlockedByPromise(r, rs, ss, bs, ts) ==
    ts[r] # "NONE" \/ \E b \in Bookings : bs[b].state = "CONFIRMED" /\ bs[b].room = r /\ bs[b].until > hour
RoomBlocked(r, rs, ss, bs, ts) ==
    \/ \E s \in Stays : ss[s].state = "ACTIVE" /\ ss[s].room = r
    \/ ts[r] # "NONE"
    \/ rs[r].clean # "CLEAN" /\ \E s \in Stays : ss[s].state = "CLOSED" /\ ss[s].room = r
    \/ \E b \in Bookings : bs[b].state = "CONFIRMED" /\ bs[b].room = r /\ bs[b].until > hour

CategoryBlocked(c, rs, ss, bs, xs) ==
    LET inside == {r \in Rooms : rs[r].cat = c}
    IN \/ \E r \in inside : rs[r].status # "INACTIVE"
       \/ \E s \in Stays : ss[s].state = "ACTIVE" /\ ss[s].room \in inside
       \/ \E b \in Bookings : bs[b].state = "CONFIRMED" /\ bs[b].room \in inside /\ bs[b].until > hour
       \/ \E x \in Claims : xs[x].state \in {"ACTIVE", "CONFIRMED"} /\ xs[x].cat = c /\ xs[x].until > hour

\* complete_room_retirement: first the rooms, then the categories.
Sweep(rs, cs, ss, bs, xs, ts) ==
    LET left == [r \in Rooms |-> IF rs[r].status = "RETIRING" /\ ~RoomBlocked(r, rs, ss, bs, ts)
                                 THEN [rs[r] EXCEPT !.status = "INACTIVE"] ELSE rs[r]]
    IN Publish(left, [c \in Categories |-> IF cs[c] = "RETIRING" /\ ~CategoryBlocked(c, left, ss, bs, xs)
                                           THEN "INACTIVE" ELSE cs[c]])

-----------------------------------------------------------------------------
(* Promises: category claims and room reservations *)

Begins == started < MaxStarted /\ started' = started + 1

\* Applied to a stay, cancelled or expired: the interval does not matter any more.
AnyCategory == CHOOSE c \in Categories : TRUE
GoneClaim == [state |-> "GONE", cat |-> AnyCategory, from |-> 0, until |-> 0, upgrade |-> {}]

CreateHold(x, c, i) ==
    /\ Begins
    /\ claim[x].state = "NONE" /\ category[c] = "ACTIVE"
    /\ i.from >= hour
    /\ RequireCapacity(i, c, {})
    /\ claim' = [claim EXCEPT ![x] = [state |-> "ACTIVE", cat |-> c, from |-> i.from, until |-> i.until, upgrade |-> {}]]
    /\ UNCHANGED <<hour, room, category, stay, reserved, task, package>>

HonoursHold(x) == RequireCapacity(claim[x], claim[x].cat, {x})
\* The capture of a hold: applied while its capacity is still there, otherwise
\* FULFILLMENT_UNAVAILABLE expires the hold.
ApplyCapture(x) ==
    /\ claim[x].state = "ACTIVE"
    /\ claim' = [claim EXCEPT ![x] = IF hour < claim[x].until /\ HonoursHold(x) THEN [@ EXCEPT !.state = "CONFIRMED"] ELSE GoneClaim]
    /\ Sweep(room, category, stay, reserved, claim', task)
    /\ UNCHANGED <<hour, stay, reserved, task, package, started>>

\* An expired or cancelled hold, a guest's cancellation and a NO_SHOW alike.
ReleaseClaim(x) ==
    /\ claim[x].state \in {"ACTIVE", "CONFIRMED"}
    /\ claim' = [claim EXCEPT ![x] = GoneClaim]
    /\ Sweep(room, category, stay, reserved, claim', task)
    /\ UNCHANGED <<hour, stay, reserved, task, package, started>>

Candidates(x, higher) ==
    LET actual == Greater(hour, claim[x].from)
    IN {r \in Rooms :
          /\ actual < claim[x].until /\ room[r].clean = "CLEAN" /\ Eligible(r)
          /\ IF higher THEN Rank[room[r].cat] > Rank[claim[x].cat] ELSE room[r].cat = claim[x].cat
          /\ room[r].ready <= actual
          /\ Available(r, [from |-> actual, until |-> claim[x].until], {}, {x})}

Upgrade(x, r) ==
    /\ claim[x].state = "CONFIRMED"
    /\ Candidates(x, FALSE) = {} /\ r \in Candidates(x, TRUE)
    /\ claim' = [claim EXCEPT ![x].upgrade = {r}]
    /\ UNCHANGED <<hour, room, category, stay, reserved, task, package, started>>

HotelCancels(x) ==
    /\ claim[x].state = "CONFIRMED" /\ hour >= claim[x].from
    /\ Candidates(x, FALSE) = {} /\ Candidates(x, TRUE) = {}
    /\ claim' = [claim EXCEPT ![x] = GoneClaim]
    /\ Sweep(room, category, stay, reserved, claim', task)
    /\ UNCHANGED <<hour, stay, reserved, task, package, started>>

\* A confirmed booking of one room, by the reception.
ReserveRoom(b, r, i) ==
    /\ Begins
    /\ reserved[b].state = "NONE" /\ i.from >= hour
    /\ Eligible(r) /\ Available(r, i, {}, {})
    /\ reserved' = [reserved EXCEPT ![b] = [state |-> "CONFIRMED", room |-> r, from |-> i.from, until |-> i.until]]
    /\ UNCHANGED <<hour, room, category, stay, claim, task, package>>

-----------------------------------------------------------------------------
(* Check-in.  The guest arrived at "actual", up to Backdate before the     *)
(* command is recorded.                                                    *)

WasReady(r, actual) == room[r].ready <= actual
InBackdate(actual, recorded) == actual <= recorded /\ recorded <= actual + Backdate

Enter(s, r, actual, until, arrival, own, holds) ==
    /\ stay[s].state = "NONE"
    /\ Eligible(r) /\ room[r].clean = "CLEAN"
    /\ InBackdate(actual, hour) /\ WasReady(r, actual)
    /\ Available(r, [from |-> actual, until |-> until], own, holds)
    /\ stay' = [stay EXCEPT ![s] = [state |-> "ACTIVE", room |-> r, from |-> actual, until |-> until, recorded |-> hour,
                                    ready |-> room[r].ready, arrival |-> arrival, asked |-> {}, leaving |-> FALSE]]

WalkIn(s, r, actual, units) ==
    /\ Begins
    /\ actual + units > hour
    /\ Enter(s, r, actual, actual + units, 0, {}, {})
    /\ UNCHANGED <<hour, room, category, claim, reserved, task, package>>

CheckInBooking(s, b, actual) ==
    /\ reserved[b].state = "CONFIRMED"
    /\ actual >= reserved[b].from /\ hour < reserved[b].until
    /\ Enter(s, reserved[b].room, actual, reserved[b].until, reserved[b].from, {b}, {})
    /\ reserved' = [reserved EXCEPT ![b] = [@ EXCEPT !.state = "CONSUMED", !.from = 0, !.until = 0]]
    /\ UNCHANGED <<hour, room, category, claim, task, package, started>>

MayUse(x, r) ==
    \/ room[r].cat = claim[x].cat
    \/ claim[x].upgrade = {r} /\ Rank[room[r].cat] > Rank[claim[x].cat]
CheckInClaim(s, x, r, actual) ==
    /\ claim[x].state = "CONFIRMED" /\ MayUse(x, r)
    /\ actual >= claim[x].from /\ hour < claim[x].until
    /\ Enter(s, r, actual, claim[x].until, claim[x].from, {}, {x})
    /\ claim' = [claim EXCEPT ![x] = GoneClaim]
    /\ Sweep(room, category, stay', reserved, claim', task)
    /\ UNCHANGED <<hour, reserved, task, package, started>>

-----------------------------------------------------------------------------
(* Amendments of the actual check-in time, and checkout *)

ValidAmendment(s, actual) ==
    LET i == [from |-> actual, until |-> stay[s].until]
        r == stay[s].room
    IN /\ InBackdate(actual, stay[s].recorded) /\ actual >= stay[s].arrival
       /\ stay[s].ready <= actual
       /\ \A t \in Stays \ {s} : stay[t].room = r =>
            stay[t].state # "ACTIVE" /\ (stay[t].state = "CLOSED" => ~Overlap(i, StayInterval(t)))
       /\ \A b \in Reservations(r, {}) : ~Overlap(i, b)
       /\ ProtectExistingClaims(r, i, {s}, {})

Amendable(s) == stay[s].state = "ACTIVE" /\ ~stay[s].leaving

RequestAmendment(s, actual) ==
    /\ Begins
    /\ Amendable(s) /\ stay[s].asked = {} /\ ValidAmendment(s, actual)
    /\ stay' = [stay EXCEPT ![s].asked = {actual}]
    /\ UNCHANGED <<hour, room, category, claim, reserved, task, package>>

DecideAmendment(s, approve) ==
    /\ Amendable(s)
    /\ \E actual \in stay[s].asked :
         /\ approve => ValidAmendment(s, actual)
         /\ stay' = [stay EXCEPT ![s] = [@ EXCEPT !.asked = {}, !.from = IF approve THEN actual ELSE stay[s].from]]
    /\ UNCHANGED <<hour, room, category, claim, reserved, task, package, started>>

InitiateCheckout(s) ==
    /\ stay[s].state = "ACTIVE" /\ stay[s].asked = {}
    /\ stay' = [stay EXCEPT ![s].leaving = TRUE]
    /\ UNCHANGED <<hour, room, category, claim, reserved, task, package, started>>

ClosesPending(s) == stay[s].state = "ACTIVE" /\ task[stay[s].room] = "NONE"
\* The checkout proper does not ask whether it was initiated.
MayClose(s) == stay[s].state = "ACTIVE" /\ stay[s].asked = {} /\ task[stay[s].room] = "NONE"

Checkout(s) ==
    LET r == stay[s].room
        dirty == [room EXCEPT ![r].clean = "DIRTY"]
    IN /\ MayClose(s) /\ room[r].status \in {"ACTIVE", "RETIRING"}
       /\ stay' = [stay EXCEPT ![s] = [@ EXCEPT !.state = "CLOSED", !.until = hour, !.recorded = 0, !.ready = 0,
                                                 !.arrival = 0, !.leaving = FALSE]]
       /\ Publish(dirty, category)
       /\ task' = [task EXCEPT ![r] = IF package >= 25000 THEN "WAITING" ELSE @]
       /\ UNCHANGED <<hour, claim, reserved, package, started>>

-----------------------------------------------------------------------------
(* Cleaning.  task is "WAITING" for a checkout nobody claimed, "OPEN" with *)
(* an assignee.                                                            *)

Unoccupied(r) == ~Occupied(r)
RequestCleaning(r) ==
    /\ package >= 25000
    /\ room[r].status = "ACTIVE" /\ Unoccupied(r)
    /\ room[r].clean = "DIRTY" /\ task[r] = "NONE"
    /\ task' = [task EXCEPT ![r] = "OPEN"]
    /\ UNCHANGED <<hour, room, category, stay, claim, reserved, package, started>>

ClaimCleaning(r) ==
    /\ task[r] = "WAITING" /\ room[r].status # "INACTIVE" /\ room[r].clean = "DIRTY"
    /\ task' = [task EXCEPT ![r] = "OPEN"]
    /\ UNCHANGED <<hour, room, category, stay, claim, reserved, package, started>>

StartCleaning(r) ==
    /\ task[r] = "OPEN" /\ room[r].status # "INACTIVE" /\ Unoccupied(r)
    /\ room[r].clean = "DIRTY"
    /\ Publish([room EXCEPT ![r].clean = "CLEANING"], category)
    /\ UNCHANGED <<hour, stay, claim, reserved, task, package, started>>

PostCleaning(r) ==
    /\ task[r] = "OPEN" /\ room[r].clean = "CLEANING"
    /\ task' = [task EXCEPT ![r] = "NONE"]
    /\ Sweep([room EXCEPT ![r].clean = "CLEAN"], category, stay, reserved, claim, task')
    /\ UNCHANGED <<hour, stay, claim, reserved, package, started>>

\* A hotel without cleaners: the manager declares the room clean, before its
\* first stay (ReadinessService) or after a checkout (CheckoutService).
MayDeclareClean(r) == room[r].clean = "DIRTY" /\ task[r] = "NONE" /\ Unoccupied(r)
ManagerCleans(r) ==
    /\ package = 20000
    /\ MayDeclareClean(r)
    /\ LET cleaned == [room EXCEPT ![r].clean = "CLEAN"]
       IN \/ room[r].status = "ACTIVE" /\ Publish(cleaned, category)
          \/ /\ room[r].status # "INACTIVE" /\ \E s \in Stays : stay[s].state = "CLOSED" /\ stay[s].room = r
             /\ Sweep(cleaned, category, stay, reserved, claim, task)
    /\ UNCHANGED <<hour, stay, claim, reserved, task, package, started>>

-----------------------------------------------------------------------------
(* The lifecycle of rooms and categories *)

Edit(rs, cs) ==
    /\ Begins
    /\ Sweep(rs, cs, stay, reserved, claim, task)
    /\ UNCHANGED <<hour, stay, claim, reserved, task, package>>

DeactivateRoom(r) ==
    /\ room[r].status = "ACTIVE"
    /\ Edit([room EXCEPT ![r].status = IF RoomBlocked(r, room, stay, reserved, task) THEN "RETIRING" ELSE "INACTIVE"], category)
ReactivateRoom(r) ==
    /\ room[r].status \in {"INACTIVE", "RETIRING"} /\ category[room[r].cat] = "ACTIVE"
    /\ Edit([room EXCEPT ![r].status = "ACTIVE"], category)
ReassignCategory(r, c) ==
    /\ c # room[r].cat /\ ~Occupied(r) /\ category[c] = "ACTIVE"
    /\ Edit([room EXCEPT ![r].cat = c], category)
DeactivateCategory(c) ==
    /\ category[c] = "ACTIVE"
    /\ Edit(room, [category EXCEPT ![c] = IF CategoryBlocked(c, room, stay, reserved, claim) THEN "RETIRING" ELSE "INACTIVE"])
ReactivateCategory(c) ==
    /\ category[c] \in {"INACTIVE", "RETIRING"}
    /\ Edit(room, [category EXCEPT ![c] = "ACTIVE"])

PackageGrows ==
    /\ Begins
    /\ package = 20000 /\ package' = 25000
    /\ UNCHANGED <<hour, room, category, stay, claim, reserved, task>>
ClockTicks ==
    /\ hour < LastTime /\ hour' = hour + 1
    /\ UNCHANGED <<room, category, stay, claim, reserved, task, package, started>>

-----------------------------------------------------------------------------
RoomInit ==
    /\ hour = 0 /\ started = 0 /\ package \in {20000, 25000}
    /\ \E home \in Homes :
         room = [r \in Rooms |-> [cat |-> home[r], status |-> "ACTIVE", clean |-> IF r \in New THEN "DIRTY" ELSE "CLEAN",
                                   ready |-> IF r \in New THEN NotReady ELSE 0]]
    /\ category = [c \in Categories |-> "ACTIVE"]
    /\ stay = [s \in Stays |-> [state |-> "NONE", room |-> CHOOSE r \in Rooms : TRUE, from |-> 0, until |-> 0, recorded |-> 0,
                                ready |-> 0, arrival |-> 0, asked |-> {}, leaving |-> FALSE]]
    /\ claim = [x \in Claims |-> [state |-> "NONE", cat |-> AnyCategory, from |-> 0, until |-> 0, upgrade |-> {}]]
    /\ reserved = [b \in Bookings |-> [state |-> "NONE", room |-> CHOOSE r \in Rooms : TRUE, from |-> 0, until |-> 0]]
    /\ task = [r \in Rooms |-> "NONE"]

Intervals == {[from |-> a, until |-> a + n] : a \in Times, n \in 1 .. MaxNights}

RoomNext ==
    \/ \E x \in Claims, c \in Categories, i \in Intervals : CreateHold(x, c, i)
    \/ \E x \in Claims : ApplyCapture(x) \/ ReleaseClaim(x) \/ HotelCancels(x)
    \/ \E x \in Claims, r \in Rooms : Upgrade(x, r)
    \/ \E b \in Bookings, r \in Rooms, i \in Intervals : ReserveRoom(b, r, i)
    \/ \E s \in Stays, r \in Rooms, a \in Times, n \in 1 .. MaxNights : WalkIn(s, r, a, n)
    \/ \E s \in Stays, b \in Bookings, a \in Times : CheckInBooking(s, b, a)
    \/ \E s \in Stays, x \in Claims, r \in Rooms, a \in Times : CheckInClaim(s, x, r, a)
    \/ \E s \in Stays, a \in Times : RequestAmendment(s, a)
    \/ \E s \in Stays, approve \in BOOLEAN : DecideAmendment(s, approve)
    \/ \E s \in Stays : InitiateCheckout(s) \/ Checkout(s)
    \/ \E r \in Rooms : \/ RequestCleaning(r) \/ ClaimCleaning(r) \/ StartCleaning(r) \/ PostCleaning(r) \/ ManagerCleans(r)
    \/ \E r \in Rooms : DeactivateRoom(r) \/ ReactivateRoom(r)
    \/ \E r \in Rooms, c \in Categories : ReassignCategory(r, c)
    \/ \E c \in Categories : DeactivateCategory(c) \/ ReactivateCategory(c)
    \/ PackageGrows \/ ClockTicks

RoomSpec == RoomInit /\ [][RoomNext]_roomVars

-----------------------------------------------------------------------------
(* Properties *)

\* A room is ready since some time if and only if its own row and that of its
\* category say so now (the readiness_transition triggers of both tables).
RoomTypeOK ==
    /\ hour \in Times /\ started \in 0 .. MaxStarted /\ package \in {20000, 25000}
    /\ room \in [Rooms -> RoomRow] /\ category \in [Categories -> {"ACTIVE", "RETIRING", "INACTIVE"}]
    /\ \A r \in Rooms : room[r].ready # NotReady <=> IsReady(room, category, r)
    /\ stay \in [Stays -> StayRow] /\ claim \in [Claims -> ClaimRow] /\ reserved \in [Bookings -> ReservedRow]
    /\ task \in [Rooms -> {"NONE", "WAITING", "OPEN"}]

\* No two uses of a room overlap: stays by the time their guests were really
\* there (an overdue stay until now), confirmed reservations as reserved; and
\* a stay never begins before the room was ready (stays.py, stay_amendments.py).
RoomPromisedOnce ==
    /\ \A s, t \in Stays :
         s # t /\ stay[s].state # "NONE" /\ stay[t].state # "NONE" /\ stay[s].room = stay[t].room
           => ~Overlap(StayInterval(s), StayInterval(t))
    /\ \A s \in Stays : stay[s].state = "ACTIVE" => stay[s].ready <= stay[s].from
    /\ \A s \in Stays, b \in Bookings :
         stay[s].state = "ACTIVE" /\ reserved[b].state = "CONFIRMED" /\ stay[s].room = reserved[b].room
           => ~Overlap(stay[s], reserved[b])

\* The outstanding claims can be given rooms of their categories, no two
\* overlapping claims the same room.
Assignable ==
    LET open == UNION {Outstanding(c) : c \in Categories}
        fits(x) == {r \in Rooms : /\ room[r].cat = claim[x].cat /\ Eligible(r)
                                  /\ \A i \in RoomIntervals(r, {}) : ~Overlap(claim[x], i)}
    IN \E give \in [open -> Rooms] :
         /\ \A x \in open : give[x] \in fits(x)
         /\ \A x, y \in open : x # y /\ give[x] = give[y] => ~Overlap(claim[x], claim[y])

\* A promise or a stay never takes the last room of somebody else's claim: as
\* long as no room is withdrawn and the clock stands, claims that fit still
\* fit after any command (booking_inventory.py, protect_existing_claims).
ClaimsStayAssignable ==
    [][/\ Assignable /\ hour' = hour
       /\ \A r \in Rooms : Eligible(r) => (Eligible(r))' /\ room'[r].cat = room[r].cat
       => Assignable']_roomVars

\* Nothing happens to the room of a guest in the house: it is clean, not out
\* of service, and nobody was sent to clean it.
OccupiedRoomIsUntouched ==
    \A s \in Stays : stay[s].state = "ACTIVE" =>
        /\ room[stay[s].room].clean = "CLEAN" /\ room[stay[s].room].status # "INACTIVE"
        /\ task[stay[s].room] = "NONE"

\* A stay that left, or is leaving, has no amendment of its times pending
\* that could still be approved against it.
NoPendingAtCheckout ==
    \A s \in Stays : stay[s].state = "CLOSED" \/ stay[s].leaving => stay[s].asked = {}

\* What is INACTIVE is empty: no cleaning is open in a retired room and no
\* reservation of it lies ahead; a retired category has no room in service
\* and no claim ahead (room_blockers, category_blockers).
RetiredIsEmpty ==
    /\ \A r \in Rooms : room[r].status = "INACTIVE" =>
         /\ task[r] = "NONE"
         /\ \A b \in Bookings : reserved[b].state = "CONFIRMED" /\ reserved[b].room = r => reserved[b].until <= hour
         /\ room[r].clean # "CLEAN" => \A s \in Stays : stay[s].room = r => stay[s].state = "NONE"
    /\ \A c \in Categories : category[c] = "INACTIVE" =>
         /\ \A r \in Rooms : room[r].cat = c => room[r].status = "INACTIVE"
         /\ \A x \in Outstanding(c) : claim[x].until <= hour

\* A room is left alone while it is used and used no more once it is left.
RoomsAreLeftInOrder == OccupiedRoomIsUntouched /\ NoPendingAtCheckout /\ RetiredIsEmpty
=============================================================================
