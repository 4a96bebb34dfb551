---------------------------- MODULE GuestAccess ----------------------------
(***************************************************************************)
(* The guest's way to the restaurant: the QR of a room, one-use codes of a *)
(* stay, and the sessions they open.  Every command locks the room and its *)
(* stay, so an action is a whole transaction; capacity, rotation, checkout *)
(* and expiry meet in any order.                                           *)
(*                                                                         *)
(* One room is modelled, with the stays that follow each other in it; the  *)
(* secrets are left out, except that a guest names the right or a wrong    *)
(* code.                                                                   *)
(***************************************************************************)
EXTENDS Naturals, FiniteSets

CONSTANTS
    Codes,        \* stay_guest_code rows, each of which opens at most one session
    LastStay,     \* bound: stays of the room
    LastQr,       \* bound: room_guest_qr.revision
    Places,       \* codes and sessions of a stay, 5 in the code
    MaxFailures   \* wrong codes until the QR is blocked, 5 in the code

ASSUME AccessAssumption ==
    {LastStay, LastQr} \subseteq Nat /\ {Places, MaxFailures} \subseteq Nat \ {0}

VARIABLES
    stayHere,   \* number of the room's latest stay and whether it is ACTIVE
    qr,         \* room_guest_qr: revision, failures, blocked_until none, ahead or past
    ticket      \* stay_guest_code and the guest_session opened with it

accessVars == <<stayHere, qr, ticket>>

NoTicket == [state |-> "NONE", stay |-> 0, qr |-> 0]

RoomStays == [number : 0 .. LastStay, active : BOOLEAN]
RoomQrs == [revision : 0 .. LastQr, failures : 0 .. MaxFailures, blocked : {"NO", "AHEAD", "PAST"}]
Tickets == [state : {"NONE", "CODE", "ELAPSED", "SESSION", "REVOKED"},
            stay : 0 .. LastStay, qr : 0 .. LastQr]

AccessTypeOK ==
    /\ stayHere \in RoomStays
    /\ qr \in RoomQrs
    /\ ticket \in [Codes -> Tickets]

AccessInit ==
    /\ stayHere = [number |-> 0, active |-> FALSE]
    /\ qr = [revision |-> 0, failures |-> 0, blocked |-> "NO"]
    /\ ticket = [c \in Codes |-> NoTicket]

-----------------------------------------------------------------------------
OfStay(c) == ticket[c].stay = stayHere.number

\* Codes and sessions that are revoked now: of the stay, and what they cannot undo.
Revoking(S) ==
    [c \in Codes |-> IF c \in S THEN [ticket[c] EXCEPT !.state = "REVOKED"] ELSE ticket[c]]

Unrevoked == {c \in Codes : ticket[c].state \in {"CODE", "ELAPSED", "SESSION"}}

Counted == {c \in Codes : OfStay(c) /\ ticket[c].state \in {"CODE", "SESSION"}}

\* Mutant: only sessions take a place.
HasPlaceForSession == Cardinality({c \in Counted : ticket[c].state = "SESSION"}) < Places

HasPlace == Cardinality(Counted) < Places

NewCode(stay) ==
    \E c \in Codes :
        /\ ticket[c] = NoTicket
        /\ ticket' = [ticket EXCEPT ![c] = [state |-> "CODE", stay |-> stay, qr |-> 0]]

\* The check-in gives the first code.
EnterStay ==
    /\ ~stayHere.active /\ stayHere.number < LastStay
    /\ stayHere' = [number |-> stayHere.number + 1, active |-> TRUE]
    /\ NewCode(stayHere.number + 1)
    /\ UNCHANGED qr

LeaveStay ==
    /\ stayHere.active
    /\ stayHere' = [stayHere EXCEPT !.active = FALSE]
    /\ ticket' = Revoking({c \in Unrevoked : OfStay(c)})
    /\ UNCHANGED qr

IssueCode ==
    /\ stayHere.active /\ HasPlace
    /\ NewCode(stayHere.number)
    /\ UNCHANGED <<stayHere, qr>>

RevokeAccess ==
    /\ stayHere.active
    /\ ticket' = Revoking({c \in Unrevoked : OfStay(c)})
    /\ UNCHANGED <<stayHere, qr>>

RevokeDevice(c) ==
    /\ ticket[c].state = "SESSION"
    /\ ticket' = Revoking({c})
    /\ UNCHANGED <<stayHere, qr>>

CodeElapses(c) ==
    /\ ticket[c].state = "CODE"
    /\ ticket' = [ticket EXCEPT ![c].state = "ELAPSED"]
    /\ UNCHANGED <<stayHere, qr>>

\* Mutant: a new QR leaves the sessions of the room alone.
CodesOnly == {c \in Unrevoked : ticket[c].state # "SESSION"}

RotationRevokes == Unrevoked

RotateQr ==
    /\ qr.revision < LastQr
    /\ qr' = [revision |-> qr.revision + 1, failures |-> 0, blocked |-> "NO"]
    /\ ticket' = Revoking(RotationRevokes)
    /\ UNCHANGED stayHere

-----------------------------------------------------------------------------
(* Redeeming a code with the QR of the room.                               *)

MayTry == qr.revision > 0 /\ qr.blocked # "AHEAD" /\ stayHere.active

Redeem(c) ==
    /\ MayTry /\ OfStay(c) /\ ticket[c].state = "CODE"
    /\ Cardinality(Counted) <= Places
    /\ ticket' = [ticket EXCEPT ![c].state = "SESSION", ![c].qr = qr.revision]
    /\ qr' = [qr EXCEPT !.failures = 0, !.blocked = "NO"]
    /\ UNCHANGED stayHere

\* The failed attempt is committed; the count starts again after a block.
WrongCode ==
    LET failures == (IF qr.blocked = "NO" THEN qr.failures ELSE 0) + 1 IN
    /\ MayTry
    /\ qr' = [qr EXCEPT !.failures = failures,
                 !.blocked = IF failures >= MaxFailures THEN "AHEAD" ELSE "NO"]
    /\ UNCHANGED <<stayHere, ticket>>

BlockEnds ==
    /\ qr.blocked = "AHEAD"
    /\ qr' = [qr EXCEPT !.blocked = "PAST"]
    /\ UNCHANGED <<stayHere, ticket>>

AccessNext ==
    \/ EnterStay \/ LeaveStay \/ IssueCode \/ RevokeAccess \/ RotateQr \/ WrongCode \/ BlockEnds
    \/ \E c \in Codes : RevokeDevice(c) \/ CodeElapses(c) \/ Redeem(c)

AccessSpec == AccessInit /\ [][AccessNext]_accessVars

-----------------------------------------------------------------------------
(* Properties.                                                             *)

\* Nobody but the guests of the present stay has access, through the present QR, and
\* no stay has more codes and sessions than places, however codes are issued,
\* elapse, are redeemed late and survive a rotation, a revocation or a checkout.
AccessIsBounded ==
    /\ \A c \in Codes : ticket[c].state = "SESSION" =>
          stayHere.active /\ OfStay(c) /\ ticket[c].qr = qr.revision
    /\ \A c \in Codes : ticket[c].state = "CODE" => stayHere.active /\ OfStay(c)
    /\ Cardinality(Counted) <= Places

=============================================================================
