-------------------------- MODULE MCBookingPayment --------------------------
(* Checks BookingPayment on one booking with a few attempts.               *)
EXTENDS BookingPayment
=============================================================================
