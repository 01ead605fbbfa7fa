----------------------------- MODULE MCBookings -----------------------------
(***************************************************************************)
(* An instance of Bookings: one time, two guests and a direct booking.     *)
(***************************************************************************)
EXTENDS Bookings, TLC

CONSTANTS s1, g1, g2, k1, p1

Symmetric == Permutations(Guest)
=============================================================================
