------------------------- MODULE MCBookingPayment -------------------------
(* TLC instances of BookingPayment.  Requests are interchangeable, which    *)
(* the safety runs use; sessions are few and stay apart.                    *)
EXTENDS BookingPayment, TLC

CONSTANTS r1, r2, s1, s2

Symmetry == Permutations(Requests)
=============================================================================
