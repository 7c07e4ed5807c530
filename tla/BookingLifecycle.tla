------------------------- MODULE BookingLifecycle -------------------------
(* What a booking promises the seeker and the advisor, whatever happens    *)
(* behind it: the status moves from a request to one outcome and stays     *)
(* there, and the payment only moves from unpaid to paid to refunded.      *)
VARIABLES status, payment

vars == <<status, payment>>

Active == {"pending", "confirmed"}

Init == <<status, payment>> \in
            {<<"pending", "unpaid">>, <<"pending", "paid">>, <<"confirmed", "paid">>}

\* The advisor accepts a paid request, or the payment itself confirms it.
Confirm ==
    /\ status = "pending" /\ status' = "confirmed"
    /\ payment \in {"unpaid", "paid"} /\ payment' = "paid"

\* A booking is called off while it is active; what was paid may be refunded.
CallOff ==
    /\ \/ status \in Active /\ status' = "cancelled"
       \/ status = "pending" /\ status' = "rejected"
    /\ payment' \in {payment} \cup IF payment = "paid" THEN {"refunded"} ELSE {}

\* Only a booking that was paid for is held or missed; a no-show was confirmed.
Hold ==
    /\ \/ status \in Active /\ status' = "completed"
       \/ status = "confirmed" /\ status' = "no_show"
    /\ payment # "unpaid"
    /\ UNCHANGED payment

\* The seeker pays in a checkout page left open after the booking was called off.
PayLate ==
    /\ status \in {"cancelled", "rejected"}
    /\ payment = "unpaid" /\ payment' = "paid"
    /\ UNCHANGED status

Refund ==
    /\ payment = "paid" /\ payment' = "refunded"
    /\ UNCHANGED status

Next == Confirm \/ CallOff \/ Hold \/ PayLate \/ Refund

Spec == Init /\ [][Next]_vars
=============================================================================
