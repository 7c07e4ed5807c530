-------------------------- MODULE BookingPayment --------------------------
(* One booking, its payment transaction and the Stripe objects behind it.  *)
(*                                                                         *)
(* A request (an HTTP call, a webhook delivery or a pass of a sweep) works *)
(* in one database transaction at READ COMMITTED: it reads rows without a  *)
(* lock unless the code says FOR UPDATE, an UPDATE waits for the row lock  *)
(* and holds it until the commit, and calls to Stripe happen in between.   *)
(* A request is therefore a few steps, each ending where other requests    *)
(* can get in: after a read, and around a call to Stripe made with a lock  *)
(* held.  What follows the last such point up to the commit is one action. *)
EXTENDS Integers, UnitOfWork

CONSTANTS
    Requests,             \* requests that may be in progress at once
    Sessions,             \* Stripe Checkout Sessions that can be created
    NoSession,            \* the session of a transaction row that is not there
    Price,                \* booking.price_usd; 0 for an advisor-created booking
    MaxTransferAttempts,  \* _MAX_TRANSFER_ATTEMPTS
    Ops,                  \* the operations this instance performs
    PaidRequests,         \* the database also holds requests paid while pending
    StripeRedelivers,     \* Stripe delivers an event again after a 200
    DashboardRefunds,     \* refunds are also made in the Stripe dashboard
    Outages               \* a process may stop in the middle of a request, and the
                          \* answer of a call to Stripe may be lost

ASSUME SessionAssumption == NoSession \notin Sessions
ASSUME PriceAssumption == Price \in Nat
ASSUME AttemptsAssumption == MaxTransferAttempts \in Nat \ {0}
ASSUME HazardAssumption ==
    {PaidRequests, StripeRedelivers, DashboardRefunds, Outages} \subseteq BOOLEAN

VARIABLES
    booking,      \* the bookings row
    txn,          \* the transactions row of the booking
    req,          \* what each request in progress has read and done
    checkout,     \* Stripe: state of each Checkout Session
    refunds,      \* Stripe: amount refunded of each session's charge
    transferred,  \* Stripe: sessions whose payout was transferred
    events,       \* Stripe: webhook events waiting to be delivered
    clock,        \* now, relative to scheduled_start and the notice window
    unpaidTooLong,\* created_at < now - STALE_UNPAID_BOOKING_MINUTES
    holdOver,     \* transfer_after <= now
    connected     \* the advisor has a usable Stripe Connect account

stripe == <<checkout, refunds, transferred, events>>
world  == <<clock, unpaidTooLong, holdOver, connected>>
vars   == <<booking, txn, req, stripe, world>>

-----------------------------------------------------------------------------
BookingStatus == {"pending", "confirmed", "completed", "cancelled", "rejected", "no_show"}
PaymentStatus == {"unpaid", "paid", "refunded"}
TransactionStatus == {"pending", "succeeded", "partially_refunded", "refunded", "failed"}
TransferStatus == {"none", "pending", "completed", "cancelled", "failed"}
SessionState == {"unused", "created", "open", "complete", "expired"}
Active == {"pending", "confirmed"}
Amount == 0 .. Price

Booking == [status : BookingStatus, payment : PaymentStatus, meeting : BOOLEAN]

\* A row that is not there has status "absent".
Txn == [session : Sessions \cup {NoSession}, status : TransactionStatus \cup {"absent"},
        transfer : TransferStatus, refunded : Amount,
        attempts : 0 .. MaxTransferAttempts, charge : BOOLEAN]

Event == [type : {"completed", "expired", "refunded"}, session : Sessions, amount : Amount]

Closers  == {"cancel", "reject", "expire"}
Webhooks == {"completed", "expired", "refunded"}
Op == Closers \cup Webhooks \cup
      {"idle", "accept", "complete", "no_show", "checkout", "admin_refund", "transfer"}

Request == [op : Op, step : {"idle", "flush", "refund", "create", "insert", "commit"},
            booking : Booking, txn : Txn,
            event : [type : Webhooks \cup {"none"}, session : Sessions \cup {NoSession},
                     amount : Amount]]

NoTxn == [session |-> NoSession, status |-> "absent", transfer |-> "none",
          refunded |-> 0, attempts |-> 0, charge |-> FALSE]

\* A new transactions row: the checkout session exists, nothing is paid yet.
NewTxn(s) == [NoTxn EXCEPT !.session = s, !.status = "pending"]

\* create: a seeker's request awaits payment.  create_by_advisor: a free
\* booking is confirmed, and marked paid, at once.
NewBooking ==
    [status  |-> IF Price > 0 THEN "pending" ELSE "confirmed",
     payment |-> IF Price > 0 THEN "unpaid" ELSE "paid",
     meeting |-> FALSE]

NoRequest == [op |-> "idle", step |-> "idle", booking |-> NewBooking, txn |-> NoTxn,
              event |-> [type |-> "none", session |-> NoSession, amount |-> 0]]

\* What types leave open about a row or a copy of it, and about a request.
RowTyped(t) == t.session = NoSession <=> t.status = "absent"

RequestTyped(r) ==
    /\ RowTyped(r.txn)
    /\ r.op \in Webhooks => /\ r.event \in Event
                            /\ r.event.type = r.op
                            /\ r.event.session = r.txn.session
    /\ r.op \in {"admin_refund", "transfer"} => r.txn.session # NoSession
    /\ r.op \in Closers /\ r.txn # NoTxn => r.txn.session # NoSession
    /\ r.op = "checkout" /\ r.step = "insert" => r.event.session # NoSession

TypeOK ==
    /\ booking \in Booking
    /\ txn \in Txn /\ RowTyped(txn)
    /\ req \in [Requests -> Request] /\ \A p \in Requests : RequestTyped(req[p])
    /\ checkout \in [Sessions -> SessionState]
    /\ refunds \in [Sessions -> Amount]
    /\ transferred \subseteq Sessions
    /\ events \subseteq Event
    /\ clock \in {"early", "notice", "started"}
    /\ {unpaidTooLong, holdOver, connected} \subseteq BOOLEAN

\* A booking that was just created ...
NewInit ==
    /\ booking = NewBooking
    /\ txn = NoTxn
    /\ checkout = [s \in Sessions |-> "unused"]

\* ... or a request that is paid for and still pending.  The webhook confirms a
\* booking when it is paid, so no run of this code makes such a row; accept,
\* complete and the expiry sweep provide for it, and the tests start from it.
PaidInit ==
    /\ PaidRequests /\ Price > 0
    /\ booking = [status |-> "pending", payment |-> "paid", meeting |-> FALSE]
    /\ \E s \in Sessions :
         /\ txn = [NewTxn(s) EXCEPT !.status = "succeeded", !.transfer = "pending",
                                   !.charge = TRUE]
         /\ checkout = [t \in Sessions |-> IF t = s THEN "complete" ELSE "unused"]

Init ==
    /\ NewInit \/ PaidInit
    /\ req = [p \in Requests |-> NoRequest]
    /\ refunds = [s \in Sessions |-> 0]
    /\ transferred = {}
    /\ events = {}
    /\ clock = "early"
    /\ unpaidTooLong = FALSE
    /\ holdOver = FALSE
    /\ connected = TRUE

-----------------------------------------------------------------------------
(* Row locks.  A closing request holds the booking row from its flush on,  *)
(* and the transaction row once it has gone for the refund.                *)
HoldsBooking(p) == req[p].op \in Closers /\ req[p].step \in {"refund", "commit"}

HoldsTxn(p) ==
    \/ req[p].op \in Closers /\ req[p].step = "commit" /\ req[p].booking.payment = "paid"
    \/ req[p].op \in Webhooks \cup {"admin_refund", "transfer"} /\ req[p].step = "commit"
    \/ req[p].op = "checkout" /\ req[p].step = "insert" /\ req[p].txn.session = txn.session

BookingFree(p) == \A q \in Requests \ {p} : ~HoldsBooking(q)
TxnFree(p)     == \A q \in Requests \ {p} : ~HoldsTxn(q)

Idle(p, op)     == op \in Ops /\ req[p].op = "idle"
At(p, op, step) == req[p].op = op /\ req[p].step = step
Finish(p)       == req' = [req EXCEPT ![p] = NoRequest]

ReadBooking(p, op) ==
    /\ Idle(p, op)
    /\ req' = [req EXCEPT ![p] = [NoRequest EXCEPT !.op = op, !.step = "flush",
                                                   !.booking = booking]]

-----------------------------------------------------------------------------
(* Advisor's answers and outcomes: accept, complete, mark_no_show          *)

\* accept and complete let a booking through when it is free or paid for.
PaidOrFree(b) == Price = 0 \/ b.payment = "paid"

is_eligible_for_meeting(b) == b.status = "confirmed" /\ b.payment = "paid" /\ Price > 0

\* `zoom` says whether Zoom granted a token and created the meeting.
maybe_provision_meeting(b, zoom) ==
    IF is_eligible_for_meeting(b) /\ zoom THEN [b EXCEPT !.meeting = TRUE] ELSE b

\* Mutation: an unpaid booking is accepted.
AcceptUnpaid(p) ==
    /\ booking.status = "pending"
    /\ ReadBooking(p, "accept")
    /\ UNCHANGED <<booking, txn, stripe, world>>

Accept(p) ==
    /\ booking.status = "pending"
    /\ PaidOrFree(booking)
    /\ ReadBooking(p, "accept")
    /\ UNCHANGED <<booking, txn, stripe, world>>

\* The flush is followed by a refresh, so the meeting is decided on the row.
AcceptCommit(p) ==
    LET seen == req[p].booking
        row  == Flush(booking, seen, [seen EXCEPT !.status = "confirmed"])
    IN  /\ At(p, "accept", "flush")
        /\ BookingFree(p)
        /\ \E zoom \in BOOLEAN : booking' = maybe_provision_meeting(row, zoom)
        /\ Finish(p)
        /\ UNCHANGED <<txn, stripe, world>>

Complete(p) ==
    /\ clock = "started"
    /\ \/ booking.status = "pending" /\ PaidOrFree(booking)
       \/ booking.status = "confirmed"
    /\ ReadBooking(p, "complete")
    /\ UNCHANGED <<booking, txn, stripe, world>>

MarkNoShow(p) ==
    /\ clock = "started"
    /\ booking.status = "confirmed"
    /\ ReadBooking(p, "no_show")
    /\ UNCHANGED <<booking, txn, stripe, world>>

OutcomeCommit(p, op, status) ==
    /\ At(p, op, "flush")
    /\ BookingFree(p)
    /\ booking' = Flush(booking, req[p].booking, [req[p].booking EXCEPT !.status = status])
    /\ Finish(p)
    /\ UNCHANGED <<txn, stripe, world>>

CompleteCommit(p) == OutcomeCommit(p, "complete", "completed")
NoShowCommit(p)   == OutcomeCommit(p, "no_show", "no_show")

-----------------------------------------------------------------------------
(* Refunds                                                                 *)

\* The guards of _refund_transaction_record.
Refundable(t, amount) ==
    /\ t.status \in {"succeeded", "partially_refunded"}
    /\ t.transfer \notin {"completed", "failed"}
    /\ t.refunded + amount <= Price

\* The row _refund_transaction_record leaves.
RefundedTxn(t, amount) ==
    [t EXCEPT !.refunded = @ + amount,
              !.status   = IF t.refunded + amount = Price THEN "refunded"
                                                          ELSE "partially_refunded",
              !.transfer = IF @ = "pending" THEN "cancelled" ELSE @]

\* Stripe refunds what is asked; without an amount, asked for here as the whole
\* Price, whatever is left of the charge.  It refuses when that is too much or
\* nothing, and announces the total refunded so far.
StripeRefund(s, amount) ==
    LET total == IF amount = Price THEN Price ELSE refunds[s] + amount
    IN  /\ refunds[s] < total
        /\ total <= Price
        /\ refunds' = [refunds EXCEPT ![s] = total]
        /\ events' = events \cup {[type |-> "refunded", session |-> s, amount |-> total]}
        /\ UNCHANGED <<checkout, transferred>>

\* refund_transaction: the row is read FOR UPDATE, then Stripe is called.
AdminRefund(p, amount) ==
    /\ Idle(p, "admin_refund")
    /\ TxnFree(p)
    /\ Refundable(txn, amount)
    /\ StripeRefund(txn.session, amount)
    /\ req' = [req EXCEPT ![p] = [NoRequest EXCEPT !.op = "admin_refund", !.step = "commit",
                                                   !.txn = RefundedTxn(txn, amount)]]
    /\ UNCHANGED <<booking, txn, world>>

\* Stripe made the refund but the call raised: the request rolls back.
AdminRefundUnanswered(p, amount) ==
    /\ Outages
    /\ Idle(p, "admin_refund")
    /\ TxnFree(p)
    /\ Refundable(txn, amount)
    /\ StripeRefund(txn.session, amount)
    /\ UNCHANGED <<booking, txn, req, world>>

AdminRefundCommit(p) ==
    /\ At(p, "admin_refund", "commit")
    /\ BookingFree(p)
    /\ txn' = req[p].txn
    /\ booking' = [booking EXCEPT !.payment = "refunded"]
    /\ Finish(p)
    /\ UNCHANGED <<stripe, world>>

-----------------------------------------------------------------------------
(* Closing a booking: cancel, reject, expire_unaccepted_pending_bookings   *)

\* Mutation: _assert_active is not called.
CancelInactive(p, actor) ==
    /\ actor = "seeker" => clock = "early"
    /\ ReadBooking(p, "cancel")
    /\ UNCHANGED <<booking, txn, stripe, world>>

\* A seeker may only cancel before the notice window, an advisor at any time.
Cancel(p, actor) ==
    /\ booking.status \in Active
    /\ actor = "seeker" => clock = "early"
    /\ ReadBooking(p, "cancel")
    /\ UNCHANGED <<booking, txn, stripe, world>>

Reject(p) ==
    /\ booking.status = "pending"
    /\ ReadBooking(p, "reject")
    /\ UNCHANGED <<booking, txn, stripe, world>>

ClosedStatus(op) == IF op = "reject" THEN "rejected" ELSE "cancelled"

\* auto_refund_booking_if_paid looks at the request's own copy of the booking.
Closing(op, b) ==
    [NoRequest EXCEPT !.op = op, !.booking = b,
                      !.step = IF b.payment = "paid" THEN "refund" ELSE "commit"]

\* The status is flushed first.  reject then refreshes its copy; cancel keeps
\* the copy it read at the start.
CloseFlush(p) ==
    LET op   == req[p].op
        seen == req[p].booking
        mine == [seen EXCEPT !.status = ClosedStatus(op)]
    IN  /\ op \in {"cancel", "reject"} /\ req[p].step = "flush"
        /\ BookingFree(p)
        /\ req' = [req EXCEPT ![p] =
                       Closing(op, IF op = "reject" THEN Flush(booking, seen, mine) ELSE mine)]
        /\ UNCHANGED <<booking, txn, stripe, world>>

\* Mutation: the sweep leaves requests alone that are paid for.
ExpireUnacceptedUnpaid(p) ==
    /\ Idle(p, "expire")
    /\ BookingFree(p)
    /\ booking.status = "pending" /\ booking.payment = "unpaid"
    /\ clock = "started"
    /\ req' = [req EXCEPT ![p] = Closing("expire", [booking EXCEPT !.status = "cancelled"])]
    /\ UNCHANGED <<booking, txn, stripe, world>>

\* The sweep reads the row FOR UPDATE SKIP LOCKED, so it works on the row itself.
ExpireUnaccepted(p) ==
    /\ Idle(p, "expire")
    /\ BookingFree(p)
    /\ booking.status = "pending"
    /\ clock = "started"
    /\ req' = [req EXCEPT ![p] = Closing("expire", [booking EXCEPT !.status = "cancelled"])]
    /\ UNCHANGED <<booking, txn, stripe, world>>

\* The best-effort refund: the transaction is read FOR UPDATE and Stripe called.
CloseRefund(p) ==
    /\ req[p].op \in Closers /\ req[p].step = "refund"
    /\ TxnFree(p)
    /\ Refundable(txn, Price)
    /\ StripeRefund(txn.session, Price)
    /\ req' = [req EXCEPT ![p].step = "commit", ![p].txn = RefundedTxn(txn, Price)]
    /\ UNCHANGED <<booking, txn, world>>

\* Mutation: the refund is recorded although it failed.
CloseRefundFailsRecorded(p) ==
    /\ req[p].op \in Closers /\ req[p].step = "refund"
    /\ TxnFree(p)
    /\ UNCHANGED stripe
    /\ req' = [req EXCEPT ![p].step = "commit", ![p].txn = RefundedTxn(txn, 0)]
    /\ UNCHANGED <<booking, txn, world>>

\* Mutation: the request waits until the transaction can be refunded.
CloseRefundFailsLater(p) ==
    /\ req[p].op \in Closers /\ req[p].step = "refund"
    /\ TxnFree(p)
    /\ Refundable(txn, Price)
    /\ UNCHANGED stripe
    /\ req' = [req EXCEPT ![p].step = "commit"]
    /\ UNCHANGED <<booking, txn, world>>

\* An AppError (no transaction, not refundable, window closed) or a StripeError
\* (refused, or made and not answered) is logged; the booking is closed anyway.
CloseRefundFails(p) ==
    /\ req[p].op \in Closers /\ req[p].step = "refund"
    /\ TxnFree(p)
    /\ \/ UNCHANGED stripe
       \/ Outages /\ Refundable(txn, Price) /\ StripeRefund(txn.session, Price)
    /\ req' = [req EXCEPT ![p].step = "commit"]
    /\ UNCHANGED <<booking, txn, world>>

\* remove_meeting clears the meeting the request's copy knows about.
CloseCommit(p) ==
    LET mine == req[p].booking
        paidBack == req[p].txn # NoTxn
        row  == [booking EXCEPT !.status = ClosedStatus(req[p].op)]
        new  == [mine EXCEPT !.payment = IF paidBack THEN "refunded" ELSE @,
                             !.meeting = FALSE]
    IN  /\ req[p].op \in Closers /\ req[p].step = "commit"
        /\ booking' = Flush(row, mine, new)
        /\ txn' = IF paidBack THEN req[p].txn ELSE txn
        /\ Finish(p)
        /\ UNCHANGED <<stripe, world>>

\* expire_stale_unpaid_bookings: also FOR UPDATE SKIP LOCKED, no refund, and the
\* checkout session is left as it is.
ExpireStaleUnpaid(p) ==
    /\ Idle(p, "expire_stale")
    /\ BookingFree(p)
    /\ booking.status = "pending"
    /\ booking.payment = "unpaid"
    /\ unpaidTooLong
    /\ txn.status # "succeeded"
    /\ booking' = [booking EXCEPT !.status = "cancelled"]
    /\ UNCHANGED <<txn, req, stripe, world>>

-----------------------------------------------------------------------------
(* create_checkout_session                                                 *)

Checkout(p) ==
    /\ Idle(p, "checkout")
    /\ booking.status \in Active
    /\ booking.payment = "unpaid"
    /\ Price > 0
    /\ connected
    /\ txn.status \in {"absent", "pending"}
    /\ req' = [req EXCEPT ![p] = [NoRequest EXCEPT !.op = "checkout", !.step = "create",
                                                   !.txn = txn]]
    /\ UNCHANGED <<booking, txn, stripe, world>>

\* Stripe still has the session open: its URL is returned again.
CheckoutResume(p) ==
    /\ At(p, "checkout", "create")
    /\ req[p].txn.session # NoSession
    /\ checkout[req[p].txn.session] = "open"
    /\ Finish(p)
    /\ UNCHANGED <<booking, txn, stripe, world>>

\* Stripe refuses to look up the session or to create one: the request rolls back.
CheckoutFails(p) ==
    /\ At(p, "checkout", "create")
    /\ Finish(p)
    /\ UNCHANGED <<booking, txn, stripe, world>>

\* Otherwise the row that was read is deleted and a new session created.
CheckoutCreate(p, s) ==
    LET existing == req[p].txn.session
    IN  /\ At(p, "checkout", "create")
        /\ existing # NoSession => checkout[existing] # "open" /\ TxnFree(p)
        /\ checkout[s] = "unused"
        /\ checkout' = [checkout EXCEPT ![s] = "created"]
        /\ req' = [req EXCEPT ![p].step = "insert", ![p].event.session = s]
        /\ UNCHANGED <<booking, txn, refunds, transferred, events, world>>

\* The insert succeeds if the row that was read is still the one there; the
\* caller then gets the URL.  Otherwise another checkout has won the unique
\* booking_id: the request rolls back and its session is never handed out.
CheckoutInsert(p) ==
    LET s == req[p].event.session
    IN  /\ At(p, "checkout", "insert")
        /\ IF txn.session \in {NoSession, req[p].txn.session}
           THEN /\ txn' = NewTxn(s)
                /\ checkout' = [checkout EXCEPT ![s] = IF @ = "created" THEN "open" ELSE @]
           ELSE UNCHANGED <<txn, checkout>>
        /\ Finish(p)
        /\ UNCHANGED <<booking, refunds, transferred, events, world>>

-----------------------------------------------------------------------------
(* Webhooks.  handle_webhook reads the transaction without a lock.         *)

\* Unless Stripe redelivers, an event is out of the way while it is handled.
Remaining(e) == IF StripeRedelivers THEN events ELSE events \ {e}

CompletedApplies(e) == txn.session = e.session /\ txn.status # "succeeded"

ExpiredApplies(e) == txn.session = e.session /\ txn.status = "pending"

\* Mutation: events are applied in whatever order they come.
RefundedAppliesUnordered(e) == txn.session = e.session /\ txn.charge

RefundedApplies(e) ==
    /\ txn.session = e.session /\ txn.charge
    /\ txn.status \in {"refunded", "partially_refunded"} => e.amount > txn.refunded

Applies(e) ==
    CASE e.type = "completed" -> CompletedApplies(e)
      [] e.type = "expired"   -> ExpiredApplies(e)
      [] e.type = "refunded"  -> RefundedApplies(e)

Receive(p, e) ==
    /\ Idle(p, e.type)
    /\ e \in events
    /\ Applies(e)
    /\ events' = Remaining(e)
    /\ req' = [req EXCEPT ![p] = [NoRequest EXCEPT !.op = e.type, !.step = "flush",
                                                   !.txn = txn, !.event = e]]
    /\ UNCHANGED <<booking, txn, checkout, refunds, transferred, world>>

\* The handler returns early and Stripe gets its 200.
Ignore(e) ==
    /\ e.type \in Ops
    /\ e \in events
    /\ ~Applies(e)
    /\ events' = Remaining(e)
    /\ UNCHANGED <<booking, txn, req, checkout, refunds, transferred, world>>

\* The first _log_event flushes the transaction; the booking is read after that.
WebhookFlush(p, op, new) ==
    /\ At(p, op, "flush")
    /\ TxnFree(p)
    /\ txn.session = req[p].txn.session
    /\ req' = [req EXCEPT ![p].step = "commit", ![p].booking = booking,
                          ![p].txn = Flush(txn, req[p].txn, new)]
    /\ UNCHANGED <<booking, txn, stripe, world>>

\* The call that looks up the charge may fail.
CompletedFlush(p) ==
    \E charge \in BOOLEAN :
        WebhookFlush(p, "completed", [req[p].txn EXCEPT !.status = "succeeded",
                                                       !.transfer = "pending",
                                                       !.charge = charge])

ExpiredFlush(p) == WebhookFlush(p, "expired", [req[p].txn EXCEPT !.status = "failed"])

RefundedFlush(p) ==
    LET amount == req[p].event.amount
    IN  WebhookFlush(p, "refunded",
            [req[p].txn EXCEPT
                !.refunded = amount,
                !.status   = IF amount >= Price THEN "refunded" ELSE "partially_refunded",
                !.transfer = IF @ = "pending" THEN "cancelled" ELSE @])

\* The hold starts anew, a pending booking is confirmed, and the meeting is
\* decided on the request's own copy.
CompletedCommit(p) ==
    LET seen == req[p].booking
        paid == [seen EXCEPT !.payment = "paid",
                             !.status = IF @ = "pending" THEN "confirmed" ELSE @]
    IN  /\ At(p, "completed", "commit")
        /\ BookingFree(p)
        /\ txn' = req[p].txn
        /\ \E zoom \in BOOLEAN :
             booking' = Flush(booking, seen, maybe_provision_meeting(paid, zoom))
        /\ holdOver' = FALSE
        /\ Finish(p)
        /\ UNCHANGED <<stripe, clock, unpaidTooLong, connected>>

\* A booking the handler has seen pending is cancelled, to release its slot.
CancelsBooking(r) == r.op = "expired" /\ r.booking.status = "pending"

ExpiredCommit(p) ==
    LET seen == req[p].booking
    IN  /\ At(p, "expired", "commit")
        /\ CancelsBooking(req[p]) => BookingFree(p)
        /\ txn' = req[p].txn
        /\ booking' = IF CancelsBooking(req[p])
                      THEN Flush(booking, seen, [seen EXCEPT !.status = "cancelled"])
                      ELSE booking
        /\ Finish(p)
        /\ UNCHANGED <<stripe, world>>

\* Mutation: the booking is not told of the refund.
RefundedCommitTxnOnly(p) ==
    /\ At(p, "refunded", "commit")
    /\ txn' = req[p].txn
    /\ Finish(p)
    /\ UNCHANGED <<booking, stripe, world>>

RefundedCommit(p) ==
    LET seen == req[p].booking
    IN  /\ At(p, "refunded", "commit")
        /\ BookingFree(p)
        /\ txn' = req[p].txn
        /\ booking' = Flush(booking, seen, [seen EXCEPT !.payment = "refunded"])
        /\ Finish(p)
        /\ UNCHANGED <<stripe, world>>

-----------------------------------------------------------------------------
(* run_due_transfers: FOR UPDATE SKIP LOCKED, a Stripe call, the commit    *)

\* attempts is capped at the limit it is compared with.
OneMoreAttempt(t) ==
    [t EXCEPT !.attempts = IF @ < MaxTransferAttempts THEN @ + 1 ELSE @]

\* Mutation: the limit on attempts is not applied.
FailedAttemptUnlimited(t) == OneMoreAttempt(t)

FailedAttempt(t) ==
    [OneMoreAttempt(t) EXCEPT
        !.transfer = IF t.attempts + 1 >= MaxTransferAttempts THEN "failed" ELSE @]

Due == txn.status = "succeeded" /\ txn.transfer = "pending" /\ holdOver

\* Mutation: the sweep does not lock the rows it reads.
StartTransferUnlocked(p, t) ==
    /\ Idle(p, "transfer")
    /\ Due
    /\ req' = [req EXCEPT ![p] = [NoRequest EXCEPT !.op = "transfer", !.step = "commit",
                                                   !.txn = t]]
    /\ UNCHANGED <<booking, txn, checkout, refunds, events, world>>

StartTransfer(p, t) ==
    /\ Idle(p, "transfer")
    /\ TxnFree(p)
    /\ Due
    /\ req' = [req EXCEPT ![p] = [NoRequest EXCEPT !.op = "transfer", !.step = "commit",
                                                   !.txn = t]]
    /\ UNCHANGED <<booking, txn, checkout, refunds, events, world>>

\* The idempotency key makes a second call return the first transfer.
TransferSent(p) ==
    /\ connected
    /\ StartTransfer(p, [txn EXCEPT !.transfer = "completed"])
    /\ transferred' = transferred \cup {txn.session}

\* Mutation: the payout is marked as made before Stripe is called.
TransferMarkedFirst(p) ==
    /\ connected
    /\ StartTransfer(p, [txn EXCEPT !.transfer = "completed"])
    /\ UNCHANGED transferred

\* Stripe refused, or made the transfer and did not answer.
TransferFails(p) ==
    /\ connected
    /\ StartTransfer(p, FailedAttempt(txn))
    /\ \/ UNCHANGED transferred
       \/ Outages /\ transferred' = transferred \cup {txn.session}

TransferWithoutAccount(p) ==
    /\ ~connected
    /\ StartTransfer(p, OneMoreAttempt(txn))
    /\ UNCHANGED transferred

TransferCommit(p) ==
    /\ At(p, "transfer", "commit")
    /\ txn' = req[p].txn
    /\ Finish(p)
    /\ UNCHANGED <<booking, stripe, world>>

-----------------------------------------------------------------------------
(* Requests that end without a commit                                      *)

Undelivered(p) == IF req[p].op \in Webhooks THEN {req[p].event} ELSE {}

RollBack(p) ==
    /\ Finish(p)
    /\ events' = events \cup Undelivered(p)
    /\ UNCHANGED <<booking, txn, checkout, refunds, transferred, world>>

\* The row a webhook read has been deleted by a checkout: the UPDATE matches no
\* row, the session raises, Stripe gets a 500 and delivers again.
RowGone(p) ==
    /\ req[p].op \in Webhooks /\ req[p].step = "flush"
    /\ TxnFree(p)
    /\ txn.session # req[p].txn.session
    /\ RollBack(p)

\* Two requests hold one row each and want the other's: the database aborts one.
WaitsForTxn(p) == req[p].op \in Closers /\ req[p].step = "refund"
WaitsForBooking(p) ==
    /\ req[p].step = "commit"
    /\ req[p].op \in {"completed", "refunded", "admin_refund"} \/ CancelsBooking(req[p])

Deadlock(p, q) ==
    /\ WaitsForTxn(p) /\ WaitsForBooking(q)
    /\ RollBack(p) \/ RollBack(q)

\* A process stops.  The answer to a webhook leaves before the commit, so at the
\* last step its event may already count as delivered.
Crash(p) ==
    /\ Outages
    /\ req[p].op # "idle"
    /\ \/ RollBack(p)
       \/ /\ req[p].op \in Webhooks /\ req[p].step = "commit"
          /\ Finish(p)
          /\ UNCHANGED <<booking, txn, stripe, world>>

-----------------------------------------------------------------------------
(* Stripe, its dashboard, the seeker's browser and the passing of time     *)

SeekerPays(s) ==
    /\ checkout[s] = "open"
    /\ checkout' = [checkout EXCEPT ![s] = "complete"]
    /\ events' = events \cup {[type |-> "completed", session |-> s, amount |-> 0]}
    /\ UNCHANGED <<booking, txn, req, refunds, transferred, world>>

SessionExpires(s) ==
    /\ "expired" \in Ops
    /\ checkout[s] \in {"created", "open"}
    /\ checkout' = [checkout EXCEPT ![s] = "expired"]
    /\ events' = events \cup {[type |-> "expired", session |-> s, amount |-> 0]}
    /\ UNCHANGED <<booking, txn, req, refunds, transferred, world>>

DashboardRefund(s, amount) ==
    /\ DashboardRefunds
    /\ checkout[s] = "complete"
    /\ StripeRefund(s, amount)
    /\ UNCHANGED <<booking, txn, req, world>>

\* Bound: a deadline is only followed when an operation of this instance has it.
TimePasses ==
    /\ \/ /\ Ops \cap {"complete", "no_show", "expire"} # {}
          /\ \/ clock = "early" /\ clock' = "notice"
             \/ clock = "notice" /\ clock' = "started"
          /\ UNCHANGED <<unpaidTooLong, holdOver>>
       \/ /\ "expire_stale" \in Ops
          /\ ~unpaidTooLong /\ unpaidTooLong' = TRUE
          /\ UNCHANGED <<clock, holdOver>>
       \/ /\ txn.transfer = "pending" /\ ~holdOver /\ holdOver' = TRUE
          /\ UNCHANGED <<clock, unpaidTooLong>>
    /\ UNCHANGED <<booking, txn, req, stripe, connected>>

\* disconnect_connect_account, and a new onboarding that completes.
ConnectionChanges ==
    /\ "disconnect" \in Ops
    /\ connected' = ~connected
    /\ UNCHANGED <<booking, txn, req, stripe, clock, unpaidTooLong, holdOver>>

-----------------------------------------------------------------------------
Advance(p) ==
    \/ AcceptCommit(p) \/ CompleteCommit(p) \/ NoShowCommit(p)
    \/ CloseFlush(p) \/ CloseRefund(p) \/ CloseRefundFails(p) \/ CloseCommit(p)
    \/ AdminRefundCommit(p)
    \/ CheckoutResume(p) \/ CheckoutFails(p)
    \/ (\E s \in Sessions : CheckoutCreate(p, s)) \/ CheckoutInsert(p)
    \/ CompletedFlush(p) \/ ExpiredFlush(p) \/ RefundedFlush(p)
    \/ CompletedCommit(p) \/ ExpiredCommit(p) \/ RefundedCommit(p)
    \/ TransferCommit(p)
    \/ RowGone(p)

UserCall(p) ==
    \/ Accept(p) \/ Complete(p) \/ MarkNoShow(p) \/ Reject(p) \/ Checkout(p)
    \/ \E actor \in {"seeker", "advisor"} : Cancel(p, actor)
    \/ \E amount \in 1 .. Price : AdminRefund(p, amount) \/ AdminRefundUnanswered(p, amount)

TransferSweep(p) == TransferSent(p) \/ TransferFails(p) \/ TransferWithoutAccount(p)
Sweep(p) == ExpireUnaccepted(p) \/ ExpireStaleUnpaid(p) \/ TransferSweep(p)
Webhook  == \E e \in events : Ignore(e) \/ \E p \in Requests : Receive(p, e)

World ==
    \/ \E s \in Sessions : SeekerPays(s) \/ SessionExpires(s)
    \/ \E s \in Sessions, amount \in 1 .. Price : DashboardRefund(s, amount)
    \/ TimePasses
    \/ ConnectionChanges

Next ==
    \/ \E p \in Requests : Advance(p) \/ UserCall(p) \/ Sweep(p) \/ Crash(p)
    \/ \E p, q \in Requests : Deadlock(p, q)
    \/ Webhook
    \/ World

Spec == Init /\ [][Next]_vars

\* A request that has begun goes on: no call waits without a time limit, and the
\* database grants a row lock in the order it was asked for (hence strong fairness).
\* It finds deadlocks, too.
RequestFairness ==
    /\ \A p \in Requests : SF_vars(Advance(p))
    /\ WF_vars(\E p, q \in Requests : Deadlock(p, q))

\* The scheduler starts each sweep again however busy the rows are, Stripe keeps
\* delivering, a checkout session has an expiry, time passes.  Users owe nothing.
WorldFairness ==
    /\ SF_vars(\E p \in Requests : TransferSweep(p))
    /\ SF_vars(\E p \in Requests : ExpireUnaccepted(p))
    /\ SF_vars(\E p \in Requests : ExpireStaleUnpaid(p))
    /\ SF_vars(Webhook)
    /\ WF_vars(\E s \in Sessions : SessionExpires(s))
    /\ WF_vars(TimePasses)

RequestSpec == Spec /\ RequestFairness
FairSpec == RequestSpec /\ WorldFairness

-----------------------------------------------------------------------------
(* What holds whatever Stripe, the dashboard and failing processes do      *)

\* The books never show money that did not move at Stripe.  A transaction that
\* _handle_checkout_completed or a refund settled is for a session the seeker
\* completed, and a priced booking leaves "unpaid" only after such a session.
Settled == {"succeeded", "partially_refunded", "refunded"}

PaymentsReal ==
    /\ txn.status \in Settled => checkout[txn.session] = "complete"
    /\ Price > 0 /\ booking.payment # "unpaid" =>
           \E s \in Sessions : checkout[s] = "complete"

\* No refund is recorded, on the transaction or on the booking, beyond what Stripe
\* paid back, though three handlers write refunds from copies they read earlier;
\* and Stripe is only made to refund what was paid.
RefundsReal ==
    /\ txn.session # NoSession => txn.refunded <= refunds[txn.session]
    /\ booking.payment = "refunded" => \E s \in Sessions : refunds[s] > 0
    /\ \A s \in Sessions : refunds[s] > 0 => checkout[s] = "complete"

\* A payout the sweep marked completed was made, and payouts are only made from
\* completed sessions.
TransfersReal ==
    /\ txn.transfer = "completed" => txn.session \in transferred
    /\ \A s \in transferred : checkout[s] = "complete"

\* The three together: no settlement, refund or payout is in the books that Stripe has
\* not made.
MoneyReal == PaymentsReal /\ RefundsReal /\ TransfersReal

\* accept: without the payment check "an unpaid booking can still be confirmed".
\* No interleaving of accept, complete, the webhook and the sweeps leads to a
\* confirmed, held or met booking that nobody has paid for.
ConfirmedWasPaid ==
    \/ booking.status \in {"confirmed", "completed", "no_show"}
    \/ booking.meeting
    \/ Price = 0
    => booking.payment # "unpaid"

\* A copy of the transaction row, read or about to be written, tells of Stripe
\* only what has happened there.
RowReal(t) ==
    /\ t.status \in Settled => checkout[t.session] = "complete"
    /\ t.session # NoSession => t.refunded <= refunds[t.session]
    /\ t.transfer = "completed" => t.session \in transferred

EventReal(e) ==
    /\ e.type \in {"completed", "refunded"} => checkout[e.session] = "complete"
    /\ e.type = "refunded" => e.amount \in 1 .. refunds[e.session]

RefundInFlight(r) ==
    \/ r.op = "admin_refund"
    \/ r.op \in Closers /\ r.txn # NoTxn

\* What a request knows of money and payment while it is in progress.
RequestReal(r) ==
    /\ RowReal(r.txn)
    /\ r.op \in Webhooks => EventReal(r.event)
    /\ RefundInFlight(r) => refunds[r.txn.session] > 0
    /\ r.op \in {"accept", "complete", "no_show"} => r.booking.payment # "unpaid"
    /\ r.booking.payment # "unpaid" => booking.payment # "unpaid"

\* A request may commit long after it read, called Stripe or was delivered.  The
\* copies it holds then may be stale, but what they say of money still holds, and
\* the payment that let an accept, a completion or a no-show through is still there.
InFlightReal ==
    /\ \A e \in events : EventReal(e)
    /\ \A p \in Requests : RequestReal(req[p])

-----------------------------------------------------------------------------
(* What holds when nothing outside the requests goes wrong                 *)

\* refund_transaction and run_due_transfers lock the transaction row, so that the
\* payout and a refund exclude each other.
PayoutOrRefund == \A s \in transferred : refunds[s] = 0

\* The booking and its transaction, written by every handler one after the
\* other, tell the same story after each commit.
StatusesAgree ==
    Price > 0 =>
        /\ booking.payment = "unpaid" => txn.status \in {"absent", "pending", "failed"}
        /\ booking.payment = "paid" => txn.status = "succeeded"
        /\ booking.payment = "refunded" => txn.status \in {"refunded", "partially_refunded"}

\* Refund events that arrive out of order never lower the recorded refund.
RefundedGrows ==
    [][txn'.session = txn.session => txn'.refunded >= txn.refunded]_vars

\* "Idempotent against duplicate webhook delivery": a hold that was paid out,
\* cancelled or given up is not armed again by a second checkout.session.completed.
HoldArmedOnce ==
    [][txn'.session = txn.session /\ txn.transfer \notin {"none", "pending"} =>
           txn'.transfer # "pending"]_vars

\* Requests served one after the other keep the promises of BookingLifecycle.
Lifecycle == INSTANCE BookingLifecycle
                 WITH status <- booking.status, payment <- booking.payment
LifecycleSpec == Lifecycle!Spec

-----------------------------------------------------------------------------
(* What must eventually happen                                             *)

\* The sweeps release the slot of a request that nobody pays for or accepts.
RequestsEnd == (booking.status = "pending") ~> (booking.status # "pending")

\* A payment that is held is in the end paid out, refunded or given up, as long as
\* the advisor stays connected: without an account the sweep retries for ever.
HoldEnds == (txn.transfer = "pending") ~> (txn.transfer # "pending" \/ ~connected)

\* No request waits for another for ever, whatever rows they lock.
RequestsReturn == \A p \in Requests : req[p].op # "idle" ~> req[p].op = "idle"

=============================================================================
