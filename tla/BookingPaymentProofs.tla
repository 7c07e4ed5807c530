----------------------- MODULE BookingPaymentProofs -----------------------
(* What holds of BookingPayment for every price, every number of requests   *)
(* and sessions, and whatever Stripe, its dashboard and failing processes   *)
(* do.                                                                      *)
EXTENDS BookingPayment, TLAPS

USE SessionAssumption, PriceAssumption, AttemptsAssumption

\* A flush of a well-typed booking is one, attribute by attribute.
LEMMA FlushBooking ==
    ASSUME NEW row \in Booking, NEW seen \in Booking, NEW new \in Booking
    PROVE  /\ Flush(row, seen, new) \in Booking
           /\ Flush(row, seen, new).status \in {row.status, new.status}
           /\ Flush(row, seen, new).payment = IF new.payment = seen.payment
                                              THEN row.payment ELSE new.payment
           /\ Flush(row, seen, new).meeting \in {row.meeting, new.meeting}
BY DEF Flush, Booking

\* A flush of a well-typed transaction row is one, attribute by attribute.
LEMMA FlushTxn ==
    ASSUME NEW row \in Txn, NEW seen \in Txn, NEW new \in Txn
    PROVE  /\ Flush(row, seen, new) \in Txn
           /\ Flush(row, seen, new).session = IF new.session = seen.session
                                              THEN row.session ELSE new.session
           /\ Flush(row, seen, new).status = IF new.status = seen.status
                                             THEN row.status ELSE new.status
           /\ Flush(row, seen, new).transfer = IF new.transfer = seen.transfer
                                               THEN row.transfer ELSE new.transfer
           /\ Flush(row, seen, new).refunded = IF new.refunded = seen.refunded
                                               THEN row.refunded ELSE new.refunded
BY DEF Flush, Txn

\* The values a variable starts from, or returns to, are well typed.
LEMMA Typing ==
    /\ NewBooking \in Booking
    /\ NoTxn \in Txn /\ RowTyped(NoTxn)
    /\ NoRequest \in Request /\ RequestTyped(NoRequest)
    /\ \A s \in Sessions : NewTxn(s) \in Txn /\ RowTyped(NewTxn(s))
<1>1. NewBooking \in Booking
  BY DEF NewBooking, Booking, BookingStatus, PaymentStatus
<1>2. NoTxn \in Txn /\ RowTyped(NoTxn)
  BY DEF NoTxn, Txn, TransactionStatus, TransferStatus, Amount, RowTyped
<1>3. NoRequest \in Request /\ RequestTyped(NoRequest)
  BY <1>1, <1>2 DEF NoRequest, Request, RequestTyped, Op, Closers, Webhooks, Amount
<1>4. \A s \in Sessions : NewTxn(s) \in Txn /\ RowTyped(NewTxn(s))
  BY <1>2 DEF NewTxn, NoTxn, Txn, TransactionStatus, TransferStatus, Amount, RowTyped
<1> QED BY <1>1, <1>2, <1>3, <1>4

\* Both kinds of initial state are well typed.
LEMMA InitTypeOK == Init => TypeOK
<1> SUFFICES ASSUME Init PROVE TypeOK
  OBVIOUS
<1>1. booking \in Booking /\ txn \in Txn /\ RowTyped(txn)
  <2>1. CASE NewInit
    BY <2>1, Typing DEF NewInit
  <2>2. CASE PaidInit
    <3>1. booking \in Booking
      BY <2>2 DEF PaidInit, Booking, BookingStatus, PaymentStatus
    <3>2. PICK s \in Sessions :
            txn = [NewTxn(s) EXCEPT !.status = "succeeded", !.transfer = "pending",
                                    !.charge = TRUE]
      BY <2>2 DEF PaidInit
    <3>3. txn \in Txn
      BY <3>2, Typing DEF Txn, TransactionStatus, TransferStatus
    <3>4. RowTyped(txn)
      BY <3>2 DEF RowTyped, NewTxn, NoTxn
    <3> QED BY <3>1, <3>3, <3>4
  <2> QED BY <2>1, <2>2 DEF Init
<1>2. checkout \in [Sessions -> SessionState]
  BY DEF Init, NewInit, PaidInit, SessionState
<1>3. req \in [Requests -> Request] /\ \A p \in Requests : RequestTyped(req[p])
  BY Typing DEF Init
<1>4. refunds \in [Sessions -> Amount]
  BY DEF Init, Amount
<1>5. {unpaidTooLong, holdOver, connected} \subseteq BOOLEAN
  BY DEF Init
<1> QED BY <1>1, <1>2, <1>3, <1>4, <1>5 DEF Init, TypeOK

-----------------------------------------------------------------------------
(* Types: one step changes one request, and each action is typed by itself *)

\* A step that gives one request a well-typed record keeps all of them typed.
LEMMA OneRequest ==
    ASSUME TypeOK, NEW p \in Requests, NEW r \in Request, RequestTyped(r),
           req' = [req EXCEPT ![p] = r]
    PROVE  req' \in [Requests -> Request] /\ \A q \in Requests : RequestTyped(req'[q])
BY DEF TypeOK

\* A request that ends is an idle one again, which is well typed.
LEMMA FinishTyped ==
    ASSUME TypeOK, NEW p \in Requests, Finish(p)
    PROVE  req' \in [Requests -> Request] /\ \A q \in Requests : RequestTyped(req'[q])
BY OneRequest, Typing DEF Finish

\* A request that has read the booking, and nothing else.
LEMMA ReadBookingTyped ==
    ASSUME TypeOK, NEW p \in Requests,
           NEW op \in {"accept", "complete", "no_show", "cancel", "reject"},
           ReadBooking(p, op), UNCHANGED <<booking, txn, stripe, world>>
    PROVE  TypeOK'
<1> DEFINE r == [NoRequest EXCEPT !.op = op, !.step = "flush", !.booking = booking]
<1>1. r \in Request /\ RequestTyped(r)
  <2>1. r.op = op /\ r.txn = NoTxn
    BY DEF NoRequest
  <2>2. r \in Request
    BY Typing DEF TypeOK, Request, Op, Closers, Webhooks
  <2> QED BY <2>1, <2>2, Typing DEF RequestTyped, Closers, Webhooks
<1>2. req' = [req EXCEPT ![p] = r]
  BY DEF ReadBooking
<1> QED BY <1>1, <1>2, OneRequest DEF TypeOK, stripe, world

\* A refund at Stripe keeps the amounts within the price, and announces one of them.
LEMMA StripeRefundTyped ==
    ASSUME TypeOK, NEW s \in Sessions, NEW amount \in Amount, StripeRefund(s, amount)
    PROVE  /\ refunds' \in [Sessions -> Amount]
           /\ events' \subseteq Event
           /\ checkout' = checkout /\ transferred' = transferred
           /\ refunds[s] < refunds'[s]
           /\ \A t \in Sessions : refunds[t] <= refunds'[t]
           /\ amount <= Price - refunds[s] => refunds[s] + amount <= refunds'[s]
           /\ amount = Price => refunds'[s] = Price
           /\ events' = events \cup
                {[type |-> "refunded", session |-> s, amount |-> refunds'[s]]}
BY DEF TypeOK, StripeRefund, Amount, Event

\* The row a refund leaves is well typed when the refund was allowed.
LEMMA RefundedTxnTyped ==
    ASSUME NEW t \in Txn, RowTyped(t), NEW amount \in Amount, Refundable(t, amount)
    PROVE  /\ RefundedTxn(t, amount) \in Txn
           /\ RowTyped(RefundedTxn(t, amount))
           /\ t.session \in Sessions
           /\ RefundedTxn(t, amount).session = t.session
           /\ RefundedTxn(t, amount).refunded = t.refunded + amount
           /\ RefundedTxn(t, amount).status \in Settled
           /\ RefundedTxn(t, amount).transfer # "completed"
<1>1. t.status # "absent" /\ t.session \in Sessions
  BY DEF Refundable, RowTyped, Txn
<1>2. t.refunded + amount \in Amount
  BY DEF Refundable, Txn, Amount
<1>3. RefundedTxn(t, amount) \in Txn
  BY <1>2 DEF RefundedTxn, Txn, TransactionStatus, TransferStatus
<1> QED BY <1>1, <1>3 DEF RefundedTxn, RowTyped, Refundable, Txn, Settled

\* What a request has read is well typed.
LEMMA InFlightTyped ==
    ASSUME TypeOK, NEW p \in Requests
    PROVE  /\ req[p] \in Request
           /\ req[p].booking \in Booking
           /\ req[p].txn \in Txn /\ RowTyped(req[p].txn)
           /\ req[p].event.session \in Sessions \cup {NoSession}
           /\ req[p].event.amount \in Amount
           /\ req[p].op \in Webhooks => /\ req[p].event \in Event
                                        /\ req[p].event.session = req[p].txn.session
                                        /\ req[p].txn.session \in Sessions
BY DEF TypeOK, Request, RequestTyped, Event

\* A status written over a copy, and the row it makes.
LEMMA StatusFlushTyped ==
    ASSUME TypeOK, NEW p \in Requests, NEW status \in BookingStatus
    PROVE  Flush(booking, req[p].booking, [req[p].booking EXCEPT !.status = status])
               \in Booking
<1>1. [req[p].booking EXCEPT !.status = status] \in Booking
  BY InFlightTyped DEF Booking
<1> QED BY <1>1, InFlightTyped, FlushBooking DEF TypeOK

\* The commit of an acceptance keeps types.
LEMMA AcceptCommitTyped ==
    ASSUME TypeOK, NEW p \in Requests, AcceptCommit(p)
    PROVE  TypeOK'
<1> DEFINE row == Flush(booking, req[p].booking,
                        [req[p].booking EXCEPT !.status = "confirmed"])
<1>1. row \in Booking
  BY StatusFlushTyped DEF BookingStatus
<1>2. \A zoom \in BOOLEAN : maybe_provision_meeting(row, zoom) \in Booking
  BY <1>1 DEF maybe_provision_meeting, Booking
<1>3. booking' \in Booking
  BY <1>2 DEF AcceptCommit
<1> QED BY <1>3, FinishTyped DEF AcceptCommit, TypeOK, stripe, world

\* The commit of a completion or a no-show keeps types.
LEMMA OutcomeCommitTyped ==
    ASSUME TypeOK, NEW p \in Requests, NEW op, NEW status \in BookingStatus,
           OutcomeCommit(p, op, status)
    PROVE  TypeOK'
<1>1. booking' \in Booking
  BY StatusFlushTyped DEF OutcomeCommit
<1> QED BY <1>1, FinishTyped DEF OutcomeCommit, TypeOK, stripe, world

\* A refund by an administrator keeps types, answered or not.
LEMMA AdminRefundTyped ==
    ASSUME TypeOK, NEW p \in Requests, NEW amount \in 1 .. Price,
           AdminRefund(p, amount) \/ AdminRefundUnanswered(p, amount)
    PROVE  TypeOK'
<1>1. amount \in Amount /\ Refundable(txn, amount) /\ StripeRefund(txn.session, amount)
  BY DEF AdminRefund, AdminRefundUnanswered, Amount
<1>2. /\ RefundedTxn(txn, amount) \in Txn /\ RowTyped(RefundedTxn(txn, amount))
      /\ txn.session \in Sessions /\ RefundedTxn(txn, amount).session = txn.session
  BY <1>1, RefundedTxnTyped DEF TypeOK
<1>3. refunds' \in [Sessions -> Amount] /\ events' \subseteq Event
      /\ checkout' = checkout /\ transferred' = transferred
  BY <1>1, <1>2, StripeRefundTyped
<1>4. req' \in [Requests -> Request] /\ \A q \in Requests : RequestTyped(req'[q])
  <2>1. CASE AdminRefund(p, amount)
    <3> DEFINE r == [NoRequest EXCEPT !.op = "admin_refund", !.step = "commit",
                                      !.txn = RefundedTxn(txn, amount)]
    <3>1. r.op = "admin_refund" /\ r.txn = RefundedTxn(txn, amount)
      BY DEF NoRequest
    <3>2. r \in Request
      BY <1>2, Typing DEF Request, Op
    <3>3. RequestTyped(r)
      BY <1>2, <3>1 DEF RequestTyped, Closers, Webhooks
    <3> HIDE DEF r
    <3>4. req' = [req EXCEPT ![p] = r]
      BY <2>1 DEF AdminRefund, r
    <3> QED BY <3>2, <3>3, <3>4, OneRequest
  <2>2. CASE AdminRefundUnanswered(p, amount)
    BY <2>2 DEF AdminRefundUnanswered, TypeOK
  <2> QED BY <2>1, <2>2
<1> QED BY <1>3, <1>4 DEF AdminRefund, AdminRefundUnanswered, TypeOK, world

\* The commit of an administrator's refund keeps types.
LEMMA AdminRefundCommitTyped ==
    ASSUME TypeOK, NEW p \in Requests, AdminRefundCommit(p)
    PROVE  TypeOK'
<1>1. txn' \in Txn /\ RowTyped(txn')
  BY InFlightTyped DEF AdminRefundCommit
<1>2. booking' \in Booking
  BY DEF AdminRefundCommit, TypeOK, Booking, PaymentStatus
<1> QED BY <1>1, <1>2, FinishTyped DEF AdminRefundCommit, TypeOK, stripe, world

\* A request about to close a booking is well typed.
LEMMA ClosingTyped ==
    ASSUME NEW op \in Closers, NEW b \in Booking
    PROVE  /\ Closing(op, b) \in Request /\ RequestTyped(Closing(op, b))
           /\ Closing(op, b).op = op
           /\ Closing(op, b).txn = NoTxn
           /\ Closing(op, b).booking = b
<1>1. Closing(op, b).op = op /\ Closing(op, b).txn = NoTxn /\ Closing(op, b).booking = b
  BY DEF Closing, NoRequest
<1>2. Closing(op, b) \in Request
  BY Typing DEF Closing, Request, Op, Closers
<1> QED BY <1>1, <1>2, Typing DEF RequestTyped, Closers, Webhooks

\* The flush that closes a booking keeps types.
LEMMA CloseFlushTyped ==
    ASSUME TypeOK, NEW p \in Requests, CloseFlush(p)
    PROVE  TypeOK'
<1> DEFINE op   == req[p].op
           mine == [req[p].booking EXCEPT !.status = ClosedStatus(op)]
           row  == Flush(booking, req[p].booking, mine)
           b    == IF op = "reject" THEN row ELSE mine
<1>1. op \in Closers /\ ClosedStatus(op) \in BookingStatus
  BY DEF CloseFlush, Closers, ClosedStatus, BookingStatus
<1>2. mine \in Booking
  BY <1>1, InFlightTyped DEF Booking
<1>3. row \in Booking
  BY <1>1, StatusFlushTyped
<1>4. b \in Booking /\ req' = [req EXCEPT ![p] = Closing(op, b)]
  BY <1>2, <1>3 DEF CloseFlush
<1> HIDE DEF b, op
<1> QED BY <1>1, <1>4, ClosingTyped, OneRequest DEF CloseFlush, TypeOK, stripe, world

\* The sweep of requests nobody accepted keeps types.
LEMMA ExpireUnacceptedTyped ==
    ASSUME TypeOK, NEW p \in Requests, ExpireUnaccepted(p)
    PROVE  TypeOK'
<1> DEFINE b == [booking EXCEPT !.status = "cancelled"]
<1>1. b \in Booking
  BY DEF TypeOK, Booking, BookingStatus
<1>2. req' = [req EXCEPT ![p] = Closing("expire", b)] /\ "expire" \in Closers
  BY DEF ExpireUnaccepted, Closers
<1> HIDE DEF b
<1> QED BY <1>1, <1>2, ClosingTyped, OneRequest DEF ExpireUnaccepted, TypeOK, stripe, world

\* The refund of a booking being closed keeps types.
LEMMA CloseRefundTyped ==
    ASSUME TypeOK, NEW p \in Requests, CloseRefund(p)
    PROVE  TypeOK'
<1> DEFINE t == RefundedTxn(txn, Price)
           r == [req[p] EXCEPT !.step = "commit", !.txn = t]
<1>1. Price \in Amount /\ Refundable(txn, Price) /\ StripeRefund(txn.session, Price)
  BY DEF CloseRefund, Amount
<1>2. t \in Txn /\ RowTyped(t) /\ t.session = txn.session /\ txn.session \in Sessions
  BY <1>1, RefundedTxnTyped DEF TypeOK
<1>3. refunds' \in [Sessions -> Amount] /\ events' \subseteq Event
      /\ checkout' = checkout /\ transferred' = transferred
  BY <1>1, <1>2, StripeRefundTyped
<1> HIDE DEF t
<1>4. r \in Request /\ r.op = req[p].op /\ r.txn = t
  BY <1>2, InFlightTyped DEF Request
<1>5. RequestTyped(r)
  BY <1>2, <1>4 DEF CloseRefund, RequestTyped, Closers, Webhooks
<1>6. req' = [req EXCEPT ![p] = r]
  BY DEF CloseRefund, TypeOK, t
<1> HIDE DEF r
<1> QED BY <1>3, <1>4, <1>5, <1>6, OneRequest DEF CloseRefund, TypeOK, world

\* A refund that fails leaves the closing request without one, well typed.
LEMMA CloseRefundFailsTyped ==
    ASSUME TypeOK, NEW p \in Requests, CloseRefundFails(p)
    PROVE  TypeOK'
<1> DEFINE r == [req[p] EXCEPT !.step = "commit"]
<1>1. /\ refunds' \in [Sessions -> Amount] /\ events' \subseteq Event
      /\ checkout' = checkout /\ transferred' = transferred
  <2>1. CASE UNCHANGED stripe
    BY <2>1 DEF TypeOK, stripe
  <2>2. CASE Refundable(txn, Price) /\ StripeRefund(txn.session, Price)
    <3>1. Price \in Amount
      BY DEF Amount
    <3>2. txn.session \in Sessions
      BY <2>2, <3>1, RefundedTxnTyped DEF TypeOK
    <3> QED BY <2>2, <3>1, <3>2, StripeRefundTyped
  <2> QED BY <2>1, <2>2 DEF CloseRefundFails
<1>2. r \in Request /\ r.op = req[p].op /\ r.txn = req[p].txn
  BY InFlightTyped DEF Request
<1>3. RequestTyped(r)
  BY <1>2 DEF CloseRefundFails, RequestTyped, TypeOK
<1>4. req' = [req EXCEPT ![p] = r]
  BY DEF CloseRefundFails, TypeOK
<1> HIDE DEF r
<1> QED BY <1>1, <1>2, <1>3, <1>4, OneRequest DEF CloseRefundFails, TypeOK, world

\* The booking a closing request commits.
LEMMA CloseCommitBooking ==
    ASSUME TypeOK, NEW p \in Requests, CloseCommit(p)
    PROVE  /\ booking' \in Booking
           /\ booking'.status = ClosedStatus(req[p].op)
           /\ booking'.payment \in {booking.payment} \cup
                  IF req[p].txn # NoTxn THEN {"refunded"} ELSE {}
           /\ booking'.meeting \in {booking.meeting, FALSE}
<1> DEFINE mine == req[p].booking
           row  == [booking EXCEPT !.status = ClosedStatus(req[p].op)]
           new  == [mine EXCEPT !.payment = IF req[p].txn # NoTxn THEN "refunded" ELSE @,
                                !.meeting = FALSE]
<1>1. ClosedStatus(req[p].op) \in BookingStatus
  BY DEF ClosedStatus, BookingStatus
<1>2. row \in Booking /\ mine \in Booking /\ new \in Booking
  BY <1>1, InFlightTyped DEF TypeOK, Booking, PaymentStatus
<1>3. booking' = Flush(row, mine, new)
  BY DEF CloseCommit
<1>4. /\ row.payment = booking.payment /\ row.meeting = booking.meeting
      /\ row.status = ClosedStatus(req[p].op)
      /\ new.meeting = FALSE /\ new.status = mine.status
      /\ new.payment = IF req[p].txn # NoTxn THEN "refunded" ELSE mine.payment
  BY InFlightTyped DEF TypeOK, Booking
<1>5. booking'.status = ClosedStatus(req[p].op)
  BY <1>2, <1>3, <1>4 DEF Flush, Booking
<1> HIDE DEF row, mine, new
<1>6. /\ booking' \in Booking
      /\ booking'.payment = IF new.payment = mine.payment
                            THEN booking.payment ELSE new.payment
      /\ booking'.meeting \in {row.meeting, new.meeting}
  BY <1>2, <1>3, <1>4, FlushBooking
<1>7. booking'.payment \in {booking.payment} \cup
          IF req[p].txn # NoTxn THEN {"refunded"} ELSE {}
  BY <1>4, <1>6
<1>8. booking'.meeting \in {booking.meeting, FALSE}
  BY <1>4, <1>6
<1> QED BY <1>5, <1>6, <1>7, <1>8

\* The commit that closes a booking keeps types.
LEMMA CloseCommitTyped ==
    ASSUME TypeOK, NEW p \in Requests, CloseCommit(p)
    PROVE  TypeOK'
<1>1. txn' \in Txn /\ RowTyped(txn')
  BY InFlightTyped DEF CloseCommit, TypeOK
<1> QED BY <1>1, CloseCommitBooking, FinishTyped DEF CloseCommit, TypeOK, stripe, world

\* Every step of a checkout keeps types.
LEMMA CheckoutTyped ==
    ASSUME TypeOK, NEW p \in Requests,
           \/ Checkout(p) \/ CheckoutResume(p) \/ CheckoutFails(p)
           \/ \E s \in Sessions : CheckoutCreate(p, s)
           \/ CheckoutInsert(p)
    PROVE  TypeOK'
<1>1. CASE Checkout(p)
  <2> DEFINE r == [NoRequest EXCEPT !.op = "checkout", !.step = "create", !.txn = txn]
  <2>1. r.op = "checkout" /\ r.step = "create" /\ r.txn = txn
    BY DEF NoRequest
  <2>2. r \in Request
    BY Typing DEF Request, Op, TypeOK
  <2>3. RequestTyped(r)
    BY <2>1 DEF RequestTyped, Closers, Webhooks, TypeOK
  <2>4. req' = [req EXCEPT ![p] = r]
    BY <1>1 DEF Checkout
  <2> HIDE DEF r
  <2> QED BY <1>1, <2>2, <2>3, <2>4, OneRequest DEF Checkout, TypeOK, stripe, world
<1>2. CASE CheckoutResume(p)
  BY <1>2, FinishTyped DEF CheckoutResume, TypeOK, stripe, world
<1>3. CASE CheckoutFails(p)
  BY <1>3, FinishTyped DEF CheckoutFails, TypeOK, stripe, world
<1>4. ASSUME NEW s \in Sessions, CheckoutCreate(p, s)
      PROVE  TypeOK'
  <2> DEFINE r == [req[p] EXCEPT !.step = "insert", !.event.session = s]
  <2>1. checkout' \in [Sessions -> SessionState]
    BY <1>4 DEF CheckoutCreate, TypeOK, SessionState
  <2>2. r.op = "checkout" /\ r.txn = req[p].txn /\ r.event.session = s
    BY <1>4, InFlightTyped DEF CheckoutCreate, At, Request
  <2>3. r \in Request
    <3>1. req[p] \in Request
      BY InFlightTyped
    <3>2. [req[p].event EXCEPT !.session = s] \in
              [type : Webhooks \cup {"none"}, session : Sessions \cup {NoSession},
               amount : Amount]
      BY <3>1 DEF Request
    <3> QED BY <3>1, <3>2 DEF Request
  <2>4. RequestTyped(r)
    BY <2>2, InFlightTyped DEF RequestTyped, Closers, Webhooks
  <2>5. req' = [req EXCEPT ![p] = r]
    BY <1>4 DEF CheckoutCreate, TypeOK
  <2> HIDE DEF r
  <2> QED BY <1>4, <2>1, <2>3, <2>4, <2>5, OneRequest DEF CheckoutCreate, TypeOK, world
<1>5. CASE CheckoutInsert(p)
  <2> DEFINE s == req[p].event.session
  <2>1. s \in Sessions
    BY <1>5, InFlightTyped DEF CheckoutInsert, At, TypeOK, RequestTyped
  <2>2. txn' \in Txn /\ RowTyped(txn')
    BY <1>5, <2>1, Typing DEF CheckoutInsert, TypeOK
  <2>3. checkout' \in [Sessions -> SessionState]
    BY <1>5, <2>1 DEF CheckoutInsert, TypeOK, SessionState
  <2> QED BY <1>5, <2>2, <2>3, FinishTyped DEF CheckoutInsert, TypeOK, world
<1> QED BY <1>1, <1>2, <1>3, <1>4, <1>5

\* A webhook that is received is about a session some row had.
LEMMA ReceiveTyped ==
    ASSUME TypeOK, NEW p \in Requests, NEW e \in events, Receive(p, e)
    PROVE  TypeOK'
<1> DEFINE r == [NoRequest EXCEPT !.op = e.type, !.step = "flush",
                                  !.txn = txn, !.event = e]
<1>1. /\ e \in Event /\ e.type \in Webhooks /\ txn.session = e.session
      /\ e.session \in Sessions /\ e.amount \in Amount
  BY DEF TypeOK, Event, Webhooks, Receive, Applies, CompletedApplies, ExpiredApplies,
     RefundedApplies
<1>2. r.op = e.type /\ r.txn = txn /\ r.event = e
  BY DEF NoRequest
<1>3. r \in Request
  <2>1. e \in [type : Webhooks \cup {"none"}, session : Sessions \cup {NoSession},
               amount : Amount]
    BY <1>1 DEF Event, Webhooks
  <2> QED BY <1>1, <2>1, Typing DEF Request, Op, TypeOK
<1>4. RequestTyped(r)
  BY <1>1, <1>2 DEF RequestTyped, TypeOK, Webhooks
<1>5. req' = [req EXCEPT ![p] = r]
  BY DEF Receive
<1>6. events' \subseteq Event
  BY DEF Receive, Remaining, TypeOK
<1> HIDE DEF r
<1> QED BY <1>3, <1>4, <1>5, <1>6, OneRequest DEF Receive, TypeOK, world

\* An event that matches no row is answered and keeps types.
LEMMA IgnoreTyped ==
    ASSUME TypeOK, NEW e \in events, Ignore(e)
    PROVE  TypeOK'
<1>1. events' \subseteq Event
  BY DEF Ignore, Remaining, TypeOK
<1> QED BY <1>1 DEF Ignore, TypeOK, world

WebhookStep(p) == CompletedFlush(p) \/ ExpiredFlush(p) \/ RefundedFlush(p)

\* What a webhook leaves in its request once it has flushed the transaction row t.
Flushed(p, t) ==
    req' = [req EXCEPT ![p].step = "commit", ![p].booking = booking, ![p].txn = t]

\* The flush of a webhook gives its request a row with the session it read.
LEMMA WebhookFlushRow ==
    ASSUME TypeOK, NEW p \in Requests, NEW op \in Webhooks, NEW new \in Txn,
           new.session = req[p].txn.session, new.status # "absent",
           WebhookFlush(p, op, new)
    PROVE  \E t \in Txn :
             /\ RowTyped(t) /\ t.session = txn.session
             /\ txn.session \in Sessions /\ txn.session = req[p].event.session
             /\ t.status \in {txn.status, new.status}
             /\ t.refunded = IF new.refunded = req[p].txn.refunded
                             THEN txn.refunded ELSE new.refunded
             /\ t.transfer = IF new.transfer = req[p].txn.transfer
                             THEN txn.transfer ELSE new.transfer
             /\ Flushed(p, t)
<1> DEFINE seen == req[p].txn
           t    == Flush(txn, seen, new)
<1>1. /\ txn.session = seen.session /\ seen.session \in Sessions
      /\ seen.session = req[p].event.session /\ new.session = seen.session
  BY InFlightTyped DEF WebhookFlush, At
<1>2. txn \in Txn /\ seen \in Txn /\ RowTyped(txn)
  BY InFlightTyped DEF TypeOK
<1>3. Flushed(p, t)
  BY DEF WebhookFlush, Flushed
<1>4. /\ t \in Txn
      /\ t.session = txn.session
      /\ t.status \in {txn.status, new.status}
      /\ t.refunded = IF new.refunded = seen.refunded THEN txn.refunded ELSE new.refunded
      /\ t.transfer = IF new.transfer = seen.transfer THEN txn.transfer ELSE new.transfer
  <2> HIDE DEF seen
  <2> QED BY <1>1, <1>2, FlushTxn
<1>5. RowTyped(t)
  BY <1>1, <1>2, <1>4 DEF RowTyped
<1> HIDE DEF t
<1> QED BY <1>1, <1>3, <1>4, <1>5

\* The row that a webhook flushes and then holds.  A completed event makes it paid,
\* a refunded event records the amount it brings, and none marks a payout made.
LEMMA FlushedRow ==
    ASSUME TypeOK, NEW p \in Requests, WebhookStep(p)
    PROVE  \E t \in Txn :
             /\ RowTyped(t) /\ t.session = txn.session
             /\ txn.session \in Sessions /\ txn.session = req[p].event.session
             /\ req[p].op \in Webhooks
             /\ t.status \in Settled => txn.status \in Settled \/ req[p].op # "expired"
             /\ t.refunded # txn.refunded =>
                    req[p].op = "refunded" /\ t.refunded = req[p].event.amount
             /\ t.transfer = "completed" => txn.transfer = "completed"
             /\ Flushed(p, t)
<1> DEFINE seen == req[p].txn
<1>1. seen \in Txn /\ req[p].event.amount \in Amount
  BY InFlightTyped
<1>2. CASE CompletedFlush(p)
  <2>1. PICK charge \in BOOLEAN :
          WebhookFlush(p, "completed", [seen EXCEPT !.status = "succeeded",
                                                    !.transfer = "pending",
                                                    !.charge = charge])
    BY <1>2 DEF CompletedFlush
  <2> DEFINE new == [seen EXCEPT !.status = "succeeded", !.transfer = "pending",
                                 !.charge = charge]
  <2>2. /\ new \in Txn /\ new.session = seen.session /\ new.status = "succeeded"
        /\ new.refunded = seen.refunded /\ new.transfer = "pending"
    BY <1>1 DEF Txn, TransactionStatus, TransferStatus
  <2>3. req[p].op = "completed" /\ "completed" \in Webhooks
    BY <2>1 DEF WebhookFlush, At, Webhooks
  <2> HIDE DEF new
  <2>4. WebhookFlush(p, "completed", new)
    BY <2>1 DEF new
  <2> QED BY <2>2, <2>3, <2>4, WebhookFlushRow
<1>3. CASE ExpiredFlush(p)
  <2> DEFINE new == [seen EXCEPT !.status = "failed"]
  <2>1. /\ new \in Txn /\ new.session = seen.session /\ new.status = "failed"
        /\ new.refunded = seen.refunded /\ new.transfer = seen.transfer
    BY <1>1 DEF Txn, TransactionStatus
  <2>2. WebhookFlush(p, "expired", new) /\ req[p].op = "expired" /\ "expired" \in Webhooks
    BY <1>3 DEF ExpiredFlush, WebhookFlush, At, Webhooks
  <2> HIDE DEF new
  <2> QED BY <2>1, <2>2, WebhookFlushRow DEF Settled
<1>4. CASE RefundedFlush(p)
  <2> DEFINE amount == req[p].event.amount
             new == [seen EXCEPT
                       !.refunded = amount,
                       !.status   = IF amount >= Price THEN "refunded"
                                                       ELSE "partially_refunded",
                       !.transfer = IF @ = "pending" THEN "cancelled" ELSE @]
  <2>1. /\ new \in Txn /\ new.session = seen.session
        /\ new.status \in {"refunded", "partially_refunded"}
        /\ new.refunded = amount /\ new.transfer \in {"cancelled", seen.transfer}
    BY <1>1 DEF Txn, TransactionStatus, TransferStatus
  <2>2. WebhookFlush(p, "refunded", new) /\ req[p].op = "refunded"
        /\ "refunded" \in Webhooks
    BY <1>4 DEF RefundedFlush, WebhookFlush, At, Webhooks
  <2> HIDE DEF new
  <2> QED BY <2>1, <2>2, WebhookFlushRow
<1> QED BY <1>2, <1>3, <1>4 DEF WebhookStep

\* The flush of a webhook, whatever its type, keeps types.
LEMMA WebhookStepTyped ==
    ASSUME TypeOK, NEW p \in Requests, WebhookStep(p)
    PROVE  TypeOK'
<1>1. PICK t \in Txn : /\ RowTyped(t) /\ t.session = req[p].event.session
                       /\ req[p].op \in Webhooks /\ Flushed(p, t)
  BY FlushedRow
<1> DEFINE r == [req[p] EXCEPT !.step = "commit", !.booking = booking, !.txn = t]
<1>2. /\ r.op = req[p].op /\ r.event = req[p].event /\ r.txn = t
  BY InFlightTyped DEF Request
<1>3. r \in Request
  BY InFlightTyped DEF Request, TypeOK
<1>4. RequestTyped(r)
  BY <1>1, <1>2 DEF RequestTyped, TypeOK, Closers, Webhooks
<1>5. req' = [req EXCEPT ![p] = r]
  BY <1>1 DEF TypeOK, Flushed
<1>6. UNCHANGED <<booking, txn, stripe, world>>
  BY DEF WebhookStep, CompletedFlush, ExpiredFlush, RefundedFlush, WebhookFlush
<1> HIDE DEF r
<1> QED BY <1>3, <1>4, <1>5, <1>6, OneRequest DEF TypeOK, stripe, world

\* The booking the completed webhook commits.
LEMMA CompletedCommitBooking ==
    ASSUME TypeOK, NEW p \in Requests, CompletedCommit(p)
    PROVE  /\ booking' \in Booking
           /\ booking'.payment = IF req[p].booking.payment = "paid"
                                 THEN booking.payment ELSE "paid"
<1> DEFINE seen == req[p].booking
           paid == [seen EXCEPT !.payment = "paid",
                                !.status = IF @ = "pending" THEN "confirmed" ELSE @]
<1>1. PICK zoom \in BOOLEAN :
        booking' = Flush(booking, seen, maybe_provision_meeting(paid, zoom))
  BY DEF CompletedCommit
<1> DEFINE new == maybe_provision_meeting(paid, zoom)
<1>2. seen \in Booking /\ booking \in Booking
  BY InFlightTyped DEF TypeOK
<1>3. paid \in Booking /\ paid.payment = "paid"
  BY <1>2 DEF Booking, BookingStatus, PaymentStatus
<1> HIDE DEF paid
<1>4. new \in Booking /\ new.payment = "paid"
  BY <1>3 DEF maybe_provision_meeting, Booking
<1> HIDE DEF new
<1>5. booking' = Flush(booking, seen, new)
  BY <1>1 DEF new
<1> HIDE DEF seen
<1>6. booking' \in Booking
      /\ booking'.payment = IF seen.payment = "paid" THEN booking.payment ELSE "paid"
  BY <1>2, <1>4, <1>5, FlushBooking
<1> QED BY <1>6 DEF seen

\* The commit of a completed checkout keeps types.
LEMMA CompletedCommitTyped ==
    ASSUME TypeOK, NEW p \in Requests, CompletedCommit(p)
    PROVE  TypeOK'
<1>1. booking' \in Booking
  BY CompletedCommitBooking
<1>2. txn' \in Txn /\ RowTyped(txn')
  BY InFlightTyped DEF CompletedCommit
<1>3. {unpaidTooLong', holdOver', connected'} \subseteq BOOLEAN
  BY DEF CompletedCommit, TypeOK
<1>4. checkout' \in [Sessions -> SessionState] /\ refunds' \in [Sessions -> Amount]
      /\ transferred' \subseteq Sessions /\ events' \subseteq Event
      /\ clock' \in {"early", "notice", "started"}
  BY DEF CompletedCommit, TypeOK, stripe
<1>5. req' \in [Requests -> Request] /\ \A q \in Requests : RequestTyped(req'[q])
  BY FinishTyped DEF CompletedCommit
<1> QED BY <1>1, <1>2, <1>3, <1>4, <1>5 DEF TypeOK

\* The booking that the expired webhook commits.
LEMMA ExpiredCommitBooking ==
    ASSUME TypeOK, NEW p \in Requests, ExpiredCommit(p)
    PROVE  /\ booking' \in Booking
           /\ booking'.payment = booking.payment
           /\ booking'.status \in {booking.status, "cancelled"}
           /\ booking'.meeting = booking.meeting
<1> DEFINE b   == req[p].booking
           off == [b EXCEPT !.status = "cancelled"]
<1>1. booking \in Booking /\ b \in Booking
  BY InFlightTyped DEF TypeOK
<1>2. booking' \in {booking, Flush(booking, b, off)}
  BY DEF ExpiredCommit
<1>3. off \in Booking
  BY <1>1 DEF Booking, BookingStatus
<1>4. Flush(booking, b, off).meeting = booking.meeting
      /\ Flush(booking, b, off).payment = booking.payment
      /\ Flush(booking, b, off).status \in {booking.status, "cancelled"}
  BY <1>1 DEF Flush, Booking
<1> HIDE DEF off, b
<1> QED BY <1>1, <1>2, <1>3, <1>4, FlushBooking

\* The booking that the refunded webhook commits.
LEMMA RefundedCommitBooking ==
    ASSUME TypeOK, NEW p \in Requests, RefundedCommit(p)
    PROVE  /\ booking' \in Booking
           /\ booking'.payment \in {booking.payment, "refunded"}
           /\ booking'.payment = booking.payment => req[p].booking.payment = "refunded"
                                                 \/ booking.payment = "refunded"
           /\ booking'.status = booking.status /\ booking'.meeting = booking.meeting
<1>1. booking \in Booking /\ req[p].booking \in Booking
  BY InFlightTyped DEF TypeOK
<1>2. [req[p].booking EXCEPT !.payment = "refunded"] \in Booking
  BY <1>1 DEF Booking, PaymentStatus
<1>3. booking' = Flush(booking, req[p].booking,
                       [req[p].booking EXCEPT !.payment = "refunded"])
  BY DEF RefundedCommit
<1>4. booking' \in Booking
  BY <1>1, <1>2, <1>3, FlushBooking
<1> QED BY <1>1, <1>3, <1>4 DEF Flush, Booking

\* The commit of an expired or refunded event keeps types.
LEMMA WebhookCommitTyped ==
    ASSUME TypeOK, NEW p \in Requests, ExpiredCommit(p) \/ RefundedCommit(p)
    PROVE  TypeOK'
<1>1. txn' \in Txn /\ RowTyped(txn')
  BY InFlightTyped DEF ExpiredCommit, RefundedCommit
<1>2. booking' \in Booking
  BY ExpiredCommitBooking, RefundedCommitBooking
<1> QED BY <1>1, <1>2, FinishTyped DEF ExpiredCommit, RefundedCommit, TypeOK, stripe, world

\* The row a pass of the payout sweep will commit.
LEMMA TransferRow ==
    ASSUME TypeOK, NEW p \in Requests, TransferSweep(p)
    PROVE  \E t \in Txn :
             /\ RowTyped(t) /\ t.session = txn.session /\ txn.session \in Sessions
             /\ txn.status = "succeeded" /\ t.status = txn.status
             /\ t.refunded = txn.refunded
             /\ t.transfer = "completed" => TransferSent(p)
             /\ StartTransfer(p, t)
<1>1. ASSUME NEW t \in Txn, t.session = txn.session, t.status = txn.status,
             t.refunded = txn.refunded, t.transfer = "completed" => TransferSent(p),
             StartTransfer(p, t)
      PROVE  \E u \in Txn :
             /\ RowTyped(u) /\ u.session = txn.session /\ txn.session \in Sessions
             /\ txn.status = "succeeded" /\ u.status = txn.status
             /\ u.refunded = txn.refunded
             /\ u.transfer = "completed" => TransferSent(p)
             /\ StartTransfer(p, u)
  <2>1. txn.status = "succeeded"
    BY <1>1 DEF StartTransfer, Due
  <2>2. txn.session \in Sessions /\ RowTyped(t)
    BY <1>1, <2>1 DEF TypeOK, RowTyped, Txn
  <2> QED BY <1>1, <2>1, <2>2
<1> DEFINE more   == OneMoreAttempt(txn)
           failed == FailedAttempt(txn)
           sent   == [txn EXCEPT !.transfer = "completed"]
<1>2. txn \in Txn
  BY DEF TypeOK
<1>3. /\ more \in Txn /\ more.session = txn.session /\ more.status = txn.status
      /\ more.refunded = txn.refunded /\ more.transfer = txn.transfer
  BY <1>2 DEF OneMoreAttempt, Txn
<1>4. /\ failed \in Txn /\ failed.session = txn.session /\ failed.status = txn.status
      /\ failed.refunded = txn.refunded /\ failed.transfer \in {txn.transfer, "failed"}
  BY <1>3 DEF FailedAttempt, Txn, TransferStatus
<1>5. /\ sent \in Txn /\ sent.session = txn.session /\ sent.status = txn.status
      /\ sent.refunded = txn.refunded
  BY <1>2 DEF Txn, TransferStatus
<1>6. txn.transfer = "pending"
  BY DEF TransferSweep, TransferSent, TransferFails, TransferWithoutAccount,
     StartTransfer, Due
<1>7. CASE TransferSent(p)
  <2>1. StartTransfer(p, sent)
    BY <1>7 DEF TransferSent
  <2> HIDE DEF sent
  <2> QED BY <1>1, <1>5, <1>7, <2>1
<1>8. CASE TransferFails(p)
  <2>1. StartTransfer(p, failed)
    BY <1>8 DEF TransferFails
  <2> HIDE DEF failed
  <2> QED BY <1>1, <1>4, <1>6, <2>1
<1>9. CASE TransferWithoutAccount(p)
  <2>1. StartTransfer(p, more)
    BY <1>9 DEF TransferWithoutAccount
  <2> HIDE DEF more
  <2> QED BY <1>1, <1>3, <1>6, <2>1
<1> QED BY <1>7, <1>8, <1>9 DEF TransferSweep

\* Every step of the transfer sweep keeps types.
LEMMA TransferTyped ==
    ASSUME TypeOK, NEW p \in Requests, TransferSweep(p) \/ TransferCommit(p)
    PROVE  TypeOK'
<1>1. CASE TransferSweep(p)
  <2>1. PICK t \in Txn : /\ RowTyped(t) /\ t.session = txn.session
                         /\ txn.session \in Sessions /\ StartTransfer(p, t)
    BY <1>1, TransferRow
  <2> DEFINE r == [NoRequest EXCEPT !.op = "transfer", !.step = "commit", !.txn = t]
  <2>2. r.op = "transfer" /\ r.txn = t
    BY DEF NoRequest
  <2>3. r \in Request
    BY Typing DEF Request, Op
  <2>4. RequestTyped(r)
    BY <2>1, <2>2 DEF RequestTyped, Closers, Webhooks
  <2>5. req' = [req EXCEPT ![p] = r]
    BY <2>1 DEF StartTransfer
  <2>6. transferred' \subseteq Sessions
    BY <1>1, <2>1 DEF TransferSweep, TransferSent, TransferFails, TransferWithoutAccount,
       TypeOK
  <2> HIDE DEF r
  <2> QED BY <2>1, <2>3, <2>4, <2>5, <2>6, OneRequest DEF StartTransfer, TypeOK, world
<1>2. CASE TransferCommit(p)
  <2>1. txn' \in Txn /\ RowTyped(txn')
    BY <1>2, InFlightTyped DEF TransferCommit
  <2> QED BY <1>2, <2>1, FinishTyped DEF TransferCommit, TypeOK, stripe, world
<1> QED BY <1>1, <1>2

\* A roll back returns the event to Stripe and keeps types.
LEMMA RollBackTyped ==
    ASSUME TypeOK, NEW p \in Requests, RollBack(p)
    PROVE  TypeOK'
<1>1. events' \subseteq Event
  BY InFlightTyped DEF RollBack, Undelivered, TypeOK
<1> QED BY <1>1, FinishTyped DEF RollBack, TypeOK, world

\* A process that stops keeps types.
LEMMA CrashTyped ==
    ASSUME TypeOK, NEW p \in Requests, Crash(p)
    PROVE  TypeOK'
<1>1. CASE RollBack(p)
  BY <1>1, RollBackTyped
<1>2. CASE Finish(p) /\ UNCHANGED <<booking, txn, stripe, world>>
  BY <1>2, FinishTyped DEF TypeOK, stripe, world
<1> QED BY <1>1, <1>2 DEF Crash

\* The sweep of requests nobody paid for keeps types.
LEMMA ExpireStaleUnpaidTyped ==
    ASSUME TypeOK, NEW p \in Requests, ExpireStaleUnpaid(p)
    PROVE  TypeOK'
<1>1. booking' \in Booking
  BY DEF ExpireStaleUnpaid, TypeOK, Booking, BookingStatus
<1> QED BY <1>1 DEF ExpireStaleUnpaid, TypeOK, stripe, world

\* What happens outside the requests keeps types.
LEMMA WorldTyped ==
    ASSUME TypeOK, World
    PROVE  TypeOK'
<1>1. ASSUME NEW s \in Sessions, SeekerPays(s) \/ SessionExpires(s)
      PROVE  TypeOK'
  <2>1. checkout' \in [Sessions -> SessionState]
    BY <1>1 DEF SeekerPays, SessionExpires, TypeOK, SessionState
  <2>2. events' \subseteq Event
    BY <1>1 DEF SeekerPays, SessionExpires, TypeOK, Event, Amount
  <2> QED BY <1>1, <2>1, <2>2 DEF SeekerPays, SessionExpires, TypeOK, world
<1>2. ASSUME NEW s \in Sessions, NEW amount \in 1 .. Price, DashboardRefund(s, amount)
      PROVE  TypeOK'
  <2>1. amount \in Amount /\ StripeRefund(s, amount)
    BY <1>2 DEF DashboardRefund, Amount
  <2> QED BY <1>2, <2>1, StripeRefundTyped DEF DashboardRefund, TypeOK, world
<1>3. CASE TimePasses
  <2>1. clock' \in {"early", "notice", "started"}
    BY <1>3 DEF TimePasses, TypeOK
  <2>2. {unpaidTooLong', holdOver', connected'} \subseteq BOOLEAN
    BY <1>3 DEF TimePasses, TypeOK
  <2> QED BY <1>3, <2>1, <2>2 DEF TimePasses, TypeOK, stripe
<1>4. CASE ConnectionChanges
  <2>1. {unpaidTooLong', holdOver', connected'} \subseteq BOOLEAN
    BY <1>4 DEF ConnectionChanges, TypeOK
  <2> QED BY <1>4, <2>1 DEF ConnectionChanges, TypeOK, stripe
<1> QED BY <1>1, <1>2, <1>3, <1>4 DEF World

\* Every step keeps types: one case for each action.
LEMMA NextTypeOK == TypeOK /\ [Next]_vars => TypeOK'
<1> SUFFICES ASSUME TypeOK, [Next]_vars PROVE TypeOK'
  OBVIOUS
<1>1. ASSUME NEW p \in Requests, Advance(p) PROVE TypeOK'
  <2>1. CASE CompleteCommit(p) \/ NoShowCommit(p)
    BY <2>1, OutcomeCommitTyped DEF CompleteCommit, NoShowCommit, BookingStatus
  <2>2. CASE RowGone(p)
    BY <2>2, RollBackTyped DEF RowGone
  <2> QED BY <1>1, <2>1, <2>2, AcceptCommitTyped, CloseFlushTyped, CloseRefundTyped,
          CloseRefundFailsTyped, CloseCommitTyped, AdminRefundCommitTyped, CheckoutTyped,
          WebhookStepTyped, CompletedCommitTyped, WebhookCommitTyped, TransferTyped
          DEF Advance, WebhookStep
<1>2. ASSUME NEW p \in Requests, UserCall(p) PROVE TypeOK'
  BY <1>2, ReadBookingTyped, CheckoutTyped, AdminRefundTyped
  DEF UserCall, Accept, Complete, MarkNoShow, Reject, Cancel
<1>3. ASSUME NEW p \in Requests, Sweep(p) PROVE TypeOK'
  BY <1>3, ExpireUnacceptedTyped, ExpireStaleUnpaidTyped, TransferTyped DEF Sweep
<1>4. ASSUME NEW p \in Requests, NEW q \in Requests, Deadlock(p, q) PROVE TypeOK'
  BY <1>4, RollBackTyped DEF Deadlock
<1>5. CASE Webhook
  BY <1>5, ReceiveTyped, IgnoreTyped DEF Webhook
<1>6. CASE UNCHANGED vars
  BY <1>6 DEF TypeOK, vars, stripe, world
<1> QED BY <1>1, <1>2, <1>3, <1>4, <1>5, <1>6, CrashTyped, WorldTyped DEF Next

\* Every row, every copy of a row a request works on and every event of Stripe is
\* what its type says, however requests, sweeps, webhooks and crashes interleave:
\* in particular no refund recorded or asked for is ever beyond the price.
THEOREM TypeCorrect == Spec => []TypeOK
BY InitTypeOK, NextTypeOK, PTL DEF Spec

-----------------------------------------------------------------------------
(* The books are real.  The invariants of BookingPayment are inductive      *)
(* together with what requests in flight and undelivered events know: a row *)
(* is only ever written from a copy, so the copies have to be true as well. *)

BooksReal == PaymentsReal /\ RefundsReal /\ TransfersReal /\ ConfirmedWasPaid
IInv == TypeOK /\ BooksReal /\ InFlightReal

\* What Stripe has done is never undone.
StripeGrows ==
    /\ \A s \in Sessions : checkout[s] = "complete" => checkout'[s] = "complete"
    /\ \A s \in Sessions : refunds[s] <= refunds'[s]
    /\ transferred \subseteq transferred'

\* RowReal, EventReal and RequestReal of a row, an event and a request, after a step.
RowLater(t) ==
    /\ t.status \in Settled => checkout'[t.session] = "complete"
    /\ t.session # NoSession => t.refunded <= refunds'[t.session]
    /\ t.transfer = "completed" => t.session \in transferred'

EventLater(e) ==
    /\ e.type \in {"completed", "refunded"} => checkout'[e.session] = "complete"
    /\ e.type = "refunded" => e.amount \in 1 .. refunds'[e.session]

RequestLater(r) ==
    /\ RowLater(r.txn)
    /\ r.op \in Webhooks => EventLater(r.event)
    /\ RefundInFlight(r) => refunds'[r.txn.session] > 0
    /\ r.op \in {"accept", "complete", "no_show"} => r.booking.payment # "unpaid"
    /\ r.booking.payment # "unpaid" => booking'.payment # "unpaid"

\* What a row tells of Stripe stays true, as Stripe takes nothing back.
LEMMA RowStays ==
    ASSUME TypeOK, TypeOK', StripeGrows, NEW t \in Txn, RowTyped(t), RowReal(t)
    PROVE  RowLater(t)
<1>1. CASE t.session = NoSession
  BY <1>1 DEF RowReal, RowLater, RowTyped, Settled, StripeGrows, TypeOK
<1>2. CASE t.session \in Sessions
  <2>1. /\ refunds[t.session] <= refunds'[t.session]
        /\ refunds[t.session] \in Nat /\ refunds'[t.session] \in Nat /\ t.refunded \in Nat
    BY <1>2 DEF StripeGrows, TypeOK, Txn, Amount
  <2>2. t.session # NoSession => t.refunded <= refunds'[t.session]
    BY <1>2, <2>1 DEF RowReal
  <2> QED BY <1>2, <2>2 DEF RowReal, RowLater, StripeGrows
<1> QED BY <1>1, <1>2 DEF Txn

\* What an event tells of Stripe stays true, as Stripe takes nothing back.
LEMMA EventStays ==
    ASSUME TypeOK, TypeOK', StripeGrows, NEW e \in Event, EventReal(e)
    PROVE  EventLater(e)
<1>1. e.session \in Sessions
  BY DEF Event
<1>2. /\ refunds[e.session] <= refunds'[e.session]
      /\ refunds[e.session] \in Nat /\ refunds'[e.session] \in Nat
  BY <1>1 DEF StripeGrows, TypeOK, Amount
<1> QED BY <1>1, <1>2 DEF EventReal, EventLater, StripeGrows

\* What a request knows stays true when Stripe grows and the booking stays paid.
LEMMA RequestStays ==
    ASSUME TypeOK, TypeOK', StripeGrows,
           booking.payment # "unpaid" => booking'.payment # "unpaid",
           NEW p \in Requests, RequestReal(req[p])
    PROVE  RequestLater(req[p])
<1>1. RowLater(req[p].txn)
  BY InFlightTyped, RowStays DEF RequestReal
<1>2. req[p].op \in Webhooks => EventLater(req[p].event)
  BY InFlightTyped, EventStays DEF RequestReal
<1>3. ASSUME RefundInFlight(req[p])
      PROVE  refunds'[req[p].txn.session] > 0
  <2>1. req[p].txn.session \in Sessions \cup {NoSession}
    BY InFlightTyped DEF Txn
  <2>2. req[p].txn.session # NoSession
    BY <1>3 DEF TypeOK, RequestTyped, RefundInFlight
  <2> QED BY <1>3, <2>1, <2>2 DEF RequestReal, StripeGrows, TypeOK, Amount
<1> QED BY <1>1, <1>2, <1>3 DEF RequestReal, RequestLater

\* A refund only raises what Stripe has paid back.
LEMMA RefundGrows ==
    ASSUME TypeOK, NEW s \in Sessions, NEW amount \in Amount, StripeRefund(s, amount)
    PROVE  StripeGrows
BY StripeRefundTyped DEF StripeGrows

\* A step that leaves Stripe alone takes nothing back.
LEMMA SameStripe ==
    ASSUME TypeOK, checkout' = checkout, refunds' = refunds, transferred' = transferred
    PROVE  StripeGrows
BY DEF StripeGrows, TypeOK, Amount

\* No step undoes what Stripe has done.
LEMMA NextStripeGrows == TypeOK /\ [Next]_vars => StripeGrows
<1> SUFFICES ASSUME TypeOK, [Next]_vars PROVE StripeGrows
  OBVIOUS
<1>1. ASSUME NEW p \in Requests, NEW q \in Requests, RollBack(p)
      PROVE  StripeGrows
  BY <1>1, SameStripe DEF RollBack
<1>2. ASSUME Price \in Amount, Refundable(txn, Price), StripeRefund(txn.session, Price)
      PROVE  StripeGrows
  BY <1>2, RefundedTxnTyped, RefundGrows DEF TypeOK
<1>3. ASSUME NEW p \in Requests, Advance(p)
      PROVE  StripeGrows
  <2>1. CASE CloseRefund(p) \/ CloseRefundFails(p)
    BY <1>2, <2>1, SameStripe DEF CloseRefund, CloseRefundFails, Amount, stripe
  <2>2. CASE \E s \in Sessions : CheckoutCreate(p, s)
    BY <2>2 DEF CheckoutCreate, StripeGrows, TypeOK, Amount
  <2>3. CASE CheckoutInsert(p)
    BY <2>3 DEF CheckoutInsert, StripeGrows, TypeOK, Amount
  <2>4. CASE RowGone(p)
    BY <2>4, <1>1 DEF RowGone
  <2>5. CASE \/ AcceptCommit(p) \/ CompleteCommit(p) \/ NoShowCommit(p) \/ CloseFlush(p)
             \/ CloseCommit(p) \/ AdminRefundCommit(p) \/ CheckoutResume(p)
             \/ CheckoutFails(p) \/ WebhookStep(p) \/ CompletedCommit(p)
             \/ ExpiredCommit(p) \/ RefundedCommit(p) \/ TransferCommit(p)
    <3>1. UNCHANGED stripe
      BY <2>5 DEF AcceptCommit, CompleteCommit, NoShowCommit, OutcomeCommit, CloseFlush,
         CloseCommit, AdminRefundCommit, CheckoutResume, CheckoutFails, WebhookStep,
         CompletedFlush, ExpiredFlush, RefundedFlush, WebhookFlush,
         CompletedCommit, ExpiredCommit, RefundedCommit, TransferCommit
    <3> QED BY <3>1, SameStripe DEF stripe
  <2> QED BY <1>3, <2>1, <2>2, <2>3, <2>4, <2>5 DEF Advance, WebhookStep
<1>4. ASSUME NEW p \in Requests, UserCall(p)
      PROVE  StripeGrows
  <2>1. ASSUME NEW amount \in 1 .. Price,
               AdminRefund(p, amount) \/ AdminRefundUnanswered(p, amount)
        PROVE  StripeGrows
    <3>1. amount \in Amount /\ Refundable(txn, amount) /\ StripeRefund(txn.session, amount)
      BY <2>1 DEF AdminRefund, AdminRefundUnanswered, Amount
    <3> QED BY <3>1, RefundedTxnTyped, RefundGrows DEF TypeOK
  <2> QED BY <1>4, <2>1, SameStripe
          DEF UserCall, Accept, Complete, MarkNoShow, Reject, Checkout, Cancel, stripe
<1>5. ASSUME NEW p \in Requests, Sweep(p)
      PROVE  StripeGrows
  <2>1. CASE TransferSweep(p)
    BY <2>1 DEF TransferSweep, TransferSent, TransferFails, TransferWithoutAccount,
       StartTransfer, StripeGrows, TypeOK, Amount
  <2> QED BY <1>5, <2>1, SameStripe DEF Sweep, ExpireUnaccepted, ExpireStaleUnpaid, stripe
<1>6. ASSUME NEW p \in Requests, Crash(p)
      PROVE  StripeGrows
  BY <1>1, <1>6, SameStripe DEF Crash, stripe
<1>7. CASE Webhook
  BY <1>7, SameStripe DEF Webhook, Ignore, Receive
<1>8. CASE World
  <2>1. ASSUME NEW s \in Sessions, SeekerPays(s) \/ SessionExpires(s)
        PROVE  StripeGrows
    BY <2>1 DEF SeekerPays, SessionExpires, StripeGrows, TypeOK, Amount
  <2>2. ASSUME NEW s \in Sessions, NEW amount \in 1 .. Price, DashboardRefund(s, amount)
        PROVE  StripeGrows
    BY <2>2, RefundGrows DEF DashboardRefund, Amount
  <2> QED BY <1>8, <2>1, <2>2, SameStripe DEF World, TimePasses, ConnectionChanges, stripe
<1>9. CASE UNCHANGED vars
  BY <1>9, SameStripe DEF vars, stripe
<1> QED BY <1>1, <1>3, <1>4, <1>5, <1>6, <1>7, <1>8, <1>9 DEF Next, Deadlock

\* What a step may do to the booking: a payment comes from a completed session, a
\* refund from Stripe, and nothing is confirmed, held or met unpaid.
BookingLater ==
    /\ booking.payment # "unpaid" => booking'.payment # "unpaid"
    /\ Price > 0 /\ booking'.payment # "unpaid" =>
           booking.payment # "unpaid" \/ \E s \in Sessions : checkout'[s] = "complete"
    /\ booking'.payment = "refunded" =>
           booking.payment = "refunded" \/ \E s \in Sessions : refunds'[s] > 0
    /\ booking'.status \in {"confirmed", "completed", "no_show"} \/ booking'.meeting =>
           booking'.payment # "unpaid"

\* A step that leaves the booking alone leaves what is known of it true.
LEMMA SameBooking ==
    ASSUME IInv, booking' = booking
    PROVE  BookingLater
BY DEF BookingLater, IInv, BooksReal, ConfirmedWasPaid

\* The row after a request has flushed a new status.
WithStatus(p, status) ==
    Flush(booking, req[p].booking, [req[p].booking EXCEPT !.status = status])

\* A flush of a status alone leaves payment and meeting as they are.
LEMMA StatusFlush ==
    ASSUME TypeOK, NEW p \in Requests, NEW status \in BookingStatus
    PROVE  /\ WithStatus(p, status) \in Booking
           /\ WithStatus(p, status).payment = booking.payment
           /\ WithStatus(p, status).meeting = booking.meeting
           /\ WithStatus(p, status).status \in {booking.status, status}
<1>1. booking \in Booking /\ req[p].booking \in Booking
  BY InFlightTyped DEF TypeOK
<1>2. WithStatus(p, status) \in Booking
  BY StatusFlushTyped DEF WithStatus
<1> QED BY <1>1, <1>2 DEF Flush, Booking, WithStatus

\* An acceptance confirms a booking that is paid for or free.
LEMMA AcceptCommitBooking ==
    ASSUME IInv, NEW p \in Requests, AcceptCommit(p)
    PROVE  BookingLater
<1>1. PICK zoom \in BOOLEAN :
        booking' = maybe_provision_meeting(WithStatus(p, "confirmed"), zoom)
  BY DEF AcceptCommit, WithStatus
<1>2. /\ WithStatus(p, "confirmed") \in Booking
      /\ WithStatus(p, "confirmed").payment = booking.payment
  BY StatusFlush DEF IInv, BookingStatus
<1>3. req[p].booking.payment # "unpaid" /\ booking.payment # "unpaid"
  BY DEF AcceptCommit, At, IInv, InFlightReal, RequestReal
<1>4. booking'.payment = booking.payment
  BY <1>1, <1>2 DEF maybe_provision_meeting, Booking
<1> QED BY <1>3, <1>4 DEF BookingLater

\* A completion or a no-show closes a booking that is paid for or free.
LEMMA OutcomeCommitBooking ==
    ASSUME IInv, NEW p \in Requests, CompleteCommit(p) \/ NoShowCommit(p)
    PROVE  BookingLater
<1>1. booking' \in {WithStatus(p, "completed"), WithStatus(p, "no_show")}
  BY DEF CompleteCommit, NoShowCommit, OutcomeCommit, WithStatus
<1>2. booking'.payment = booking.payment
  BY <1>1, StatusFlush DEF IInv, BookingStatus
<1>3. booking.payment # "unpaid"
  BY DEF CompleteCommit, NoShowCommit, OutcomeCommit, At, IInv, InFlightReal, RequestReal
<1> QED BY <1>2, <1>3 DEF BookingLater

\* A refund that a request holds is a refund that Stripe has made.
LEMMA RefundHeld ==
    ASSUME IInv, NEW p \in Requests, RefundInFlight(req[p])
    PROVE  req[p].txn.session \in Sessions /\ refunds[req[p].txn.session] > 0
<1>1. req[p].txn.session # NoSession
  BY DEF IInv, TypeOK, RequestTyped, RefundInFlight
<1>2. req[p].txn.session \in Sessions
  BY <1>1, InFlightTyped DEF IInv, Txn
<1> QED BY <1>2 DEF IInv, InFlightReal, RequestReal

\* The booking is marked refunded after Stripe has paid back.
LEMMA AdminRefundCommitBooking ==
    ASSUME IInv, NEW p \in Requests, AdminRefundCommit(p)
    PROVE  BookingLater
<1>1. booking'.payment = "refunded"
  BY DEF AdminRefundCommit, IInv, TypeOK, Booking
<1>2. PICK s \in Sessions : refunds[s] > 0
  BY RefundHeld DEF AdminRefundCommit, At, RefundInFlight
<1>3. checkout[s] = "complete"
  BY <1>2 DEF IInv, BooksReal, RefundsReal
<1> QED BY <1>1, <1>2, <1>3 DEF BookingLater, AdminRefundCommit, stripe

\* A booking that is closed is marked refunded only after Stripe has paid back.
LEMMA CloseCommitReal ==
    ASSUME IInv, NEW p \in Requests, CloseCommit(p)
    PROVE  BookingLater
<1>1. /\ booking'.status \in {"cancelled", "rejected"}
      /\ booking'.payment \in {booking.payment} \cup
             IF req[p].txn # NoTxn THEN {"refunded"} ELSE {}
      /\ booking'.meeting => booking.meeting
  BY CloseCommitBooking DEF IInv, ClosedStatus
<1>2. booking'.meeting => booking'.payment # "unpaid"
  BY <1>1 DEF IInv, BooksReal, ConfirmedWasPaid
<1>3. CASE booking'.payment = booking.payment
  BY <1>1, <1>2, <1>3 DEF BookingLater
<1>4. CASE booking'.payment = "refunded" /\ req[p].txn # NoTxn
  <2>1. PICK s \in Sessions : refunds[s] > 0
    BY <1>4, RefundHeld DEF CloseCommit, RefundInFlight
  <2>2. checkout[s] = "complete"
    BY <2>1 DEF IInv, BooksReal, RefundsReal
  <2> QED BY <1>4, <2>1, <2>2 DEF BookingLater, CloseCommit, stripe
<1> QED BY <1>1, <1>3, <1>4

\* A booking is marked paid only from an event of a completed session.
LEMMA CompletedCommitReal ==
    ASSUME IInv, NEW p \in Requests, CompletedCommit(p)
    PROVE  BookingLater
<1> DEFINE s == req[p].event.session
<1>1. booking'.payment \in {booking.payment, "paid"} /\ booking'.payment # "unpaid"
  <2>1. req[p].booking.payment # "unpaid" => booking.payment # "unpaid"
    BY DEF IInv, InFlightReal, RequestReal
  <2> QED BY <2>1, CompletedCommitBooking DEF IInv
<1>2. s \in Sessions /\ checkout[s] = "complete"
  <2>1. req[p].op \in Webhooks /\ req[p].op = "completed"
    BY DEF CompletedCommit, At, Webhooks
  <2>2. s \in Sessions /\ req[p].event.type = "completed"
    BY <2>1, InFlightTyped DEF IInv, TypeOK, RequestTyped, Event
  <2>3. EventReal(req[p].event)
    BY <2>1 DEF IInv, InFlightReal, RequestReal
  <2> QED BY <2>2, <2>3 DEF EventReal
<1>3. checkout' = checkout
  BY DEF CompletedCommit, stripe
<1> HIDE DEF s
<1> QED BY <1>1, <1>2, <1>3 DEF BookingLater

\* A refund event in progress tells of an amount Stripe has paid back.
LEMMA RefundedEventHeld ==
    ASSUME IInv, NEW p \in Requests, RefundedCommit(p)
    PROVE  /\ req[p].event.session \in Sessions
           /\ req[p].event.amount \in 1 .. refunds[req[p].event.session]
           /\ checkout[req[p].event.session] = "complete"
<1>1. req[p].op \in Webhooks /\ req[p].op = "refunded"
  BY DEF RefundedCommit, At, Webhooks
<1>2. req[p].event.session \in Sessions /\ req[p].event.type = "refunded"
  BY <1>1, InFlightTyped DEF IInv, TypeOK, RequestTyped, Event
<1>3. EventReal(req[p].event)
  BY <1>1 DEF IInv, InFlightReal, RequestReal
<1> QED BY <1>2, <1>3 DEF EventReal

\* The webhook marks a booking refunded only after Stripe has paid back.
LEMMA RefundedCommitReal ==
    ASSUME IInv, NEW p \in Requests, RefundedCommit(p)
    PROVE  BookingLater
<1>1. PICK s \in Sessions : refunds[s] > 0 /\ checkout[s] = "complete"
  BY RefundedEventHeld DEF IInv, TypeOK, Amount
<1>2. booking'.payment # "unpaid"
  <2>1. req[p].booking.payment # "unpaid" => booking.payment # "unpaid"
    BY DEF IInv, InFlightReal, RequestReal
  <2> QED BY <2>1, RefundedCommitBooking DEF IInv
<1> QED BY <1>1, <1>2 DEF BookingLater, RefundedCommit, stripe

\* A booking that is called off, payment and meeting untouched, stays real.
LEMMA CalledOff ==
    ASSUME IInv, booking'.payment = booking.payment, booking'.meeting = booking.meeting,
           booking'.status \in {booking.status, "cancelled"}
    PROVE  BookingLater
BY DEF BookingLater, IInv, BooksReal, ConfirmedWasPaid

\* Every step leaves a booking whose payment is real.
LEMMA NextBooking == IInv /\ [Next]_vars => BookingLater
<1> SUFFICES ASSUME IInv, [Next]_vars PROVE BookingLater
  OBVIOUS
<1>1. ASSUME NEW p \in Requests, Advance(p) PROVE BookingLater
  <2>1. CASE ExpiredCommit(p)
    BY <2>1, ExpiredCommitBooking, CalledOff DEF IInv
  <2>2. CASE \/ CloseFlush(p) \/ CloseRefund(p) \/ CloseRefundFails(p)
             \/ CheckoutResume(p) \/ CheckoutFails(p)
             \/ (\E s \in Sessions : CheckoutCreate(p, s)) \/ CheckoutInsert(p)
             \/ WebhookStep(p) \/ TransferCommit(p) \/ RowGone(p)
    <3>1. booking' = booking
      BY <2>2 DEF CloseFlush, CloseRefund, CloseRefundFails, CheckoutResume, CheckoutFails,
         CheckoutCreate, CheckoutInsert, WebhookStep, CompletedFlush, ExpiredFlush,
         RefundedFlush, WebhookFlush, TransferCommit, RowGone, RollBack
    <3> QED BY <3>1, SameBooking
  <2> QED BY <1>1, <2>1, <2>2, AcceptCommitBooking, OutcomeCommitBooking, CloseCommitReal,
          AdminRefundCommitBooking, CompletedCommitReal, RefundedCommitReal
          DEF Advance, WebhookStep
<1>2. ASSUME NEW p \in Requests, UserCall(p) PROVE BookingLater
  BY <1>2, SameBooking DEF UserCall, Accept, Complete, MarkNoShow, Reject, Checkout, Cancel,
     AdminRefund, AdminRefundUnanswered
<1>3. ASSUME NEW p \in Requests, Sweep(p) PROVE BookingLater
  <2>1. CASE ExpireStaleUnpaid(p)
    BY <2>1, CalledOff DEF ExpireStaleUnpaid, IInv, TypeOK, Booking
  <2> QED BY <1>3, <2>1, SameBooking DEF Sweep, ExpireUnaccepted, TransferSweep,
          TransferSent, TransferFails, TransferWithoutAccount, StartTransfer
<1>4. ASSUME NEW p \in Requests, RollBack(p) \/ Crash(p) PROVE BookingLater
  BY <1>4, SameBooking DEF RollBack, Crash
<1>5. CASE Webhook \/ World \/ UNCHANGED vars
  BY <1>5, SameBooking DEF Webhook, Ignore, Receive, World, SeekerPays,
     SessionExpires, DashboardRefund, TimePasses, ConnectionChanges, vars
<1> QED BY <1>1, <1>2, <1>3, <1>4, <1>5 DEF Next, Deadlock

\* What a step may write into the transaction row.
LEMMA RowIsReal ==
    ASSUME IInv
    PROVE  RowReal(txn)
BY DEF IInv, BooksReal, PaymentsReal, RefundsReal, TransfersReal, RowReal

\* A new transaction row claims nothing of Stripe.
LEMMA NewTxnReal ==
    ASSUME TypeOK', NEW s \in Sessions
    PROVE  RowLater(NewTxn(s))
BY DEF RowLater, NewTxn, NoTxn, Settled, TypeOK, Amount

\* Every step leaves a transaction row that is real, as rows are written from copies.
LEMMA NextRow == IInv /\ [Next]_vars => RowLater(txn')
<1> SUFFICES ASSUME IInv, [Next]_vars PROVE RowLater(txn')
  OBVIOUS
<1>1. TypeOK /\ TypeOK' /\ StripeGrows
  BY NextTypeOK, NextStripeGrows DEF IInv
<1>2. CASE txn' = txn
  BY <1>1, <1>2, RowIsReal, RowStays DEF TypeOK
<1>3. ASSUME NEW p \in Requests, txn' = req[p].txn PROVE RowLater(txn')
  BY <1>1, <1>3, InFlightTyped, RowStays DEF IInv, InFlightReal, RequestReal
<1>4. ASSUME NEW p \in Requests, Advance(p) PROVE RowLater(txn')
  <2>1. CASE CheckoutInsert(p)
    <3>1. req[p].event.session \in Sessions
      BY <2>1, InFlightTyped DEF CheckoutInsert, At, IInv, TypeOK, RequestTyped
    <3> QED BY <1>1, <1>2, <2>1, <3>1, NewTxnReal DEF CheckoutInsert
  <2>2. CASE \/ CloseCommit(p) \/ AdminRefundCommit(p) \/ CompletedCommit(p)
             \/ ExpiredCommit(p) \/ RefundedCommit(p) \/ TransferCommit(p)
    BY <1>2, <1>3, <2>2 DEF CloseCommit, AdminRefundCommit, CompletedCommit, ExpiredCommit,
       RefundedCommit, TransferCommit
  <2>3. CASE \/ AcceptCommit(p) \/ CompleteCommit(p) \/ NoShowCommit(p) \/ CloseFlush(p)
             \/ CloseRefund(p) \/ CloseRefundFails(p) \/ CheckoutResume(p)
             \/ CheckoutFails(p) \/ (\E s \in Sessions : CheckoutCreate(p, s))
             \/ WebhookStep(p) \/ RowGone(p)
    BY <1>2, <2>3 DEF AcceptCommit, CompleteCommit, NoShowCommit, OutcomeCommit, CloseFlush,
       CloseRefund, CloseRefundFails, CheckoutResume, CheckoutFails, CheckoutCreate,
       WebhookStep, CompletedFlush, ExpiredFlush, RefundedFlush, WebhookFlush, RowGone,
       RollBack
  <2> QED BY <1>4, <2>1, <2>2, <2>3 DEF Advance, WebhookStep
<1>5. ASSUME NEW p \in Requests, UserCall(p) PROVE RowLater(txn')
  BY <1>2, <1>5 DEF UserCall, Accept, Complete, MarkNoShow, Reject, Checkout, Cancel,
     AdminRefund, AdminRefundUnanswered
<1>6. ASSUME NEW p \in Requests, Sweep(p) PROVE RowLater(txn')
  BY <1>2, <1>6 DEF Sweep, ExpireStaleUnpaid, ExpireUnaccepted, TransferSweep,
     TransferSent, TransferFails, TransferWithoutAccount, StartTransfer
<1>7. ASSUME NEW p \in Requests, RollBack(p) \/ Crash(p) PROVE RowLater(txn')
  BY <1>2, <1>7 DEF RollBack, Crash
<1>8. CASE Webhook \/ World \/ UNCHANGED vars
  BY <1>2, <1>8 DEF Webhook, Ignore, Receive, World, SeekerPays,
     SessionExpires, DashboardRefund, TimePasses, ConnectionChanges, vars
<1> QED BY <1>4, <1>5, <1>6, <1>7, <1>8 DEF Next, Deadlock

\* What a step may make Stripe announce, refund and transfer.
StripeLater ==
    /\ \A e \in events' : EventLater(e)
    /\ \A s \in transferred' : checkout'[s] = "complete"
    /\ \A s \in Sessions : refunds'[s] > 0 => checkout'[s] = "complete"

\* A step that delivers or returns events and moves no money.
LEMMA QuietStripe ==
    ASSUME IInv, TypeOK', UNCHANGED <<refunds, transferred>>, StripeGrows,
           \A e \in events' : e \in events \/ EventLater(e)
    PROVE  StripeLater
<1>1. \A e \in events' : EventLater(e)
  BY EventStays DEF IInv, TypeOK, InFlightReal
<1> QED BY <1>1 DEF StripeLater, StripeGrows, IInv, BooksReal, TransfersReal, RefundsReal,
        TypeOK

\* After a refund events, refunds and transfers are of completed sessions.
LEMMA RefundLater ==
    ASSUME IInv, TypeOK', NEW s \in Sessions, NEW amount \in Amount,
           StripeRefund(s, amount), checkout[s] = "complete"
    PROVE  StripeLater
<1> DEFINE e == [type |-> "refunded", session |-> s, amount |-> refunds'[s]]
<1>1. /\ events' = events \cup {e} /\ checkout' = checkout /\ transferred' = transferred
      /\ refunds[s] < refunds'[s] /\ refunds[s] \in Amount /\ refunds'[s] \in Amount
      /\ \A t \in Sessions : t # s => refunds'[t] = refunds[t]
      /\ StripeGrows
  BY StripeRefundTyped, RefundGrows DEF StripeRefund, IInv, TypeOK
<1>2. EventLater(e)
  BY <1>1 DEF EventLater, Amount
<1> HIDE DEF e
<1>3. \A f \in events' : EventLater(f)
  BY <1>1, <1>2, EventStays DEF IInv, TypeOK, InFlightReal
<1>4. \A t \in Sessions : refunds'[t] > 0 => checkout'[t] = "complete"
  BY <1>1 DEF IInv, BooksReal, RefundsReal
<1> QED BY <1>1, <1>3, <1>4 DEF StripeLater, IInv, BooksReal, TransfersReal

\* The rows that are refunded are paid for.
LEMMA RefundableLater ==
    ASSUME IInv, TypeOK', NEW amount \in Amount, Refundable(txn, amount),
           StripeRefund(txn.session, amount)
    PROVE  StripeLater
<1>1. txn.session \in Sessions /\ txn.status \in Settled
  BY RefundedTxnTyped DEF IInv, TypeOK, Refundable, Settled
<1> QED BY <1>1, RefundLater DEF IInv, BooksReal, PaymentsReal

\* A transfer is made of a completed session, from the row that says so.
LEMMA TransferLater ==
    ASSUME IInv, TypeOK', NEW p \in Requests, TransferSweep(p)
    PROVE  StripeLater
<1>1. /\ transferred' \subseteq transferred \cup {txn.session}
      /\ UNCHANGED <<checkout, refunds, events>>
      /\ txn.status = "succeeded"
  BY DEF TransferSweep, TransferSent, TransferFails, TransferWithoutAccount,
     StartTransfer, Due
<1>2. checkout[txn.session] = "complete"
  BY <1>1 DEF IInv, BooksReal, PaymentsReal, Settled
<1>3. StripeGrows
  BY NextStripeGrows DEF IInv, Next, Sweep
<1>4. \A e \in events' : EventLater(e)
  BY <1>1, <1>3, EventStays DEF IInv, TypeOK, InFlightReal
<1> QED BY <1>1, <1>2, <1>4 DEF StripeLater, IInv, BooksReal, TransfersReal, RefundsReal

\* Every step leaves events, refunds and transfers of completed sessions.
LEMMA NextStripe == IInv /\ [Next]_vars => StripeLater
<1> SUFFICES ASSUME IInv, [Next]_vars PROVE StripeLater
  OBVIOUS
<1>1. TypeOK /\ TypeOK' /\ StripeGrows /\ Price \in Amount
  BY NextTypeOK, NextStripeGrows DEF IInv, Amount
<1>2. CASE UNCHANGED <<refunds, transferred, events>>
  BY <1>1, <1>2, QuietStripe
<1>3. ASSUME NEW p \in Requests, RollBack(p) PROVE StripeLater
  <2>1. ASSUME NEW e \in events', e \notin events PROVE EventLater(e)
    <3>1. req[p].op \in Webhooks /\ e = req[p].event
      BY <1>3, <2>1 DEF RollBack, Undelivered
    <3>2. e \in Event /\ EventReal(e)
      BY <3>1, InFlightTyped DEF IInv, InFlightReal, RequestReal
    <3> QED BY <1>1, <3>2, EventStays
  <2> QED BY <1>1, <1>3, <2>1, QuietStripe DEF RollBack
<1>4. ASSUME NEW p \in Requests, Advance(p) PROVE StripeLater
  <2>1. CASE CloseRefund(p) \/ CloseRefundFails(p)
    BY <1>1, <1>2, <2>1, RefundableLater DEF CloseRefund, CloseRefundFails, stripe
  <2>2. CASE RowGone(p)
    BY <1>3, <2>2 DEF RowGone
  <2> QED BY <1>2, <1>4, <2>1, <2>2 DEF Advance, AcceptCommit, CompleteCommit, NoShowCommit,
          OutcomeCommit, CloseFlush, CloseCommit, AdminRefundCommit, CheckoutResume,
          CheckoutFails, CheckoutCreate, CheckoutInsert, CompletedFlush, ExpiredFlush,
          RefundedFlush, WebhookFlush, CompletedCommit, ExpiredCommit, RefundedCommit,
          TransferCommit, stripe
<1>5. ASSUME NEW p \in Requests, UserCall(p) PROVE StripeLater
  <2>1. ASSUME NEW amount \in 1 .. Price,
               AdminRefund(p, amount) \/ AdminRefundUnanswered(p, amount)
        PROVE  StripeLater
    <3>1. amount \in Amount
      BY DEF Amount
    <3> QED BY <1>1, <2>1, <3>1, RefundableLater DEF AdminRefund, AdminRefundUnanswered
  <2> QED BY <1>2, <1>5, <2>1 DEF UserCall, Accept, Complete, MarkNoShow, Reject, Checkout,
          Cancel, stripe
<1>6. ASSUME NEW p \in Requests, Sweep(p) PROVE StripeLater
  BY <1>1, <1>2, <1>6, TransferLater DEF Sweep, ExpireStaleUnpaid, ExpireUnaccepted, stripe
<1>7. ASSUME NEW p \in Requests, Crash(p) PROVE StripeLater
  BY <1>2, <1>3, <1>7 DEF Crash, stripe
<1>8. CASE Webhook
  <2>1. events' \subseteq events /\ UNCHANGED <<refunds, transferred>>
    BY <1>8 DEF Webhook, Ignore, Receive, Remaining
  <2> QED BY <1>1, <2>1, QuietStripe
<1>9. CASE World
  <2>1. ASSUME NEW s \in Sessions, SeekerPays(s) PROVE StripeLater
    <3>1. \A e \in events' \ events : e.type = "completed" /\ e.session = s
      BY <2>1 DEF SeekerPays
    <3>2. checkout'[s] = "complete" /\ UNCHANGED <<refunds, transferred>>
      BY <2>1 DEF SeekerPays, IInv, TypeOK
    <3> QED BY <1>1, <3>1, <3>2, QuietStripe DEF EventLater
  <2>2. ASSUME NEW s \in Sessions, SessionExpires(s) PROVE StripeLater
    <3>1. \A e \in events' \ events : e.type = "expired"
      BY <2>2 DEF SessionExpires
    <3>2. UNCHANGED <<refunds, transferred>>
      BY <2>2 DEF SessionExpires
    <3> QED BY <1>1, <3>1, <3>2, QuietStripe DEF EventLater
  <2>3. ASSUME NEW s \in Sessions, NEW amount \in 1 .. Price, DashboardRefund(s, amount)
        PROVE  StripeLater
    <3>1. amount \in Amount
      BY DEF Amount
    <3> QED BY <1>1, <2>3, <3>1, RefundLater DEF DashboardRefund
  <2> QED BY <1>2, <1>9, <2>1, <2>2, <2>3 DEF World, TimePasses, ConnectionChanges, stripe
<1>10. CASE UNCHANGED vars
  BY <1>2, <1>10 DEF vars, stripe
<1> QED BY <1>3, <1>4, <1>5, <1>6, <1>7, <1>8, <1>9, <1>10 DEF Next, Deadlock

\* What a step may leave in a request.  Every request but one stays as it was.
LEMMA OneRequestReal ==
    ASSUME IInv, TypeOK', StripeGrows, BookingLater, NEW p \in Requests, NEW r,
           req' = [req EXCEPT ![p] = r], RequestLater(r)
    PROVE  \A q \in Requests : RequestLater(req'[q])
<1>1. \A q \in Requests : RequestLater(req[q])
  BY RequestStays DEF IInv, InFlightReal, BookingLater
<1>2. \A q \in Requests : req'[q] = IF q = p THEN r ELSE req[q]
  BY DEF IInv, TypeOK
<1> QED BY <1>1, <1>2

\* A step that changes no request leaves what they know true.
LEMMA SameRequestsReal ==
    ASSUME IInv, TypeOK', StripeGrows, BookingLater, req' = req
    PROVE  \A q \in Requests : RequestLater(req'[q])
BY RequestStays DEF IInv, InFlightReal, BookingLater

\* A request that has not read the booking yet knows nothing of a payment.
LEMMA NewBookingReal ==
    ASSUME IInv, BookingLater
    PROVE  NewBooking.payment # "unpaid" => booking'.payment # "unpaid"
BY DEF NewBooking, IInv, BooksReal, ConfirmedWasPaid, BookingLater

\* A request that has read at most a real transaction row knows nothing false.
LEMMA FreshRequest ==
    ASSUME IInv, TypeOK', BookingLater, NEW r \in Request,
           r.booking = NewBooking, RowLater(r.txn), ~RefundInFlight(r),
           r.op \notin Webhooks \cup {"accept", "complete", "no_show"}
    PROVE  RequestLater(r)
BY NewBookingReal DEF RequestLater

\* The transaction that is not there claims nothing.
LEMMA NoTxnReal == RowLater(NoTxn)
BY DEF RowLater, NoTxn, Settled

\* When a request ends the others still know what is true.
LEMMA FinishReal ==
    ASSUME IInv, TypeOK', StripeGrows, BookingLater, NEW p \in Requests, Finish(p)
    PROVE  \A q \in Requests : RequestLater(req'[q])
<1>1. RequestLater(NoRequest)
  <2>1. /\ NoRequest.booking = NewBooking /\ NoRequest.txn = NoTxn
        /\ NoRequest.op = "idle" /\ NoRequest \in Request
    BY Typing DEF NoRequest
  <2>2. ~RefundInFlight(NoRequest)
    BY <2>1 DEF RefundInFlight, Closers
  <2> QED BY <2>1, <2>2, NoTxnReal, FreshRequest DEF Webhooks
<1> QED BY <1>1, OneRequestReal DEF Finish

\* A request that has read the booking row.
LEMMA ReadReal ==
    ASSUME IInv, TypeOK', StripeGrows, BookingLater, NEW p \in Requests, NEW op,
           \/ op \in {"cancel", "reject"}
           \/ op \in {"accept", "complete", "no_show"} /\ booking.payment # "unpaid",
           ReadBooking(p, op)
    PROVE  \A q \in Requests : RequestLater(req'[q])
<1> DEFINE r == [NoRequest EXCEPT !.op = op, !.step = "flush", !.booking = booking]
<1>1. r.op = op /\ r.txn = NoTxn /\ r.booking = booking
  BY DEF NoRequest
<1>2. req' = [req EXCEPT ![p] = r]
  BY DEF ReadBooking
<1> HIDE DEF r
<1>3. RequestLater(r)
  BY <1>1, NoTxnReal DEF RequestLater, RefundInFlight, Webhooks, BookingLater
<1> QED BY <1>2, <1>3, OneRequestReal

\* A request about to close a booking knows what the row told it.
LEMMA ClosingReal ==
    ASSUME IInv, TypeOK', StripeGrows, BookingLater, NEW p \in Requests,
           NEW op \in Closers, NEW b \in Booking,
           b.payment # "unpaid" => booking.payment # "unpaid",
           req' = [req EXCEPT ![p] = Closing(op, b)]
    PROVE  \A q \in Requests : RequestLater(req'[q])
<1>1. RequestLater(Closing(op, b))
  BY ClosingTyped, NoTxnReal
  DEF RequestLater, RefundInFlight, Closers, Webhooks, BookingLater
<1> QED BY <1>1, OneRequestReal

\* The flush that closes a booking leaves requests real.
LEMMA CloseFlushReal ==
    ASSUME IInv, TypeOK', StripeGrows, BookingLater, NEW p \in Requests, CloseFlush(p)
    PROVE  \A q \in Requests : RequestLater(req'[q])
<1> DEFINE op   == req[p].op
           mine == [req[p].booking EXCEPT !.status = ClosedStatus(op)]
           b    == IF op = "reject" THEN WithStatus(p, ClosedStatus(op)) ELSE mine
<1>1. op \in Closers /\ ClosedStatus(op) \in BookingStatus
  BY DEF CloseFlush, Closers, ClosedStatus, BookingStatus
<1>2. mine \in Booking /\ mine.payment = req[p].booking.payment
  BY <1>1, InFlightTyped DEF Booking, IInv
<1>3. req[p].booking.payment # "unpaid" => booking.payment # "unpaid"
  BY DEF IInv, InFlightReal, RequestReal
<1>4. b \in Booking /\ (b.payment # "unpaid" => booking.payment # "unpaid")
  BY <1>1, <1>2, <1>3, StatusFlush DEF IInv
<1>5. req' = [req EXCEPT ![p] = Closing(op, b)]
  BY DEF CloseFlush, WithStatus
<1> HIDE DEF b, op
<1> QED BY <1>1, <1>4, <1>5, ClosingReal

\* The sweep of requests nobody accepted leaves requests real.
LEMMA ExpireUnacceptedReal ==
    ASSUME IInv, TypeOK', StripeGrows, BookingLater, NEW p \in Requests,
           ExpireUnaccepted(p)
    PROVE  \A q \in Requests : RequestLater(req'[q])
<1> DEFINE b == [booking EXCEPT !.status = "cancelled"]
<1>1. b \in Booking /\ b.payment = booking.payment
  BY DEF IInv, TypeOK, Booking, BookingStatus
<1>2. req' = [req EXCEPT ![p] = Closing("expire", b)] /\ "expire" \in Closers
  BY DEF ExpireUnaccepted, Closers
<1> HIDE DEF b
<1> QED BY <1>1, <1>2, ClosingReal

\* A row on its way into the table after a refund that Stripe has made.
LEMMA RefundedTxnReal ==
    ASSUME IInv, TypeOK', NEW amount \in Amount, Refundable(txn, amount),
           StripeRefund(txn.session, amount)
    PROVE  /\ RowLater(RefundedTxn(txn, amount))
           /\ refunds'[RefundedTxn(txn, amount).session] > 0
           /\ RefundedTxn(txn, amount) # NoTxn
<1> DEFINE t == RefundedTxn(txn, amount)
           s == txn.session
<1>1. /\ s \in Sessions /\ t.session = s /\ t.refunded = txn.refunded + amount
      /\ t.status \in Settled /\ t.transfer # "completed"
  BY RefundedTxnTyped DEF IInv, TypeOK
<1>2. /\ refunds[s] < refunds'[s] /\ checkout' = checkout
      /\ refunds'[s] = IF amount = Price THEN Price ELSE refunds[s] + amount
      /\ refunds[s] \in Nat /\ refunds'[s] \in Nat
  BY <1>1, StripeRefundTyped DEF IInv, TypeOK, Amount, StripeRefund
<1>3. txn.refunded <= refunds[s] /\ txn.refunded + amount <= Price /\ txn.refunded \in Nat
  BY <1>1, RowIsReal DEF RowReal, Refundable, IInv, TypeOK, Txn, Amount
<1>4. checkout[s] = "complete"
  BY <1>1 DEF IInv, BooksReal, PaymentsReal, Refundable, Settled
<1>5. t # NoTxn
  BY <1>1 DEF NoTxn, Settled
<1>6. t.refunded <= refunds'[s]
  BY <1>1, <1>2, <1>3 DEF Amount
<1> HIDE DEF t, s
<1>7. RowLater(t) /\ refunds'[t.session] > 0
  BY <1>1, <1>2, <1>4, <1>6 DEF RowLater
<1> QED BY <1>5, <1>7 DEF t

\* An administrator's refund records what Stripe has just paid back.
LEMMA AdminRefundReal ==
    ASSUME IInv, TypeOK', StripeGrows, BookingLater, NEW p \in Requests,
           NEW amount \in 1 .. Price, AdminRefund(p, amount)
    PROVE  \A q \in Requests : RequestLater(req'[q])
<1> DEFINE t == RefundedTxn(txn, amount)
           r == [NoRequest EXCEPT !.op = "admin_refund", !.step = "commit", !.txn = t]
<1>1. amount \in Amount /\ RowLater(t) /\ refunds'[t.session] > 0
  BY RefundedTxnReal DEF AdminRefund, Amount
<1>2. r.op = "admin_refund" /\ r.txn = t /\ r.booking = NewBooking
  BY DEF NoRequest
<1>3. req' = [req EXCEPT ![p] = r]
  BY DEF AdminRefund
<1>4. NewBooking.payment # "unpaid" => booking'.payment # "unpaid"
  BY NewBookingReal
<1> HIDE DEF r, t
<1>5. RequestLater(r)
  BY <1>1, <1>2, <1>4 DEF RequestLater, Webhooks
<1> QED BY <1>3, <1>5, OneRequestReal

\* The refund of a booking being closed records what Stripe has just paid back.
LEMMA CloseRefundReal ==
    ASSUME IInv, TypeOK', StripeGrows, BookingLater, NEW p \in Requests, CloseRefund(p)
    PROVE  \A q \in Requests : RequestLater(req'[q])
<1> DEFINE t == RefundedTxn(txn, Price)
           r == [req[p] EXCEPT !.step = "commit", !.txn = t]
<1>1. RowLater(t) /\ refunds'[t.session] > 0
  BY RefundedTxnReal DEF CloseRefund, Amount
<1>2. r.op = req[p].op /\ r.txn = t /\ r.booking = req[p].booking
  BY InFlightTyped DEF Request, IInv
<1>3. req' = [req EXCEPT ![p] = r]
  BY DEF CloseRefund, IInv, TypeOK
<1>4. r.op \in Closers /\ (r.booking.payment # "unpaid" => booking'.payment # "unpaid")
  BY <1>2 DEF CloseRefund, IInv, InFlightReal, RequestReal, BookingLater
<1> HIDE DEF r, t
<1>5. RequestLater(r)
  BY <1>1, <1>2, <1>4 DEF RequestLater, Webhooks, Closers
<1> QED BY <1>3, <1>5, OneRequestReal

\* A later step of a request that changes nothing the request knows.
LEMMA StepOnReal ==
    ASSUME IInv, TypeOK', StripeGrows, BookingLater, NEW p \in Requests, NEW r,
           r.op = req[p].op, r.txn = req[p].txn, r.booking = req[p].booking,
           r.op \in Webhooks => r.event = req[p].event,
           req' = [req EXCEPT ![p] = r]
    PROVE  \A q \in Requests : RequestLater(req'[q])
<1>1. RequestLater(req[p])
  BY RequestStays DEF IInv, InFlightReal, BookingLater
<1>2. RequestLater(r)
  BY <1>1 DEF RequestLater, RefundInFlight
<1> QED BY <1>2, OneRequestReal

\* A checkout that has its session keeps the rows it has read.
LEMMA CheckoutCreateRequest ==
    ASSUME TypeOK, NEW p \in Requests, NEW s \in Sessions, CheckoutCreate(p, s)
    PROVE  \E r : /\ r.op = req[p].op /\ r.txn = req[p].txn
                 /\ r.booking = req[p].booking /\ r.op = "checkout"
                 /\ req' = [req EXCEPT ![p] = r]
<1> DEFINE r == [req[p] EXCEPT !.step = "insert", !.event.session = s]
<1>1. /\ r.op = req[p].op /\ r.txn = req[p].txn /\ r.booking = req[p].booking
      /\ r.op = "checkout"
  BY InFlightTyped DEF Request, CheckoutCreate, At
<1>2. req' = [req EXCEPT ![p] = r]
  BY DEF CheckoutCreate, TypeOK
<1> HIDE DEF r
<1> QED BY <1>1, <1>2

\* Every step of a checkout leaves requests real.
LEMMA CheckoutReal ==
    ASSUME IInv, TypeOK', StripeGrows, BookingLater, NEW p \in Requests,
           \/ Checkout(p)
           \/ \E s \in Sessions : CheckoutCreate(p, s)
    PROVE  \A q \in Requests : RequestLater(req'[q])
<1>1. CASE Checkout(p)
  <2> DEFINE r == [NoRequest EXCEPT !.op = "checkout", !.step = "create", !.txn = txn]
  <2>1. r.op = "checkout" /\ r.txn = txn /\ r.booking = NewBooking
    BY DEF NoRequest
  <2>2. r \in Request /\ req' = [req EXCEPT ![p] = r]
    BY <1>1, Typing DEF Request, Op, IInv, TypeOK, Checkout
  <2>3. RowLater(txn)
    BY RowIsReal, RowStays DEF IInv, TypeOK
  <2> HIDE DEF r
  <2>4. RequestLater(r)
    BY <2>1, <2>2, <2>3, FreshRequest DEF RefundInFlight, Closers, Webhooks
  <2> QED BY <2>2, <2>4, OneRequestReal
<1>2. ASSUME NEW s \in Sessions, CheckoutCreate(p, s)
      PROVE  \A q \in Requests : RequestLater(req'[q])
  <2>1. PICK r : /\ r.op = req[p].op /\ r.txn = req[p].txn /\ r.booking = req[p].booking
                 /\ r.op = "checkout" /\ req' = [req EXCEPT ![p] = r]
    BY <1>2, CheckoutCreateRequest DEF IInv
  <2> QED BY <2>1, StepOnReal DEF Webhooks
<1> QED BY <1>1, <1>2

\* A webhook starts from an event that is real and rows that are.
LEMMA ReceiveReal ==
    ASSUME IInv, TypeOK', StripeGrows, BookingLater, NEW p \in Requests,
           NEW e \in events, Receive(p, e)
    PROVE  \A q \in Requests : RequestLater(req'[q])
<1> DEFINE r == [NoRequest EXCEPT !.op = e.type, !.step = "flush",
                                  !.txn = txn, !.event = e]
<1>1. r.op = e.type /\ r.txn = txn /\ r.event = e /\ r.booking = NewBooking
  BY DEF NoRequest
<1>2. req' = [req EXCEPT ![p] = r]
  BY DEF Receive
<1>3. RowLater(txn)
  BY RowIsReal, RowStays DEF IInv, TypeOK
<1>4. e.type \in Webhooks /\ EventLater(e)
  BY EventStays DEF IInv, TypeOK, InFlightReal, Event, Webhooks
<1> HIDE DEF r
<1>5. RequestLater(r)
  BY <1>1, <1>3, <1>4, NewBookingReal DEF RequestLater, RefundInFlight, Closers, Webhooks
<1> QED BY <1>2, <1>5, OneRequestReal

\* The sweep records a payout after Stripe has made it.
LEMMA TransferReal ==
    ASSUME IInv, TypeOK', StripeGrows, BookingLater, NEW p \in Requests, TransferSweep(p)
    PROVE  \A q \in Requests : RequestLater(req'[q])
<1>1. PICK t \in Txn :
        /\ t.session = txn.session /\ txn.session \in Sessions
        /\ txn.status = "succeeded" /\ t.refunded = txn.refunded
        /\ t.transfer = "completed" => TransferSent(p)
        /\ StartTransfer(p, t)
  BY TransferRow DEF IInv
<1> DEFINE r == [NoRequest EXCEPT !.op = "transfer", !.step = "commit", !.txn = t]
<1>2. r.op = "transfer" /\ r.txn = t /\ r.booking = NewBooking
  BY DEF NoRequest
<1>3. r \in Request /\ req' = [req EXCEPT ![p] = r]
  BY <1>1, Typing DEF Request, Op, StartTransfer
<1>4. RowLater(t)
  <2>1. checkout[txn.session] = "complete" /\ txn.refunded <= refunds[txn.session]
    BY <1>1, RowIsReal DEF RowReal, Settled
  <2>2. UNCHANGED <<checkout, refunds>>
    BY <1>1 DEF StartTransfer
  <2>3. t.transfer = "completed" => t.session \in transferred'
    BY <1>1 DEF TransferSent
  <2> QED BY <1>1, <2>1, <2>2, <2>3 DEF RowLater
<1> HIDE DEF r
<1>5. RequestLater(r)
  BY <1>2, <1>3, <1>4, FreshRequest DEF RefundInFlight, Closers, Webhooks
<1> QED BY <1>3, <1>5, OneRequestReal

\* What a webhook writes in its copy of the row its event has told.
LEMMA WebhookStepReal ==
    ASSUME IInv, TypeOK', StripeGrows, BookingLater, NEW p \in Requests, WebhookStep(p)
    PROVE  \A q \in Requests : RequestLater(req'[q])
<1>1. PICK t \in Txn :
        /\ t.session = txn.session /\ txn.session = req[p].event.session
        /\ txn.session \in Sessions
        /\ req[p].op \in Webhooks
        /\ t.status \in Settled => txn.status \in Settled \/ req[p].op # "expired"
        /\ t.refunded # txn.refunded =>
               req[p].op = "refunded" /\ t.refunded = req[p].event.amount
        /\ t.transfer = "completed" => txn.transfer = "completed"
        /\ Flushed(p, t)
  BY FlushedRow DEF IInv
<1> DEFINE r == [req[p] EXCEPT !.step = "commit", !.booking = booking, !.txn = t]
           e == req[p].event
<1>2. r.op = req[p].op /\ r.event = e /\ r.txn = t /\ r.booking = booking
  BY InFlightTyped DEF Request, IInv
<1>3. req' = [req EXCEPT ![p] = r]
  BY <1>1 DEF IInv, TypeOK, Flushed
<1> HIDE DEF r
<1>4. EventReal(e) /\ e \in Event /\ e.type = req[p].op
  BY <1>1, InFlightTyped DEF IInv, InFlightReal, RequestReal, TypeOK, RequestTyped
<1> HIDE DEF e
<1>5. EventLater(e)
  BY <1>4, EventStays DEF IInv
<1>6. RowLater(txn)
  BY RowIsReal, RowStays DEF IInv, TypeOK
<1>7. RowLater(t)
  <2>1. t.status \in Settled => checkout'[t.session] = "complete"
    BY <1>1, <1>4, <1>5, <1>6 DEF EventLater, RowLater, Webhooks, e
  <2>2. refunds'[t.session] \in Nat
    BY <1>1 DEF TypeOK, Amount
  <2>3. t.refunded <= refunds'[t.session]
    BY <1>1, <1>4, <1>5, <1>6, <2>2 DEF EventLater, RowLater, e
  <2> QED BY <1>1, <1>6, <2>1, <2>3 DEF RowLater
<1>8. RequestLater(r)
  BY <1>1, <1>2, <1>5, <1>7
  DEF RequestLater, RefundInFlight, Closers, Webhooks, BookingLater
<1> QED BY <1>3, <1>8, OneRequestReal

\* Every step leaves requests that know only what is true.
LEMMA NextRequests == IInv /\ [Next]_vars => \A q \in Requests : RequestLater(req'[q])
<1> SUFFICES ASSUME IInv, [Next]_vars PROVE \A q \in Requests : RequestLater(req'[q])
  OBVIOUS
<1> DEFINE Goal == \A q \in Requests : RequestLater(req'[q])
<1>1. TypeOK /\ TypeOK' /\ StripeGrows /\ BookingLater
  BY NextTypeOK, NextStripeGrows, NextBooking DEF IInv
<1>2. CASE req' = req
  BY <1>1, <1>2, SameRequestsReal
<1>3. ASSUME NEW p \in Requests, Finish(p) PROVE Goal
  BY <1>1, <1>3, FinishReal
<1>4. booking.status \in {"confirmed", "completed", "no_show"} \/ Price = 0 =>
          booking.payment # "unpaid"
  BY DEF IInv, BooksReal, ConfirmedWasPaid
<1> HIDE DEF Goal
<1>5. ASSUME NEW p \in Requests, Advance(p) PROVE Goal
  <2>1. CASE \/ AcceptCommit(p) \/ CompleteCommit(p) \/ NoShowCommit(p) \/ CloseCommit(p)
             \/ AdminRefundCommit(p) \/ CheckoutResume(p) \/ CheckoutFails(p)
             \/ CheckoutInsert(p) \/ CompletedCommit(p) \/ ExpiredCommit(p)
             \/ RefundedCommit(p) \/ TransferCommit(p) \/ RowGone(p)
    <3>1. Finish(p)
      BY <2>1 DEF AcceptCommit, CompleteCommit, NoShowCommit, OutcomeCommit, CloseCommit,
         AdminRefundCommit, CheckoutResume, CheckoutFails, CheckoutInsert,
         CompletedCommit, ExpiredCommit, RefundedCommit, TransferCommit, RowGone, RollBack
    <3> QED BY <3>1, <1>3
  <2>2. CASE CloseRefundFails(p)
    <3> DEFINE r == [req[p] EXCEPT !.step = "commit"]
    <3>1. r.op = req[p].op /\ r.txn = req[p].txn /\ r.booking = req[p].booking
          /\ r.event = req[p].event
      BY <1>1, InFlightTyped DEF Request
    <3>2. req' = [req EXCEPT ![p] = r]
      BY <1>1, <2>2 DEF CloseRefundFails, TypeOK
    <3> HIDE DEF r
    <3> QED BY <1>1, <3>1, <3>2, StepOnReal DEF Goal
  <2> QED BY <1>1, <1>5, <2>1, <2>2, CloseFlushReal, CloseRefundReal, CheckoutReal,
          WebhookStepReal DEF Advance, WebhookStep, Goal
<1>6. ASSUME NEW p \in Requests, UserCall(p) PROVE Goal
  <2>1. CASE Accept(p)
    BY <1>1, <1>4, <2>1, ReadReal DEF Accept, PaidOrFree, Goal
  <2>2. CASE Complete(p)
    BY <1>1, <1>4, <2>2, ReadReal DEF Complete, PaidOrFree, Goal
  <2>3. CASE MarkNoShow(p)
    BY <1>1, <1>4, <2>3, ReadReal DEF MarkNoShow, Goal
  <2>4. CASE Reject(p) \/ \E actor \in {"seeker", "advisor"} : Cancel(p, actor)
    BY <1>1, <2>4, ReadReal DEF Reject, Cancel, Goal
  <2>5. ASSUME NEW amount \in 1 .. Price, AdminRefundUnanswered(p, amount) PROVE Goal
    BY <1>2, <2>5 DEF AdminRefundUnanswered, Goal
  <2> QED BY <1>1, <1>6, <2>1, <2>2, <2>3, <2>4, <2>5, CheckoutReal, AdminRefundReal
          DEF UserCall, Goal
<1>7. ASSUME NEW p \in Requests, Sweep(p) PROVE Goal
  BY <1>1, <1>2, <1>7, ExpireUnacceptedReal, TransferReal DEF Sweep, ExpireStaleUnpaid, Goal
<1>8. ASSUME NEW p \in Requests, RollBack(p) \/ Crash(p) PROVE Goal
  BY <1>3, <1>8 DEF RollBack, Crash
<1>9. CASE Webhook
  BY <1>1, <1>2, <1>9, ReceiveReal DEF Webhook, Ignore, Goal
<1>10. CASE World \/ UNCHANGED vars
  BY <1>2, <1>10 DEF World, SeekerPays, SessionExpires, DashboardRefund, TimePasses,
     ConnectionChanges, vars, Goal
<1> QED BY <1>5, <1>6, <1>7, <1>8, <1>9, <1>10 DEF Next, Deadlock, Goal

\* Both kinds of initial state satisfy the inductive invariant.
LEMMA InitIInv == Init => IInv
<1> SUFFICES ASSUME Init PROVE IInv
  OBVIOUS
<1>1. TypeOK
  BY InitTypeOK
<1>2. /\ txn = NoTxn \/ checkout[txn.session] = "complete"
      /\ txn.refunded = 0 /\ txn.transfer # "completed"
  <2>1. CASE NewInit
    <3>1. NoTxn.refunded = 0 /\ NoTxn.transfer = "none"
      BY DEF NoTxn
    <3>2. txn = NoTxn
      BY <2>1 DEF NewInit
    <3> QED BY <3>1, <3>2
  <2>2. CASE PaidInit
    <3>1. PICK s \in Sessions :
            /\ txn = [NewTxn(s) EXCEPT !.status = "succeeded", !.transfer = "pending",
                                       !.charge = TRUE]
            /\ checkout = [t \in Sessions |-> IF t = s THEN "complete" ELSE "unused"]
      BY <2>2 DEF PaidInit
    <3>2. txn.session = s /\ txn.refunded = 0 /\ txn.transfer = "pending"
      BY <3>1 DEF NewTxn, NoTxn
    <3> QED BY <3>1, <3>2
  <2> QED BY <2>1, <2>2 DEF Init
<1>3. /\ booking.payment # "refunded"
      /\ Price = 0 => booking.payment # "unpaid"
      /\ booking.status \in {"pending", "confirmed"} /\ booking.meeting = FALSE
      /\ booking.status = "confirmed" => booking.payment # "unpaid"
      /\ Price > 0 /\ booking.payment # "unpaid" =>
             \E s \in Sessions : checkout[s] = "complete"
      /\ NewBooking.payment # "unpaid" => booking.payment # "unpaid"
  <2>1. /\ NewBooking.payment \in {"unpaid", "paid"} /\ NewBooking.meeting = FALSE
        /\ NewBooking.status \in {"pending", "confirmed"}
        /\ NewBooking.payment = "unpaid" <=> Price > 0
        /\ NewBooking.status = "confirmed" <=> ~(Price > 0)
    BY DEF NewBooking
  <2>2. CASE NewInit
    BY <2>1, <2>2 DEF NewInit
  <2>3. CASE PaidInit
    <3>1. /\ booking.status = "pending" /\ booking.payment = "paid"
          /\ booking.meeting = FALSE
          /\ \E s \in Sessions : checkout[s] = "complete"
      BY <2>3 DEF PaidInit
    <3> QED BY <3>1
  <2> QED BY <2>2, <2>3 DEF Init
<1>4. /\ events = {} /\ transferred = {}
      /\ \A s \in Sessions : refunds[s] = 0
      /\ \A p \in Requests : req[p] = NoRequest
  BY DEF Init
<1>5. txn.status \in Settled => checkout[txn.session] = "complete"
  BY <1>2 DEF NoTxn, Settled
<1>6. BooksReal
  BY <1>1, <1>2, <1>3, <1>4, <1>5 DEF BooksReal, PaymentsReal, RefundsReal, TransfersReal,
     ConfirmedWasPaid, TypeOK, Txn
<1>7. RequestReal(NoRequest)
  <2>1. /\ NoRequest.txn = NoTxn /\ NoRequest.op = "idle" /\ NoRequest.booking = NewBooking
        /\ NoTxn.status \notin Settled /\ NoTxn.session = NoSession /\ NoTxn.transfer = "none"
    BY DEF NoRequest, NoTxn, Settled
  <2> QED BY <1>3, <2>1 DEF RequestReal, RowReal, RefundInFlight, Closers, Webhooks
<1> QED BY <1>1, <1>4, <1>6, <1>7 DEF IInv, InFlightReal

\* Every step keeps the inductive invariant.
LEMMA NextIInv == IInv /\ [Next]_vars => IInv'
<1> SUFFICES ASSUME IInv, [Next]_vars PROVE IInv'
  OBVIOUS
<1>1. /\ TypeOK' /\ StripeGrows /\ BookingLater /\ RowLater(txn') /\ StripeLater
      /\ \A q \in Requests : RequestLater(req'[q])
  BY NextTypeOK, NextStripeGrows, NextBooking, NextRow, NextStripe, NextRequests DEF IInv
<1>2. PaymentsReal'
  BY <1>1 DEF PaymentsReal, RowLater, BookingLater, StripeGrows, IInv, BooksReal
<1>3. RefundsReal'
  <2>1. booking'.payment = "refunded" => \E s \in Sessions : refunds'[s] > 0
    BY <1>1 DEF BookingLater, StripeGrows, IInv, BooksReal, RefundsReal, TypeOK, Amount
  <2> QED BY <1>1, <2>1 DEF RefundsReal, RowLater, StripeLater
<1>4. TransfersReal'
  BY <1>1 DEF TransfersReal, RowLater, StripeLater
<1>5. ConfirmedWasPaid'
  BY <1>1 DEF ConfirmedWasPaid, BookingLater, IInv, BooksReal
<1>6. InFlightReal'
  BY <1>1 DEF InFlightReal, StripeLater, RequestLater, EventLater, RowLater, RequestReal,
     EventReal, RowReal, RefundInFlight
<1> QED BY <1>1, <1>2, <1>3, <1>4, <1>5, <1>6 DEF IInv, BooksReal

\* The inductive invariant always holds.
LEMMA Inductive == Spec => []IInv
BY InitIInv, NextIInv, PTL DEF Spec

\* No handler, sweep or webhook ever takes a booking or a transaction for paid
\* without a Checkout Session that the seeker completed.
THEOREM NoPaymentInvented == Spec => []PaymentsReal
<1>1. IInv => PaymentsReal
  BY DEF IInv, BooksReal
<1> QED BY <1>1, Inductive, PTL

\* No refund is recorded beyond what Stripe paid back, whichever of admin refunds,
\* automatic refunds and charge.refunded events write it and in whatever order.
THEOREM NoRefundInvented == Spec => []RefundsReal
<1>1. IInv => RefundsReal
  BY DEF IInv, BooksReal
<1> QED BY <1>1, Inductive, PTL

\* The payout sweep never marks a transfer completed that it did not make, and
\* makes none for a session that was not paid.
THEOREM NoTransferInvented == Spec => []TransfersReal
<1>1. IInv => TransfersReal
  BY DEF IInv, BooksReal
<1> QED BY <1>1, Inductive, PTL

\* The books of a booking never show money that did not move at Stripe: neither a payment,
\* nor a refund, nor a payout.
THEOREM BooksAreReal == Spec => []MoneyReal
<1>1. IInv => MoneyReal
  BY DEF IInv, BooksReal, MoneyReal
<1> QED BY <1>1, Inductive, PTL

\* Stale copies notwithstanding, nobody holds a confirmed booking or gets a meeting
\* that was not paid for, and a free booking is never asked to be.
THEOREM NoUnpaidConfirmation == Spec => []ConfirmedWasPaid
<1>1. IInv => ConfirmedWasPaid
  BY DEF IInv, BooksReal
<1> QED BY <1>1, Inductive, PTL

\* What requests in flight and undelivered events say of money stays true until they
\* are done with it, however long that takes.
THEOREM CopiesStayReal == Spec => []InFlightReal
<1>1. IInv => InFlightReal
  BY DEF IInv
<1> QED BY <1>1, Inductive, PTL

-----------------------------------------------------------------------------
(* What holds when nothing outside the requests goes wrong.  When requests are *)
(* served one at a time and Stripe repeats no event, the booking and its       *)
(* transaction tell the same story, and what they do is what BookingLifecycle  *)
(* promises.  When requests run side by side, the row locks keep the payout    *)
(* and the refunds of a session apart.                                         *)

\* At most one request is in progress.
OneByOne == \A p, q \in Requests : p = q

-----------------------------------------------------------------------------
(* The inductive invariant                                                   *)

Repaid == {"refunded", "partially_refunded"}

\* What the rows say of each other between two requests, and of a free booking
RowsFit ==
    /\ StatusesAgree
    /\ txn.status \notin Repaid => txn.refunded = 0
    /\ txn.charge => txn.status \in Settled
    /\ Price = 0 => txn.status = "absent" /\ booking.payment = "paid"

\* A payment is announced once, and not after it was recorded.
AnnouncedOnce ==
    \A e \in events : e.type = "completed" =>
        e.amount = 0 /\ (e.session = txn.session => txn.status \in {"pending", "failed"})

\* A transaction from which more has been paid back than from the one in the books
PaidBack(t) ==
    /\ t.status \in Repaid /\ t.session = txn.session /\ t.refunded >= txn.refunded
    /\ txn.status \in Settled

\* The booking is as the one request in progress has found it, and may have the outcome.
CallFits(r) ==
    /\ r.op = "accept"   => booking.status = "pending" /\ booking.payment = "paid"
    /\ r.op = "complete" => booking.status \in Active /\ booking.payment # "unpaid"
    /\ r.op = "no_show"  => booking.status = "confirmed" /\ booking.payment # "unpaid"
    /\ r.op = "cancel"   => booking.status \in Active
    /\ r.op \in {"reject", "expire"} => booking.status = "pending"
    /\ r.op \in {"accept", "complete", "no_show"} => r.booking = booking
    /\ r.op \in Closers =>
          /\ r.step = "flush" => r.booking = booking
          /\ r.step # "flush" => r.booking = [booking EXCEPT !.status = ClosedStatus(r.op)]
          /\ r.step \in {"flush", "refund"} => r.txn = NoTxn
          /\ r.step = "refund" => booking.payment = "paid"
          /\ r.txn # NoTxn => booking.payment = "paid" /\ PaidBack(r.txn)
    /\ r.op = "checkout" =>
          Price > 0 /\ booking.payment = "unpaid" /\ txn.status \in {"absent", "pending"}

\* So is the transaction.
TxnCallFits(r) ==
    /\ r.op \in Webhooks /\ r.step = "flush" => r.txn = txn
    /\ r.op \in Webhooks /\ r.step # "flush" => r.booking = booking /\ r.txn.session = txn.session
    /\ r.op = "completed" =>
          /\ txn.status \in {"pending", "failed"}
          /\ r.event.amount = 0 /\ r.event \notin events
          /\ r.step # "flush" => r.txn.status = "succeeded" /\ r.txn.refunded = 0
    /\ r.op = "expired" =>
          /\ txn.status = "pending"
          /\ r.step # "flush" => r.txn.status = "failed" /\ r.txn.refunded = 0 /\ ~r.txn.charge
    /\ r.op = "refunded" =>
          /\ txn.status \in Settled
          /\ txn.status \in Repaid => r.event.amount > txn.refunded
          /\ r.step # "flush" => PaidBack(r.txn)
    /\ r.op = "admin_refund" => PaidBack(r.txn)
    /\ r.op = "transfer" =>
          /\ r.txn.session = txn.session
          /\ txn.status = "succeeded" /\ r.txn.status = "succeeded" /\ r.txn.refunded = 0

Orderly ==
    /\ RowsFit /\ AnnouncedOnce
    /\ \A p \in Requests : CallFits(req[p]) /\ TxnCallFits(req[p])

SerialInv == IInv /\ Orderly

-----------------------------------------------------------------------------
(* Steps and their parts                                                     *)

\* A flush over a row that is as it was read writes the object.
LEMMA FlushFresh ==
    /\ \A row, new \in Booking : Flush(row, row, new) = new
    /\ \A row, new \in Txn : Flush(row, row, new) = new
<1>1. ASSUME NEW row \in Booking, NEW new \in Booking PROVE Flush(row, row, new) = new
  BY DEF Flush, Booking
<1>2. ASSUME NEW row \in Txn, NEW new \in Txn PROVE Flush(row, row, new) = new
  BY DEF Flush, Txn
<1> QED BY <1>1, <1>2

\* The initial rows fit, and nothing is under way.
LEMMA InitOrderly == Init => Orderly
<1> SUFFICES ASSUME Init PROVE Orderly
  OBVIOUS
<1>1. /\ events = {} /\ \A p \in Requests : req[p] = NoRequest
      /\ NewInit \/ PaidInit
  BY DEF Init
<1>2. RowsFit
  <2>1. CASE NewInit
    BY <2>1, PriceAssumption DEF NewInit, RowsFit, StatusesAgree, NewBooking, NoTxn, Repaid
  <2>2. CASE PaidInit
    <3>1. PICK s \in Sessions :
            txn = [NewTxn(s) EXCEPT !.status = "succeeded", !.transfer = "pending", !.charge = TRUE]
      BY <2>2 DEF PaidInit
    <3>2. txn.status = "succeeded" /\ txn.refunded = 0
      BY <3>1 DEF NewTxn, NoTxn
    <3> QED BY <2>2, <3>2 DEF PaidInit, RowsFit, StatusesAgree, Repaid, Settled
  <2> QED BY <1>1, <2>1, <2>2
<1>3. CallFits(NoRequest) /\ TxnCallFits(NoRequest)
  BY DEF CallFits, TxnCallFits, NoRequest, Closers, Webhooks
<1> QED BY <1>1, <1>2, <1>3 DEF Orderly, AnnouncedOnce

\* What the world does, or a request that changes no row and stays as it is: all fits as
\* long as no payment is announced that is recorded or being recorded.
LEMMA Quiet ==
    ASSUME Orderly, booking' = booking, txn' = txn, req' = req,
           \A e \in events' :
               \/ e \in events \/ e.type # "completed"
               \/ /\ e.amount = 0 /\ (e.session = txn.session => txn.status \in {"pending", "failed"})
                  /\ \A p \in Requests : req[p].op = "completed" => req[p].event # e,
           TypeOK
    PROVE  Orderly'
<1>1. RowsFit'
  BY DEF Orderly, RowsFit, StatusesAgree
<1>2. AnnouncedOnce'
  BY DEF Orderly, AnnouncedOnce
<1>3. ASSUME NEW p \in Requests PROVE CallFits(req[p])' /\ TxnCallFits(req[p])'
  <2>1. CallFits(req[p]) /\ TxnCallFits(req[p])
    BY DEF Orderly
  <2>2. CallFits(req[p])'
    BY <2>1 DEF CallFits, PaidBack
  <2>3. req[p].op = "completed" => req[p].event.type = "completed"
    BY DEF TypeOK, RequestTyped, Webhooks
  <2>4. TxnCallFits(req[p])'
    BY <2>1, <2>3 DEF TxnCallFits, PaidBack
  <2> QED BY <2>2, <2>4
<1> QED BY <1>1, <1>2, <1>3 DEF Orderly

\* When a request ends there is none.
LEMMA Ended ==
    ASSUME OneByOne, TypeOK, NEW p \in Requests, Finish(p), RowsFit', AnnouncedOnce'
    PROVE  Orderly'
<1>1. \A q \in Requests : req'[q] = NoRequest
  BY DEF Finish, OneByOne, TypeOK
<1>2. ASSUME NEW q \in Requests PROVE CallFits(req[q])' /\ TxnCallFits(req[q])'
  <2>1. req'[q].op = "idle"
    BY <1>1 DEF NoRequest
  <2> QED BY <2>1 DEF CallFits, TxnCallFits, Closers, Webhooks
<1> QED BY <1>2 DEF Orderly

\* The one request goes on without writing a row.
LEMMA GoesOn ==
    ASSUME OneByOne, Orderly, TypeOK, NEW p \in Requests, NEW r, req' = [req EXCEPT ![p] = r],
           booking' = booking, txn' = txn,
           \A e \in events' : e \in events \/ e.type # "completed",
           CallFits(r), TxnCallFits(r), r.op = "completed" => r.event.type = "completed"
    PROVE  Orderly'
<1>1. \A q \in Requests : req'[q] = r
  BY DEF OneByOne, TypeOK
<1>2. RowsFit' /\ AnnouncedOnce'
  BY DEF Orderly, RowsFit, StatusesAgree, AnnouncedOnce
<1>3. ASSUME NEW q \in Requests PROVE CallFits(req[q])' /\ TxnCallFits(req[q])'
  <2>1. req'[q] = r
    BY <1>1
  <2> QED BY <2>1 DEF CallFits, TxnCallFits, PaidBack
<1> QED BY <1>2, <1>3 DEF Orderly

\* A request that reads the booking, which is as it has to be
Begins(p, op) ==
    /\ ReadBooking(p, op) /\ UNCHANGED <<booking, txn, stripe, world>>
    /\ booking.status \in Active
    /\ op = "accept" => booking.status = "pending" /\ PaidOrFree(booking)
    /\ op = "complete" => booking.status = "confirmed" \/ PaidOrFree(booking)
    /\ op = "no_show" => booking.status = "confirmed"
    /\ op = "reject" => booking.status = "pending"

\* A request that has read the booking for an outcome
LEMMA ReadOrderly ==
    ASSUME OneByOne, SerialInv, NEW p \in Requests,
           \/ Accept(p) \/ Complete(p) \/ MarkNoShow(p) \/ Reject(p)
           \/ \E actor \in {"seeker", "advisor"} : Cancel(p, actor)
    PROVE  Orderly'
<1>1. PICK op \in {"accept", "complete", "no_show", "cancel", "reject"} : Begins(p, op)
  <2>1. CASE Accept(p)
    BY <2>1 DEF Accept, Begins, Active
  <2>2. CASE Complete(p)
    BY <2>2 DEF Complete, Begins, Active
  <2>3. CASE MarkNoShow(p)
    BY <2>3 DEF MarkNoShow, Begins, Active
  <2>4. CASE Reject(p)
    BY <2>4 DEF Reject, Begins, Active
  <2>5. ASSUME NEW actor, Cancel(p, actor) PROVE Begins(p, "cancel")
    BY <2>5 DEF Cancel, Begins
  <2> QED BY <2>1, <2>2, <2>3, <2>4, <2>5
<1> DEFINE r == [NoRequest EXCEPT !.op = op, !.step = "flush", !.booking = booking]
<1>2. r.op = op /\ r.step = "flush" /\ r.booking = booking /\ r.txn = NoTxn
  BY DEF NoRequest
<1>3. PaidOrFree(booking) => booking.payment = "paid"
  BY DEF PaidOrFree, SerialInv, Orderly, RowsFit
<1>4. booking.status = "confirmed" => booking.payment # "unpaid"
  BY DEF SerialInv, IInv, BooksReal, ConfirmedWasPaid
<1>5. CallFits(r)
  <2> HIDE DEF r
  <2> QED BY <1>1, <1>2, <1>3, <1>4 DEF Begins, CallFits, Closers
<1>6. TxnCallFits(r)
  <2> HIDE DEF r
  <2> QED BY <1>2 DEF TxnCallFits, Webhooks
<1>7. req' = [req EXCEPT ![p] = r] /\ booking' = booking /\ txn' = txn /\ events' = events
  BY <1>1 DEF Begins, ReadBooking, stripe
<1> HIDE DEF r
<1> QED BY <1>2, <1>5, <1>6, <1>7, GoesOn DEF SerialInv, IInv

\* The sweep takes a request that nobody has accepted.
LEMMA ExpireOrderly ==
    ASSUME OneByOne, SerialInv, NEW p \in Requests, ExpireUnaccepted(p)
    PROVE  Orderly'
<1> DEFINE b == [booking EXCEPT !.status = "cancelled"]
           r == Closing("expire", b)
<1>1. b \in Booking /\ "expire" \in Closers
  BY DEF SerialInv, IInv, TypeOK, Booking, BookingStatus, Closers
<1>2. /\ r.op = "expire" /\ r.booking = b /\ r.txn = NoTxn
      /\ r.step = IF b.payment = "paid" THEN "refund" ELSE "commit"
  BY <1>1, ClosingTyped DEF Closing, NoRequest
<1>3. b.payment = booking.payment
  BY DEF SerialInv, IInv, TypeOK, Booking
<1>4. CallFits(r) /\ TxnCallFits(r)
  <2>1. booking.status = "pending" /\ ClosedStatus("expire") = "cancelled"
    BY DEF ExpireUnaccepted, ClosedStatus
  <2>2. r.booking = [booking EXCEPT !.status = ClosedStatus(r.op)]
    BY <1>2, <2>1
  <2> HIDE DEF r, b
  <2> QED BY <1>2, <1>3, <2>1, <2>2 DEF CallFits, TxnCallFits, Closers, Webhooks
<1> HIDE DEF r
<1>5. req' = [req EXCEPT ![p] = r]
  BY DEF ExpireUnaccepted, r
<1> QED BY <1>2, <1>4, <1>5, GoesOn DEF ExpireUnaccepted, SerialInv, IInv, stripe

\* A closing request has written the status.
LEMMA CloseFlushOrderly ==
    ASSUME OneByOne, SerialInv, NEW p \in Requests, CloseFlush(p)
    PROVE  Orderly'
<1> DEFINE op   == req[p].op
           mine == [req[p].booking EXCEPT !.status = ClosedStatus(op)]
           row  == Flush(booking, req[p].booking, mine)
           b    == IF op = "reject" THEN row ELSE mine
           r    == Closing(op, b)
<1>1. /\ op \in Closers /\ req[p].step = "flush" /\ req' = [req EXCEPT ![p] = r]
      /\ UNCHANGED <<booking, txn, stripe, world>>
  BY DEF CloseFlush, Closers
<1>2. req[p].booking = booking /\ booking \in Booking
  BY <1>1 DEF SerialInv, Orderly, CallFits, IInv, TypeOK
<1>3. mine \in Booking
  BY <1>2 DEF Booking, BookingStatus, ClosedStatus
<1>4. row = mine /\ b = mine
  BY <1>2, <1>3, FlushFresh
<1>5. /\ r.op = op /\ r.booking = mine /\ r.txn = NoTxn
      /\ r.step = IF mine.payment = "paid" THEN "refund" ELSE "commit"
  BY <1>1, <1>3, <1>4, ClosingTyped DEF Closing, NoRequest
<1>6. mine = [booking EXCEPT !.status = ClosedStatus(op)] /\ mine.payment = booking.payment
  BY <1>2 DEF Booking
<1>7. CallFits(req[p])
  BY DEF SerialInv, Orderly
<1> HIDE DEF r, b, row, mine
<1>8. CallFits(r) /\ TxnCallFits(r)
  BY <1>1, <1>5, <1>6, <1>7 DEF CallFits, TxnCallFits, Closers, Webhooks
<1>9. r.op # "completed" /\ booking' = booking /\ txn' = txn /\ events' = events
  BY <1>1, <1>5 DEF stripe, Closers
<1> QED BY <1>1, <1>8, <1>9, GoesOn DEF SerialInv, IInv

\* What a step may do: a step of BookingLifecycle or none, and no refund is taken back.
Promised ==
    /\ Lifecycle!Next \/ UNCHANGED <<booking.status, booking.payment>>
    /\ txn'.session = txn.session => txn'.refunded >= txn.refunded

\* accept: a paid request is confirmed.
LEMMA AcceptCommitOrderly ==
    ASSUME OneByOne, SerialInv, NEW p \in Requests, AcceptCommit(p)
    PROVE  Orderly' /\ Promised
<1> DEFINE new == [booking EXCEPT !.status = "confirmed"]
<1>1. /\ booking \in Booking /\ req[p].booking = booking /\ txn \in Txn
      /\ booking.status = "pending" /\ booking.payment = "paid"
  BY DEF SerialInv, Orderly, CallFits, AcceptCommit, At, IInv, TypeOK
<1>2. new \in Booking /\ Flush(booking, booking, new) = new
  BY <1>1, FlushFresh DEF Booking, BookingStatus
<1>3. /\ booking'.status = "confirmed" /\ booking'.payment = "paid"
      /\ UNCHANGED <<txn, events>> /\ Finish(p)
  BY <1>1, <1>2 DEF AcceptCommit, maybe_provision_meeting, stripe, Booking
<1>4. RowsFit' /\ AnnouncedOnce'
  BY <1>1, <1>3 DEF SerialInv, Orderly, RowsFit, StatusesAgree, AnnouncedOnce
<1>5. Promised
  BY <1>1, <1>3 DEF Promised, Lifecycle!Next, Lifecycle!Confirm, Txn, Amount
<1> QED BY <1>3, <1>4, <1>5, Ended DEF SerialInv, IInv

\* complete, mark_no_show: a booking that was paid for is held or missed.
LEMMA OutcomeCommitOrderly ==
    ASSUME OneByOne, SerialInv, NEW p \in Requests, CompleteCommit(p) \/ NoShowCommit(p)
    PROVE  Orderly' /\ Promised
<1>1. PICK op \in {"complete", "no_show"}, status \in {"completed", "no_show"} :
        /\ OutcomeCommit(p, op, status)
        /\ status = "no_show" <=> op = "no_show"
  BY DEF CompleteCommit, NoShowCommit
<1>2. /\ booking \in Booking /\ req[p].booking = booking /\ txn \in Txn
      /\ op = "complete" => booking.status \in Active
      /\ op = "no_show" => booking.status = "confirmed"
      /\ booking.payment # "unpaid"
  BY <1>1 DEF SerialInv, Orderly, CallFits, OutcomeCommit, At, IInv, TypeOK
<1> DEFINE new == [booking EXCEPT !.status = status]
<1>3. new \in Booking /\ Flush(booking, booking, new) = new
  BY <1>2, FlushFresh DEF Booking, BookingStatus
<1>4. /\ booking'.status = status /\ booking'.payment = booking.payment
      /\ UNCHANGED <<txn, events>> /\ Finish(p)
  BY <1>1, <1>2, <1>3 DEF OutcomeCommit, stripe, Booking
<1>5. RowsFit' /\ AnnouncedOnce'
  BY <1>2, <1>4 DEF SerialInv, Orderly, RowsFit, StatusesAgree, AnnouncedOnce
<1>6. Promised
  BY <1>1, <1>2, <1>4
     DEF Promised, Lifecycle!Next, Lifecycle!Hold, Lifecycle!Active, Active, Txn, Amount
<1> QED BY <1>4, <1>5, <1>6, Ended DEF SerialInv, IInv

\* What a refund leaves of the transaction has been paid back from it.
LEMMA RefundedPaidBack ==
    ASSUME SerialInv, NEW amount \in Amount, Refundable(txn, amount)
    PROVE  PaidBack(RefundedTxn(txn, amount))
<1>1. txn \in Txn /\ txn.refunded \in Nat /\ amount \in Nat
  BY DEF SerialInv, IInv, TypeOK, Txn, Amount
<1> QED BY <1>1 DEF RefundedTxn, Refundable, PaidBack, Repaid, Settled, Txn

\* A refund announces no payment.
LEMMA RefundAnnounced ==
    ASSUME NEW s \in Sessions, NEW amount \in Amount, StripeRefund(s, amount)
    PROVE  \A e \in events' : e \in events \/ e.type # "completed"
BY DEF StripeRefund

\* A closing request has made its refund, or has gone without.
LEMMA CloseRefundOrderly ==
    ASSUME OneByOne, SerialInv, NEW p \in Requests, CloseRefund(p) \/ CloseRefundFails(p)
    PROVE  Orderly'
<1>1. PICK t \in {NoTxn, RefundedTxn(txn, Price)} :
        /\ t # NoTxn => PaidBack(t)
        /\ req' = [req EXCEPT ![p].step = "commit", ![p].txn = t]
        /\ req[p].op \in Closers /\ req[p].step = "refund"
        /\ UNCHANGED <<booking, txn>>
        /\ \A e \in events' : e \in events \/ e.type # "completed"
  <2>1. Price \in Amount /\ TypeOK
    BY PriceAssumption DEF Amount, SerialInv, IInv
  <2>2. Refundable(txn, Price) => txn.session \in Sessions
    BY <2>1, RefundedTxnTyped DEF TypeOK
  <2>3. CASE CloseRefund(p)
    <3>1. PaidBack(RefundedTxn(txn, Price))
      BY <2>1, <2>3, RefundedPaidBack DEF CloseRefund
    <3>2. \A e \in events' : e \in events \/ e.type # "completed"
      BY <2>1, <2>2, <2>3, RefundAnnounced DEF CloseRefund
    <3> QED BY <2>3, <3>1, <3>2 DEF CloseRefund
  <2>4. CASE CloseRefundFails(p)
    <3>1. req[p].txn = NoTxn /\ req[p] \in Request /\ req \in [Requests -> Request]
      BY <2>1, <2>4 DEF CloseRefundFails, SerialInv, Orderly, CallFits, TypeOK
    <3>2. [req[p] EXCEPT !.step = "commit"] = [req[p] EXCEPT !.step = "commit", !.txn = NoTxn]
      BY <3>1 DEF Request
    <3>3. req' = [req EXCEPT ![p] = [req[p] EXCEPT !.step = "commit"]]
      BY <2>4 DEF CloseRefundFails
    <3>4. req' = [req EXCEPT ![p].step = "commit", ![p].txn = NoTxn]
      BY <3>1, <3>2, <3>3
    <3>5. \A e \in events' : e \in events \/ e.type # "completed"
      BY <2>1, <2>2, <2>4, RefundAnnounced DEF CloseRefundFails, stripe
    <3> QED BY <2>4, <3>4, <3>5 DEF CloseRefundFails
  <2> QED BY <2>3, <2>4
<1> DEFINE r == [req[p] EXCEPT !.step = "commit", !.txn = t]
<1>2. req \in [Requests -> Request] /\ req[p] \in Request
  BY DEF SerialInv, IInv, TypeOK
<1>3. req' = [req EXCEPT ![p] = r]
  BY <1>1, <1>2
<1>4. r.op = req[p].op /\ r.step = "commit" /\ r.booking = req[p].booking /\ r.txn = t
  BY <1>2 DEF Request
<1>5. CallFits(req[p])
  BY DEF SerialInv, Orderly
<1> HIDE DEF r
<1>6. CallFits(r) /\ TxnCallFits(r)
  BY <1>1, <1>4, <1>5 DEF CallFits, TxnCallFits, Closers, Webhooks
<1>7. booking' = booking /\ txn' = txn /\ r.op # "completed"
  BY <1>1, <1>4 DEF Closers
<1> QED BY <1>1, <1>3, <1>6, <1>7, GoesOn DEF SerialInv, IInv

\* The rows after a transaction and the booking were written as refunded
LEMMA RepaidFits ==
    ASSUME SerialInv, PaidBack(txn'), txn' \in Txn, events' = events,
           booking'.payment = "refunded"
    PROVE  RowsFit' /\ AnnouncedOnce'
<1>1. txn'.status \in Repaid /\ txn'.session = txn.session /\ txn.status \in Settled
  BY DEF PaidBack
<1>2. RowsFit'
  <2>1. txn.status # "absent"
    BY <1>1 DEF Settled
  <2> QED BY <1>1, <2>1 DEF SerialInv, Orderly, RowsFit, StatusesAgree, Repaid, Settled
<1>3. AnnouncedOnce'
  BY <1>1 DEF SerialInv, Orderly, AnnouncedOnce, Settled
<1> QED BY <1>2, <1>3

\* cancel, reject, expire_unaccepted_pending_bookings: the booking is called off.
LEMMA CloseCommitOrderly ==
    ASSUME OneByOne, SerialInv, NEW p \in Requests, CloseCommit(p)
    PROVE  Orderly' /\ Promised
<1> DEFINE r   == req[p]
           row == [booking EXCEPT !.status = ClosedStatus(r.op)]
           new == [r.booking EXCEPT !.payment = IF r.txn # NoTxn THEN "refunded" ELSE @,
                                    !.meeting = FALSE]
<1>1. /\ booking \in Booking /\ txn \in Txn /\ r.txn \in Txn /\ r.op \in Closers
      /\ r.step = "commit" /\ CallFits(r)
  BY InFlightTyped DEF SerialInv, Orderly, CloseCommit, IInv, TypeOK
<1>2. /\ r.booking = row
      /\ r.txn # NoTxn => booking.payment = "paid" /\ PaidBack(r.txn)
  BY <1>1 DEF CallFits
<1>3. row \in Booking
  BY <1>1 DEF Booking, BookingStatus, ClosedStatus
<1>4. new \in Booking
  BY <1>2, <1>3 DEF Booking, PaymentStatus
<1>5. Flush(row, row, new) = new
  BY <1>3, <1>4, FlushFresh
<1>6. /\ booking'.status = ClosedStatus(r.op)
      /\ booking'.payment = IF r.txn # NoTxn THEN "refunded" ELSE booking.payment
      /\ txn' = (IF r.txn # NoTxn THEN r.txn ELSE txn) /\ events' = events /\ Finish(p)
  BY <1>1, <1>2, <1>3, <1>5 DEF CloseCommit, stripe, Booking
<1>7. /\ r.op = "cancel" => booking.status \in Active
      /\ r.op \in {"reject", "expire"} => booking.status = "pending"
  BY <1>1 DEF CallFits
<1> HIDE DEF r, row, new
<1>8. RowsFit' /\ AnnouncedOnce'
  <2>1. CASE r.txn = NoTxn
    BY <1>6, <2>1 DEF SerialInv, Orderly, RowsFit, StatusesAgree, AnnouncedOnce
  <2>2. CASE r.txn # NoTxn
    <3>1. PaidBack(txn') /\ txn' \in Txn /\ booking'.payment = "refunded"
      BY <1>1, <1>2, <1>6, <2>2
    <3> QED BY <1>6, <3>1, RepaidFits
  <2> QED BY <2>1, <2>2
<1>9. Promised
  <2>1. txn'.session = txn.session => txn'.refunded >= txn.refunded
    BY <1>1, <1>2, <1>6 DEF PaidBack, Txn, Amount
  <2>2. Lifecycle!CallOff
    BY <1>1, <1>2, <1>6, <1>7
       DEF Lifecycle!CallOff, Lifecycle!Active, Active, ClosedStatus, Closers
  <2> QED BY <2>1, <2>2 DEF Promised, Lifecycle!Next
<1> QED BY <1>6, <1>8, <1>9, Ended DEF SerialInv, IInv

\* refund_transaction: the refund is made, and the request goes on.
LEMMA AdminRefundOrderly ==
    ASSUME OneByOne, SerialInv, NEW p \in Requests, NEW amount \in 1 .. Price,
           AdminRefund(p, amount) \/ AdminRefundUnanswered(p, amount)
    PROVE  Orderly'
<1> DEFINE t == RefundedTxn(txn, amount)
           r == [NoRequest EXCEPT !.op = "admin_refund", !.step = "commit", !.txn = t]
<1>1. /\ amount \in Amount /\ Refundable(txn, amount) /\ StripeRefund(txn.session, amount)
      /\ booking' = booking /\ txn' = txn
      /\ req' = [req EXCEPT ![p] = r] \/ req' = req
  BY DEF AdminRefund, AdminRefundUnanswered, Amount
<1>2. txn.session \in Sessions /\ TypeOK
  BY <1>1, RefundedTxnTyped DEF SerialInv, IInv, TypeOK
<1>3. \A e \in events' : e \in events \/ e.type # "completed"
  BY <1>1, <1>2, RefundAnnounced
<1>4. PaidBack(t)
  BY <1>1, RefundedPaidBack
<1>5. r.op = "admin_refund" /\ r.txn = t
  BY DEF NoRequest
<1> HIDE DEF r, t
<1>6. CallFits(r) /\ TxnCallFits(r) /\ r.op # "completed"
  BY <1>4, <1>5 DEF CallFits, TxnCallFits, Closers, Webhooks
<1>7. CASE req' = [req EXCEPT ![p] = r]
  BY <1>1, <1>2, <1>3, <1>6, <1>7, GoesOn DEF SerialInv
<1>8. CASE req' = req
  BY <1>1, <1>2, <1>3, <1>8, Quiet DEF SerialInv
<1> QED BY <1>1, <1>7, <1>8

\* refund_transaction: booking and transaction are written as refunded.
LEMMA AdminRefundCommitOrderly ==
    ASSUME OneByOne, SerialInv, NEW p \in Requests, AdminRefundCommit(p)
    PROVE  Orderly' /\ Promised
<1>1. /\ booking \in Booking /\ txn \in Txn /\ req[p].txn \in Txn
      /\ PaidBack(req[p].txn)
  BY InFlightTyped
     DEF SerialInv, Orderly, TxnCallFits, AdminRefundCommit, At, IInv, TypeOK
<1>2. /\ booking'.payment = "refunded" /\ booking'.status = booking.status
      /\ txn' = req[p].txn /\ events' = events /\ Finish(p)
  BY <1>1 DEF AdminRefundCommit, stripe, Booking
<1>3. RowsFit' /\ AnnouncedOnce'
  BY <1>1, <1>2, RepaidFits
<1>4. Promised
  <2>1. booking.payment \in {"paid", "refunded"}
    <3>1. txn.status \in Settled /\ RowsFit /\ booking.payment \in PaymentStatus
      BY <1>1 DEF PaidBack, SerialInv, Orderly, Booking
    <3> QED BY <3>1, PriceAssumption DEF RowsFit, StatusesAgree, Settled, PaymentStatus
  <2>2. txn'.session = txn.session => txn'.refunded >= txn.refunded
    BY <1>1, <1>2 DEF PaidBack
  <2> QED BY <1>2, <2>1, <2>2 DEF Promised, Lifecycle!Next, Lifecycle!Refund
<1> QED BY <1>2, <1>3, <1>4, Ended DEF SerialInv, IInv

\* create_checkout_session reads rows of a booking that is not paid for.
LEMMA CheckoutOrderly ==
    ASSUME OneByOne, SerialInv, NEW p \in Requests,
           \/ Checkout(p) \/ CheckoutResume(p) \/ CheckoutFails(p)
           \/ \E s \in Sessions : CheckoutCreate(p, s)
    PROVE  Orderly'
<1>1. CASE Checkout(p)
  <2> DEFINE r == [NoRequest EXCEPT !.op = "checkout", !.step = "create", !.txn = txn]
  <2>1. r.op = "checkout"
    BY DEF NoRequest
  <2>2. req' = [req EXCEPT ![p] = r] /\ UNCHANGED <<booking, txn, events>>
    BY <1>1 DEF Checkout, stripe
  <2> HIDE DEF r
  <2>3. CallFits(r) /\ TxnCallFits(r)
    BY <1>1, <2>1 DEF Checkout, CallFits, TxnCallFits, Closers, Webhooks
  <2> QED BY <2>1, <2>2, <2>3, GoesOn DEF SerialInv, IInv
<1>2. CASE CheckoutResume(p) \/ CheckoutFails(p)
  <2>1. Finish(p) /\ UNCHANGED <<booking, txn, events>>
    BY <1>2 DEF CheckoutResume, CheckoutFails, stripe
  <2>2. RowsFit' /\ AnnouncedOnce'
    BY <2>1 DEF SerialInv, Orderly, RowsFit, StatusesAgree, AnnouncedOnce
  <2> QED BY <2>1, <2>2, Ended DEF SerialInv, IInv
<1>3. ASSUME NEW s \in Sessions, CheckoutCreate(p, s) PROVE Orderly'
  <2> DEFINE r == [req[p] EXCEPT !.step = "insert", !.event.session = s]
  <2>1. TypeOK
    BY DEF SerialInv, IInv
  <2>2. req[p].op = "checkout" /\ r.op = "checkout"
    BY <1>3, <2>1, InFlightTyped DEF CheckoutCreate, At, Request
  <2>3. req' = [req EXCEPT ![p] = r]
    <3>1. req \in [Requests -> Request] /\ req[p] \in Request
      BY <2>1 DEF TypeOK
    <3>2. req' = [req EXCEPT ![p].step = "insert", ![p].event.session = s]
      BY <1>3 DEF CheckoutCreate
    <3> QED BY <3>1, <3>2
  <2>4. CallFits(req[p])
    BY DEF SerialInv, Orderly
  <2> HIDE DEF r
  <2>5. CallFits(r) /\ TxnCallFits(r)
    BY <2>2, <2>4 DEF CallFits, TxnCallFits, Closers, Webhooks
  <2>6. UNCHANGED <<booking, txn, events>>
    BY <1>3 DEF CheckoutCreate
  <2> QED BY <2>1, <2>2, <2>3, <2>5, <2>6, GoesOn DEF SerialInv
<1> QED BY <1>1, <1>2, <1>3

\* The row of a new session takes the place of one from which nothing was paid.
LEMMA CheckoutInsertOrderly ==
    ASSUME OneByOne, SerialInv, NEW p \in Requests, CheckoutInsert(p)
    PROVE  Orderly' /\ Promised
<1>1. /\ Price > 0 /\ booking.payment = "unpaid" /\ txn.status \in {"absent", "pending"}
      /\ txn \in Txn /\ txn.refunded = 0
  BY DEF SerialInv, Orderly, CallFits, RowsFit, Repaid, CheckoutInsert, At, IInv, TypeOK
<1>2. /\ txn' = NewTxn(req[p].event.session) \/ txn' = txn
      /\ UNCHANGED <<booking, events>> /\ Finish(p)
  BY DEF CheckoutInsert
<1>3. /\ txn'.status \in {"absent", "pending"} /\ txn'.refunded = 0
      /\ txn'.status = "absent" => txn' = txn
      /\ txn'.charge => txn' = txn
  BY <1>1, <1>2 DEF NewTxn, NoTxn
<1>4. RowsFit'
  BY <1>1, <1>2, <1>3 DEF SerialInv, Orderly, RowsFit, StatusesAgree, Settled
<1>5. AnnouncedOnce'
  BY <1>2, <1>3 DEF SerialInv, Orderly, AnnouncedOnce
<1>6. Promised
  BY <1>1, <1>2, <1>3 DEF Promised
<1> QED BY <1>2, <1>4, <1>5, <1>6, Ended DEF SerialInv, IInv

\* An event that is taken up has work to do, and is out of the way.
LEMMA ReceiveOrderly ==
    ASSUME OneByOne, ~StripeRedelivers, SerialInv,
           NEW p \in Requests, NEW e \in events, Receive(p, e)
    PROVE  Orderly'
<1>1. PICK r :
        /\ r.op = e.type /\ r.step = "flush" /\ r.txn = txn /\ r.event = e
        /\ req' = [req EXCEPT ![p] = r]
  BY DEF NoRequest, Receive
<1>2. /\ e \in Event /\ e.type \in Webhooks /\ Applies(e)
      /\ UNCHANGED <<booking, txn>> /\ events' = events \ {e}
  BY DEF Receive, Remaining, SerialInv, IInv, TypeOK, Event, Webhooks
<1>3. ASSUME NEW q \in Requests PROVE CallFits(req[q])' /\ TxnCallFits(req[q])'
  <2>1. req'[q] = r
    BY <1>1 DEF OneByOne, SerialInv, IInv, TypeOK
  <2>2. CallFits(req[q])'
    BY <1>1, <1>2, <2>1 DEF CallFits, Closers, Webhooks
  <2>3. CASE e.type = "completed"
    <3>1. e.amount = 0 /\ txn.status \in {"pending", "failed"}
      BY <1>2, <2>3 DEF Applies, CompletedApplies, SerialInv, Orderly, AnnouncedOnce
    <3> QED BY <1>1, <1>2, <2>1, <2>2, <2>3, <3>1 DEF TxnCallFits, Webhooks
  <2>4. CASE e.type = "expired"
    <3>1. txn.status = "pending"
      BY <1>2, <2>4 DEF Applies, ExpiredApplies
    <3> QED BY <1>1, <1>2, <2>1, <2>2, <2>4, <3>1 DEF TxnCallFits, Webhooks
  <2>5. CASE e.type = "refunded"
    <3>1. txn.status \in Settled /\ (txn.status \in Repaid => e.amount > txn.refunded)
      BY <1>2, <2>5 DEF Applies, RefundedApplies, SerialInv, Orderly, RowsFit, Repaid
    <3> QED BY <1>1, <1>2, <2>1, <2>2, <2>5, <3>1 DEF TxnCallFits, Webhooks
  <2> QED BY <1>2, <2>3, <2>4, <2>5 DEF Webhooks
<1>4. RowsFit' /\ AnnouncedOnce'
  BY <1>2 DEF SerialInv, Orderly, RowsFit, StatusesAgree, AnnouncedOnce
<1> QED BY <1>3, <1>4 DEF Orderly

\* What a webhook writes into its copy of the transaction before it flushes it.
LEMMA WebhookWrites ==
    ASSUME TypeOK, NEW p \in Requests, WebhookStep(p)
    PROVE  \E op \in Webhooks, new \in Txn :
             /\ WebhookFlush(p, op, new) /\ new.session = req[p].txn.session
             /\ op = "completed" => new.status = "succeeded" /\ new.refunded = req[p].txn.refunded
             /\ op = "expired" => /\ new.status = "failed" /\ new.refunded = req[p].txn.refunded
                                  /\ new.charge = req[p].txn.charge
             /\ op = "refunded" => new.status \in Repaid /\ new.refunded = req[p].event.amount
<1>1. req[p].txn \in Txn /\ req[p].event.amount \in Amount
  BY InFlightTyped
<1>2. CASE CompletedFlush(p)
  <2>1. PICK charge \in BOOLEAN :
          WebhookFlush(p, "completed", [req[p].txn EXCEPT !.status = "succeeded",
                                            !.transfer = "pending", !.charge = charge])
    BY <1>2 DEF CompletedFlush
  <2> DEFINE new == [req[p].txn EXCEPT !.status = "succeeded",
                                       !.transfer = "pending", !.charge = charge]
  <2>2. /\ new \in Txn /\ new.session = req[p].txn.session
        /\ new.status = "succeeded" /\ new.refunded = req[p].txn.refunded
    BY <1>1, <2>1 DEF Txn, TransactionStatus, TransferStatus
  <2> HIDE DEF new
  <2>3. WebhookFlush(p, "completed", new)
    BY <2>1 DEF new
  <2> QED BY <2>2, <2>3 DEF Webhooks
<1>3. CASE ExpiredFlush(p)
  <2> DEFINE new == [req[p].txn EXCEPT !.status = "failed"]
  <2>1. /\ new \in Txn /\ new.session = req[p].txn.session
        /\ new.status = "failed" /\ new.refunded = req[p].txn.refunded
        /\ new.charge = req[p].txn.charge
    BY <1>1 DEF Txn, TransactionStatus
  <2>2. WebhookFlush(p, "expired", new)
    BY <1>3 DEF ExpiredFlush
  <2> HIDE DEF new
  <2> QED BY <2>1, <2>2 DEF Webhooks
<1>4. CASE RefundedFlush(p)
  <2> DEFINE amount == req[p].event.amount
             new == [req[p].txn EXCEPT
                        !.refunded = amount,
                        !.status   = IF amount >= Price THEN "refunded"
                                                        ELSE "partially_refunded",
                        !.transfer = IF @ = "pending" THEN "cancelled" ELSE @]
  <2>1. new \in Txn
    BY <1>1 DEF Txn, TransactionStatus, TransferStatus
  <2>2. new.session = req[p].txn.session /\ new.status \in Repaid /\ new.refunded = amount
    BY <1>1 DEF Txn, Repaid
  <2>3. WebhookFlush(p, "refunded", new)
    BY <1>4 DEF RefundedFlush
  <2> HIDE DEF new
  <2> QED BY <2>1, <2>2, <2>3 DEF Webhooks
<1> QED BY <1>2, <1>3, <1>4 DEF WebhookStep

\* A webhook has flushed the transaction as it found it, and has read the booking.
LEMMA WebhookFlushOrderly ==
    ASSUME OneByOne, SerialInv, NEW p \in Requests, WebhookStep(p)
    PROVE  Orderly'
<1>1. /\ TypeOK /\ txn \in Txn /\ req[p] \in Request /\ req \in [Requests -> Request]
      /\ req[p].event.amount \in Amount /\ CallFits(req[p]) /\ TxnCallFits(req[p])
  BY InFlightTyped DEF SerialInv, IInv, Orderly, TypeOK
<1>2. PICK op \in Webhooks, new \in Txn :
        /\ WebhookFlush(p, op, new) /\ new.session = req[p].txn.session
        /\ op = "completed" => new.status = "succeeded" /\ new.refunded = req[p].txn.refunded
        /\ op = "expired" => /\ new.status = "failed" /\ new.refunded = req[p].txn.refunded
                             /\ new.charge = req[p].txn.charge
        /\ op = "refunded" => new.status \in Repaid /\ new.refunded = req[p].event.amount
  BY <1>1, WebhookWrites
<1>3. req[p].op = op /\ req[p].step = "flush" /\ req[p].txn = txn
  BY <1>1, <1>2 DEF WebhookFlush, At, TxnCallFits
<1>4. Flush(txn, req[p].txn, new) = new
  BY <1>1, <1>2, <1>3, FlushFresh
<1> DEFINE r == [req[p] EXCEPT !.step = "commit", !.booking = booking, !.txn = new]
<1>5. req' = [req EXCEPT ![p] = r] /\ UNCHANGED <<booking, txn, events>>
  BY <1>1, <1>2, <1>4 DEF WebhookFlush, stripe
<1>6. /\ r.op = op /\ r.step = "commit" /\ r.booking = booking /\ r.txn = new
      /\ r.event = req[p].event
  BY <1>1, <1>3 DEF Request
<1> HIDE DEF r
<1>7. CallFits(r)
  BY <1>2, <1>6 DEF CallFits, Closers, Webhooks
<1>8. TxnCallFits(r)
  <2>1. CASE op = "completed"
    <3>1. txn.status \in {"pending", "failed"} /\ txn.refunded = 0
      BY <1>1, <1>3, <2>1 DEF TxnCallFits, SerialInv, Orderly, RowsFit, Repaid
    <3> QED BY <1>1, <1>2, <1>3, <1>6, <2>1, <3>1 DEF TxnCallFits, Webhooks
  <2>2. CASE op = "expired"
    <3>1. txn.status = "pending" /\ txn.refunded = 0 /\ ~txn.charge
      BY <1>1, <1>3, <2>2 DEF TxnCallFits, SerialInv, Orderly, RowsFit, Repaid, Settled
    <3> QED BY <1>1, <1>2, <1>3, <1>6, <2>2, <3>1 DEF TxnCallFits, Webhooks
  <2>3. CASE op = "refunded"
    <3>1. /\ txn.status \in Settled
          /\ txn.status \in Repaid => req[p].event.amount > txn.refunded
          /\ txn.status \notin Repaid => txn.refunded = 0
      BY <1>1, <1>3, <2>3 DEF TxnCallFits, SerialInv, Orderly, RowsFit
    <3>2. req[p].event.amount \in Nat /\ txn.refunded \in Nat
      BY <1>1 DEF Amount, Txn
    <3>3. new.status \in Repaid /\ new.session = txn.session
          /\ new.refunded = req[p].event.amount
      BY <1>2, <1>3, <2>3
    <3>4. PaidBack(new)
      BY <3>1, <3>2, <3>3 DEF PaidBack
    <3> QED BY <1>1, <1>2, <1>3, <1>6, <2>3, <3>1, <3>3, <3>4 DEF TxnCallFits, Webhooks
  <2> QED BY <1>2, <2>1, <2>2, <2>3 DEF Webhooks
<1>9. r.op = "completed" => r.event.type = "completed"
  BY <1>1, <1>3, <1>6 DEF TypeOK, RequestTyped, Webhooks
<1> QED BY <1>1, <1>5, <1>7, <1>8, <1>9, GoesOn DEF SerialInv

\* A transaction that a webhook is settling or giving up fits a booking not paid for.
LEMMA UnsettledUnpaid ==
    ASSUME SerialInv, txn.status \in {"pending", "failed"}
    PROVE  /\ Price > 0 /\ booking.payment = "unpaid" /\ txn.refunded = 0
           /\ booking.status \in {"pending", "cancelled", "rejected"}
<1>1. /\ RowsFit /\ booking.payment \in PaymentStatus /\ booking.status \in BookingStatus
      /\ ConfirmedWasPaid
  BY DEF SerialInv, Orderly, IInv, TypeOK, Booking, BooksReal
<1>2. Price > 0
  BY <1>1, PriceAssumption DEF RowsFit
<1>3. booking.payment = "unpaid" /\ txn.refunded = 0
  BY <1>1, <1>2 DEF RowsFit, StatusesAgree, PaymentStatus, Repaid
<1>4. booking.status \in {"pending", "cancelled", "rejected"}
  BY <1>1, <1>3 DEF ConfirmedWasPaid, BookingStatus
<1> QED BY <1>2, <1>3, <1>4

\* _handle_checkout_completed: a pending booking is confirmed, one that was called off is paid.
LEMMA CompletedCommitOrderly ==
    ASSUME OneByOne, SerialInv, NEW p \in Requests, CompletedCommit(p)
    PROVE  Orderly' /\ Promised
<1>1. /\ booking \in Booking /\ req[p].booking = booking /\ req[p].event \in Event
      /\ req[p].event.type = "completed" /\ req[p].event.session = txn.session
      /\ req[p].event.amount = 0 /\ req[p].event \notin events
      /\ txn.status \in {"pending", "failed"}
      /\ req[p].txn.session = txn.session
      /\ req[p].txn.status = "succeeded" /\ req[p].txn.refunded = 0
  <2>1. TypeOK /\ req[p].op = "completed" /\ req[p].step = "commit" /\ TxnCallFits(req[p])
    BY DEF SerialInv, Orderly, IInv, CompletedCommit, At
  <2>2. RequestTyped(req[p]) /\ booking \in Booking
    BY <2>1 DEF TypeOK
  <2> QED BY <2>1, <2>2 DEF TxnCallFits, RequestTyped, Webhooks
<1>2. /\ Price > 0 /\ booking.payment = "unpaid" /\ txn.refunded = 0
      /\ booking.status \in {"pending", "cancelled", "rejected"}
  BY <1>1, UnsettledUnpaid
<1> DEFINE paid == [booking EXCEPT !.payment = "paid",
                                   !.status = IF @ = "pending" THEN "confirmed" ELSE @]
<1>3. /\ paid \in Booking /\ paid.payment = "paid"
      /\ paid.status = IF booking.status = "pending" THEN "confirmed" ELSE booking.status
  BY <1>1 DEF Booking, BookingStatus, PaymentStatus
<1>4. PICK zoom \in BOOLEAN : booking' = Flush(booking, booking, maybe_provision_meeting(paid, zoom))
  BY <1>1 DEF CompletedCommit
<1> HIDE DEF paid
<1> DEFINE new == maybe_provision_meeting(paid, zoom)
<1>5. new \in Booking /\ new.payment = paid.payment /\ new.status = paid.status
  BY <1>3 DEF maybe_provision_meeting, Booking
<1>6. booking' = new
  BY <1>1, <1>4, <1>5, FlushFresh
<1> HIDE DEF new
<1>7. /\ booking'.payment = "paid"
      /\ booking'.status = IF booking.status = "pending" THEN "confirmed" ELSE booking.status
  BY <1>3, <1>5, <1>6
<1>8. txn' = req[p].txn /\ events' = events /\ Finish(p)
  BY DEF CompletedCommit, stripe
<1>9. RowsFit'
  BY <1>1, <1>2, <1>7, <1>8 DEF RowsFit, StatusesAgree, Settled
<1>10. AnnouncedOnce'
  <2> SUFFICES ASSUME NEW e \in events, e.type = "completed"
               PROVE  e.amount = 0 /\ e.session # txn'.session
    BY <1>8 DEF AnnouncedOnce
  <2>1. e.amount = 0 /\ e \in Event
    BY DEF SerialInv, Orderly, AnnouncedOnce, IInv, TypeOK
  <2>2. e.session = txn.session => e = req[p].event
    BY <1>1, <2>1 DEF Event
  <2> QED BY <1>1, <1>8, <2>1, <2>2
<1>11. Promised
  <2>1. Lifecycle!Confirm \/ Lifecycle!PayLate
    BY <1>2, <1>7 DEF Lifecycle!Confirm, Lifecycle!PayLate
  <2> QED BY <1>1, <1>2, <1>8, <2>1 DEF Promised, Lifecycle!Next
<1> QED BY <1>8, <1>9, <1>10, <1>11, Ended DEF SerialInv, IInv

\* _handle_checkout_expired: a booking nobody paid for is called off.
LEMMA ExpiredCommitOrderly ==
    ASSUME OneByOne, SerialInv, NEW p \in Requests, ExpiredCommit(p)
    PROVE  Orderly' /\ Promised
<1>1. /\ booking \in Booking /\ req[p].booking = booking /\ req[p].op = "expired"
      /\ txn.status = "pending" /\ req[p].txn.session = txn.session
      /\ req[p].txn.status = "failed" /\ req[p].txn.refunded = 0 /\ ~req[p].txn.charge
  BY DEF SerialInv, Orderly, TxnCallFits, ExpiredCommit, At, IInv, TypeOK, Webhooks
<1>2. Price > 0 /\ booking.payment = "unpaid" /\ txn.refunded = 0
  BY <1>1, UnsettledUnpaid
<1> DEFINE off == [booking EXCEPT !.status = "cancelled"]
<1>3. /\ off \in Booking /\ Flush(booking, booking, off) = off
      /\ off.payment = booking.payment /\ off.status = "cancelled"
  BY <1>1, FlushFresh DEF Booking, BookingStatus
<1>4. booking' = IF booking.status = "pending" THEN off ELSE booking
  BY <1>1, <1>3 DEF ExpiredCommit, CancelsBooking
<1> HIDE DEF off
<1>5. /\ booking'.payment = "unpaid"
      /\ booking'.status = IF booking.status = "pending" THEN "cancelled" ELSE booking.status
  BY <1>2, <1>3, <1>4
<1>6. txn' = req[p].txn /\ events' = events /\ Finish(p)
  BY DEF ExpiredCommit, stripe
<1>7. RowsFit'
  BY <1>1, <1>2, <1>5, <1>6 DEF RowsFit, StatusesAgree
<1>8. AnnouncedOnce'
  BY <1>1, <1>6 DEF SerialInv, Orderly, AnnouncedOnce
<1>9. Promised
  <2>1. booking.status = "pending" => Lifecycle!CallOff
    BY <1>2, <1>5 DEF Lifecycle!CallOff, Lifecycle!Active
  <2> QED BY <1>1, <1>2, <1>5, <1>6, <2>1 DEF Promised, Lifecycle!Next
<1> QED BY <1>6, <1>7, <1>8, <1>9, Ended DEF SerialInv, IInv

\* _handle_charge_refunded: what was paid is refunded, on both rows.
LEMMA RefundedCommitOrderly ==
    ASSUME OneByOne, SerialInv, NEW p \in Requests, RefundedCommit(p)
    PROVE  Orderly' /\ Promised
<1>1. /\ booking \in Booking /\ req[p].booking = booking /\ txn \in Txn /\ req[p].txn \in Txn
      /\ PaidBack(req[p].txn)
  BY InFlightTyped
     DEF SerialInv, Orderly, TxnCallFits, RefundedCommit, At, IInv, TypeOK, Webhooks
<1> DEFINE new == [booking EXCEPT !.payment = "refunded"]
<1>2. new \in Booking /\ Flush(booking, booking, new) = new
  BY <1>1, FlushFresh DEF Booking, PaymentStatus
<1>3. /\ booking'.payment = "refunded" /\ booking'.status = booking.status
      /\ txn' = req[p].txn /\ events' = events /\ Finish(p)
  BY <1>1, <1>2 DEF RefundedCommit, stripe, Booking
<1>4. RowsFit' /\ AnnouncedOnce'
  BY <1>1, <1>3, RepaidFits
<1>5. Promised
  <2>1. booking.payment \in {"paid", "refunded"}
    <3>1. txn.status \in Settled /\ RowsFit /\ booking.payment \in PaymentStatus
      BY <1>1 DEF PaidBack, SerialInv, Orderly, Booking
    <3> QED BY <3>1, PriceAssumption DEF RowsFit, StatusesAgree, Settled, PaymentStatus
  <2>2. txn'.session = txn.session => txn'.refunded >= txn.refunded
    BY <1>1, <1>3 DEF PaidBack
  <2> QED BY <1>3, <2>1, <2>2 DEF Promised, Lifecycle!Next, Lifecycle!Refund
<1> QED BY <1>3, <1>4, <1>5, Ended DEF SerialInv, IInv

\* run_due_transfers takes up a transaction that is settled and not refunded.
LEMMA TransferOrderly ==
    ASSUME OneByOne, SerialInv, NEW p \in Requests, TransferSweep(p)
    PROVE  Orderly'
<1>1. TypeOK
  BY DEF SerialInv, IInv
<1>2. PICK t \in Txn :
        /\ t.session = txn.session /\ txn.status = "succeeded" /\ t.status = txn.status
        /\ t.refunded = txn.refunded /\ StartTransfer(p, t)
  BY <1>1, TransferRow
<1> DEFINE r == [NoRequest EXCEPT !.op = "transfer", !.step = "commit", !.txn = t]
<1>3. r.op = "transfer" /\ r.txn = t
  BY DEF NoRequest
<1>4. req' = [req EXCEPT ![p] = r] /\ UNCHANGED <<booking, txn, events>>
  BY <1>2 DEF StartTransfer
<1> HIDE DEF r
<1>5. CallFits(r) /\ TxnCallFits(r)
  BY <1>2, <1>3 DEF SerialInv, Orderly, RowsFit, Repaid, CallFits, TxnCallFits, Closers,
     Webhooks
<1>6. r.op # "completed" /\ booking' = booking /\ txn' = txn /\ events' = events
  BY <1>3, <1>4
<1> QED BY <1>1, <1>4, <1>5, <1>6, GoesOn DEF SerialInv

\* run_due_transfers writes how the payout ended.
LEMMA TransferCommitOrderly ==
    ASSUME OneByOne, SerialInv, NEW p \in Requests, TransferCommit(p)
    PROVE  Orderly' /\ Promised
<1>1. /\ txn.status = "succeeded" /\ req[p].txn.status = "succeeded"
      /\ req[p].txn.session = txn.session /\ req[p].txn.refunded = 0
  BY DEF SerialInv, Orderly, TxnCallFits, TransferCommit, At
<1>2. txn' = req[p].txn /\ UNCHANGED <<booking, events>> /\ Finish(p)
  BY DEF TransferCommit, stripe
<1>3. RowsFit /\ AnnouncedOnce
  BY DEF SerialInv, Orderly
<1>4. RowsFit' /\ AnnouncedOnce'
  BY <1>1, <1>2, <1>3 DEF RowsFit, StatusesAgree, Repaid, Settled, AnnouncedOnce
<1>5. Promised
  BY <1>1, <1>2, <1>3 DEF Promised, RowsFit, Repaid
<1> QED BY <1>2, <1>4, <1>5, Ended DEF SerialInv, IInv

\* expire_stale_unpaid_bookings: a request nobody paid for is called off.
LEMMA ExpireStaleUnpaidOrderly ==
    ASSUME OneByOne, SerialInv, NEW p \in Requests, ExpireStaleUnpaid(p)
    PROVE  Orderly' /\ Promised
<1>1. /\ booking \in Booking /\ booking.status = "pending" /\ booking.payment = "unpaid"
      /\ req[p].op = "idle"
  BY DEF SerialInv, IInv, TypeOK, ExpireStaleUnpaid, Idle
<1>2. /\ booking'.status = "cancelled" /\ booking'.payment = "unpaid"
      /\ UNCHANGED <<txn, req, events>>
  BY <1>1 DEF ExpireStaleUnpaid, stripe, Booking
<1>3. RowsFit' /\ AnnouncedOnce'
  BY <1>1, <1>2 DEF SerialInv, Orderly, RowsFit, StatusesAgree, AnnouncedOnce
<1>4. ASSUME NEW q \in Requests PROVE CallFits(req[q])' /\ TxnCallFits(req[q])'
  <2>1. req'[q].op = "idle"
    BY <1>1, <1>2 DEF OneByOne
  <2> QED BY <2>1 DEF CallFits, TxnCallFits, Closers, Webhooks
<1>5. Promised
  <2>1. Lifecycle!CallOff
    BY <1>1, <1>2 DEF Lifecycle!CallOff, Lifecycle!Active
  <2>2. txn.refunded >= txn.refunded
    BY DEF SerialInv, IInv, TypeOK, Txn, Amount
  <2> QED BY <1>2, <2>1, <2>2 DEF Promised, Lifecycle!Next
<1> QED BY <1>3, <1>4, <1>5 DEF Orderly

\* A request that ends without a commit leaves the rows, and a webhook's event, as they were.
LEMMA RollBackOrderly ==
    ASSUME OneByOne, SerialInv, NEW p \in Requests, RollBack(p)
    PROVE  Orderly'
<1>1. Finish(p) /\ UNCHANGED <<booking, txn>> /\ events' = events \cup Undelivered(p)
  BY DEF RollBack
<1>2. RowsFit'
  BY <1>1 DEF SerialInv, Orderly, RowsFit, StatusesAgree
<1>3. TypeOK /\ TxnCallFits(req[p]) /\ AnnouncedOnce
  BY DEF SerialInv, Orderly, IInv
<1>4. req[p].op \in Webhooks => req[p].event.type = req[p].op
  BY <1>3 DEF TypeOK, RequestTyped
<1>5. AnnouncedOnce'
  BY <1>1, <1>3, <1>4 DEF AnnouncedOnce, TxnCallFits, Undelivered, Webhooks
<1> QED BY <1>1, <1>2, <1>3, <1>5, Ended

\* A request ends early: its row is gone, it is in a deadlock, or its process stops.
LEMMA EndsEarlyOrderly ==
    ASSUME OneByOne, SerialInv, NEW p \in Requests, NEW q \in Requests,
           RowGone(p) \/ Deadlock(p, q) \/ Crash(p)
    PROVE  Orderly'
<1>1. CASE RollBack(p)
  BY <1>1, RollBackOrderly
<1>2. CASE RollBack(q)
  BY <1>2, RollBackOrderly
<1>3. CASE Finish(p) /\ UNCHANGED <<booking, txn, stripe, world>>
  <2>1. RowsFit' /\ AnnouncedOnce'
    BY <1>3 DEF stripe, SerialInv, Orderly, RowsFit, StatusesAgree, AnnouncedOnce
  <2> QED BY <1>3, <2>1, Ended DEF SerialInv, IInv
<1> QED BY <1>1, <1>2, <1>3 DEF RowGone, Deadlock, Crash

\* A payment is announced when the seeker pays, and no row can have recorded it yet.
LEMMA SeekerPaysOrderly ==
    ASSUME OneByOne, SerialInv, NEW s \in Sessions, SeekerPays(s)
    PROVE  Orderly'
<1> DEFINE new == [type |-> "completed", session |-> s, amount |-> 0]
<1>1. /\ TypeOK /\ checkout[s] = "open" /\ UNCHANGED <<booking, txn, req>>
      /\ events' = events \cup {new}
  BY DEF SeekerPays, SerialInv, IInv
<1>2. new.amount = 0 /\ new.session = s /\ new.type = "completed"
  OBVIOUS
<1> HIDE DEF new
<1>3. s = txn.session => txn.status \in {"pending", "failed"}
  <2>1. txn.status \in Settled => checkout[txn.session] = "complete"
    BY DEF SerialInv, IInv, BooksReal, PaymentsReal
  <2>2. txn.status \in TransactionStatus \cup {"absent"} /\ RowTyped(txn)
    BY <1>1 DEF TypeOK, Txn
  <2>3. s # NoSession
    BY SessionAssumption
  <2> QED BY <1>1, <2>1, <2>2, <2>3 DEF TransactionStatus, Settled, RowTyped
<1>4. ASSUME NEW p \in Requests, req[p].op = "completed" PROVE req[p].event # new
  <2>1. EventReal(req[p].event) /\ req[p].event.type = "completed"
    BY <1>1, <1>4 DEF SerialInv, IInv, InFlightReal, RequestReal, TypeOK, RequestTyped,
       Webhooks
  <2> QED BY <1>1, <1>2, <2>1 DEF EventReal
<1> QED BY <1>1, <1>2, <1>3, <1>4, Quiet DEF SerialInv

\* Nothing else that happens outside the requests announces a payment.
LEMMA WorldOrderly ==
    ASSUME OneByOne, SerialInv, World
    PROVE  Orderly'
<1>1. ASSUME NEW s \in Sessions, SeekerPays(s) PROVE Orderly'
  BY <1>1, SeekerPaysOrderly
<1>2. CASE /\ UNCHANGED <<booking, txn, req>>
           /\ \A e \in events' : e \in events \/ e.type # "completed"
  BY <1>2, Quiet DEF SerialInv, IInv
<1>3. ASSUME NEW s \in Sessions, SessionExpires(s) PROVE Orderly'
  BY <1>2, <1>3 DEF SessionExpires
<1>4. ASSUME NEW s \in Sessions, NEW amount \in 1 .. Price, DashboardRefund(s, amount)
      PROVE  Orderly'
  <2>1. amount \in Amount /\ StripeRefund(s, amount) /\ UNCHANGED <<booking, txn, req>>
    BY <1>4 DEF DashboardRefund, Amount
  <2>2. \A e \in events' : e \in events \/ e.type # "completed"
    BY <2>1, RefundAnnounced
  <2> QED BY <1>2, <2>1, <2>2
<1>5. CASE TimePasses \/ ConnectionChanges
  BY <1>2, <1>5 DEF TimePasses, ConnectionChanges, stripe
<1> QED BY <1>1, <1>3, <1>4, <1>5 DEF World

\* An event with nothing to do is dropped.
LEMMA IgnoreOrderly ==
    ASSUME SerialInv, NEW e \in events, Ignore(e)
    PROVE  Orderly'
BY Quiet DEF Ignore, Remaining, SerialInv, IInv

\* A step that writes neither row breaks no promise.
LEMMA RowsStay ==
    ASSUME SerialInv, booking' = booking, txn' = txn
    PROVE  Promised
<1>1. txn.refunded \in Nat
  BY DEF SerialInv, IInv, TypeOK, Txn, Amount
<1> QED BY <1>1 DEF Promised

-----------------------------------------------------------------------------
(* The theorems                                                              *)

\* Every step keeps the rows in order and breaks no promise.
LEMMA NextOrderly ==
    ASSUME OneByOne, ~StripeRedelivers
    PROVE  SerialInv /\ [Next]_vars => Orderly' /\ Promised
<1> SUFFICES ASSUME SerialInv, [Next]_vars PROVE Orderly' /\ Promised
  OBVIOUS
<1>1. ASSUME NEW p \in Requests, Advance(p) PROVE Orderly' /\ Promised
  <2>1. CASE \/ AcceptCommit(p) \/ CompleteCommit(p) \/ NoShowCommit(p) \/ CloseCommit(p)
             \/ AdminRefundCommit(p) \/ CheckoutInsert(p) \/ CompletedCommit(p)
             \/ ExpiredCommit(p) \/ RefundedCommit(p) \/ TransferCommit(p)
    BY <2>1, AcceptCommitOrderly, OutcomeCommitOrderly, CloseCommitOrderly,
       AdminRefundCommitOrderly, CheckoutInsertOrderly, CompletedCommitOrderly,
       ExpiredCommitOrderly, RefundedCommitOrderly, TransferCommitOrderly
  <2>2. CASE \/ CloseFlush(p) \/ CloseRefund(p) \/ CloseRefundFails(p) \/ CheckoutResume(p)
             \/ CheckoutFails(p) \/ (\E s \in Sessions : CheckoutCreate(p, s))
             \/ WebhookStep(p) \/ RowGone(p)
    <3>1. booking' = booking /\ txn' = txn
      BY <2>2 DEF CloseFlush, CloseRefund, CloseRefundFails, CheckoutResume, CheckoutFails,
         CheckoutCreate, WebhookStep, CompletedFlush, ExpiredFlush, RefundedFlush,
         WebhookFlush, RowGone, RollBack
    <3>2. Orderly'
      BY <2>2, CloseFlushOrderly, CloseRefundOrderly, CheckoutOrderly, WebhookFlushOrderly,
         EndsEarlyOrderly
    <3> QED BY <3>1, <3>2, RowsStay
  <2> QED BY <1>1, <2>1, <2>2 DEF Advance, WebhookStep
<1>2. ASSUME NEW p \in Requests, UserCall(p) PROVE Orderly' /\ Promised
  <2>1. booking' = booking /\ txn' = txn
    BY <1>2 DEF UserCall, Accept, Complete, MarkNoShow, Reject, Checkout, Cancel,
       AdminRefund, AdminRefundUnanswered
  <2>2. Orderly'
    BY <1>2, ReadOrderly, CheckoutOrderly, AdminRefundOrderly DEF UserCall
  <2> QED BY <2>1, <2>2, RowsStay
<1>3. ASSUME NEW p \in Requests, Sweep(p) PROVE Orderly' /\ Promised
  <2>1. CASE ExpireStaleUnpaid(p)
    BY <2>1, ExpireStaleUnpaidOrderly
  <2>2. CASE ExpireUnaccepted(p) \/ TransferSweep(p)
    <3>1. booking' = booking /\ txn' = txn
      BY <2>2 DEF ExpireUnaccepted, TransferSweep, TransferSent, TransferFails,
         TransferWithoutAccount, StartTransfer
    <3>2. Orderly'
      BY <2>2, ExpireOrderly, TransferOrderly
    <3> QED BY <3>1, <3>2, RowsStay
  <2> QED BY <1>3, <2>1, <2>2 DEF Sweep
<1>4. ASSUME NEW p \in Requests, NEW q \in Requests, Deadlock(p, q) \/ Crash(p)
      PROVE  Orderly' /\ Promised
  <2>1. booking' = booking /\ txn' = txn
    BY <1>4 DEF Deadlock, Crash, RollBack
  <2> QED BY <1>4, <2>1, EndsEarlyOrderly, RowsStay
<1>5. CASE Webhook
  <2>1. booking' = booking /\ txn' = txn
    BY <1>5 DEF Webhook, Ignore, Receive
  <2>2. Orderly'
    BY <1>5, IgnoreOrderly, ReceiveOrderly DEF Webhook
  <2> QED BY <2>1, <2>2, RowsStay
<1>6. CASE World
  <2>1. booking' = booking /\ txn' = txn
    BY <1>6 DEF World, SeekerPays, SessionExpires, DashboardRefund, TimePasses,
       ConnectionChanges
  <2> QED BY <1>6, <2>1, WorldOrderly, RowsStay
<1>7. CASE UNCHANGED vars
  <2>1. UNCHANGED <<booking, txn, req, events>>
    BY <1>7 DEF vars, stripe
  <2>2. Orderly'
    BY <2>1, Quiet DEF SerialInv, IInv
  <2> QED BY <2>1, <2>2, RowsStay
<1> QED BY <1>1, <1>2, <1>3, <1>4, <1>5, <1>6, <1>7 DEF Next

\* The invariant of requests served one at a time always holds.
LEMMA SerialInductive ==
    ASSUME OneByOne, ~StripeRedelivers
    PROVE  Spec => []SerialInv
<1>1. Init => SerialInv
  BY InitIInv, InitOrderly DEF SerialInv
<1>2. SerialInv /\ [Next]_vars => SerialInv'
  BY NextIInv, NextOrderly DEF SerialInv
<1> QED BY <1>1, <1>2, PTL DEF Spec

\* When requests are served one at a time and Stripe repeats no event, the booking and its
\* transaction tell the same story: an unpaid booking has no settled transaction, a paid
\* one a transaction that succeeded, a refunded one a transaction paid back.  This holds
\* even though calls of Stripe fail or stay unanswered, processes stop, and refunds are made
\* in the dashboard; the runs show what two requests at a time do to it.
THEOREM StoriesAgree ==
    ASSUME OneByOne, ~StripeRedelivers
    PROVE  Spec => []StatusesAgree
<1>1. SerialInv => StatusesAgree
  BY DEF SerialInv, Orderly, RowsFit
<1> QED BY <1>1, SerialInductive, PTL

\* A refund event that arrives late or twice takes nothing back, and no other handler does:
\* the recorded refund of a session only grows.
THEOREM RefundsOnlyGrow ==
    ASSUME OneByOne, ~StripeRedelivers
    PROVE  Spec => RefundedGrows
<1>1. SerialInv /\ [Next]_vars =>
        [txn'.session = txn.session => txn'.refunded >= txn.refunded]_vars
  BY NextOrderly DEF Promised
<1> QED BY <1>1, SerialInductive, PTL DEF Spec, RefundedGrows

\* Served one at a time, requests, webhooks and sweeps do to a booking what BookingLifecycle
\* promises: one outcome, reached from an active booking and never left, and a payment
\* that only goes from unpaid to paid to refunded.
THEOREM LifecycleKept ==
    ASSUME OneByOne, ~StripeRedelivers
    PROVE  Spec => LifecycleSpec
<1>1. Init => Lifecycle!Init
  <2> SUFFICES ASSUME Init PROVE Lifecycle!Init
    OBVIOUS
  <2>1. CASE NewInit /\ Price > 0
    <3>1. booking.status = "pending" /\ booking.payment = "unpaid"
      BY <2>1 DEF NewInit, NewBooking
    <3> QED BY <3>1 DEF Lifecycle!Init
  <2>2. CASE NewInit /\ ~(Price > 0)
    <3>1. booking.status = "confirmed" /\ booking.payment = "paid"
      BY <2>2 DEF NewInit, NewBooking
    <3> QED BY <3>1 DEF Lifecycle!Init
  <2>3. CASE PaidInit
    <3>1. booking.status = "pending" /\ booking.payment = "paid"
      BY <2>3 DEF PaidInit
    <3> QED BY <3>1 DEF Lifecycle!Init
  <2> QED BY <2>1, <2>2, <2>3 DEF Init
<1>2. SerialInv /\ [Next]_vars => [Lifecycle!Next]_(Lifecycle!vars)
  BY NextOrderly DEF Promised, Lifecycle!vars
<1> QED BY <1>1, <1>2, SerialInductive, PTL DEF Spec, LifecycleSpec, Lifecycle!Spec

-----------------------------------------------------------------------------
(* The money of a session goes one way.  Here requests run side by side.     *)

\* A request that is going to write the transaction row; it holds the row's lock.
Writes(r) ==
    \/ RefundInFlight(r)
    \/ r.op \in Webhooks \cup {"transfer"} /\ r.step = "commit"

Inserts(r) == r.op = "checkout" /\ r.step = "insert"

\* What a request in progress says of the transaction row and of Stripe
StepFits(r) ==
    /\ r.txn.session # NoSession => checkout[r.txn.session] # "unused"
    /\ Writes(r) => r.step = "commit" /\ r.txn.session = txn.session
    /\ RefundInFlight(r) => r.txn.status \in Repaid
    /\ r.op = "admin_refund" => "admin_refund" \in Ops
    /\ r.op \in Closers /\ (r.step = "refund" \/ r.txn # NoTxn) => r.booking.payment = "paid"
    /\ r.op = "transfer" =>
          /\ r.step = "commit" /\ r.txn.status = "succeeded"
          /\ txn.status = "succeeded" /\ txn.transfer # "completed"
    /\ r.op = "completed" =>
          /\ r.txn.status # "succeeded" <=> r.step = "flush"
          /\ r.event.amount = 0 /\ r.event \notin events
          /\ r.event.session = txn.session => txn.status \notin Settled
    /\ r.op = "expired" =>
          /\ checkout[r.event.session] = "expired"
          /\ r.txn.status = IF r.step = "flush" THEN "pending" ELSE "failed"
    /\ r.op = "refunded" /\ r.step = "commit" => r.txn.status \in Repaid
    /\ Inserts(r) =>
          /\ checkout[r.event.session] \in {"created", "expired"}
          /\ r.event.session # txn.session

\* What two requests in progress are to each other
Apart(p, q) ==
    /\ ~(Writes(req[p]) /\ HoldsTxn(q))
    /\ req[p].op = "completed" /\ req[q].op = "completed" => req[p].event # req[q].event
    /\ Inserts(req[p]) =>
          /\ req[q].txn.session # req[p].event.session
          /\ Inserts(req[q]) => req[q].event.session # req[p].event.session

\* What an undelivered event says
EventFits(e) ==
    /\ e.type = "completed" =>
          e.amount = 0 /\ (e.session = txn.session => txn.status \notin Settled)
    /\ e.type = "expired" => checkout[e.session] = "expired"

\* A payout or a refund that was made of the row's session is in the row, or in the copy
\* that the request that made it is going to write.
PaidOut == txn.transfer = "completed" \/
           \E p \in Requests : req[p].op = "transfer" /\ req[p].txn.transfer = "completed"

GivenBack == txn.status \in Repaid \/ \E p \in Requests : RefundInFlight(req[p])

RowKnows ==
    txn.session # NoSession =>
        /\ checkout[txn.session] # "unused"
        /\ txn.session \in transferred => PaidOut /\ txn.status \in Settled
        /\ refunds[txn.session] > 0 => GivenBack /\ txn.status \in Settled

OneWay ==
    /\ PayoutOrRefund /\ RowKnows
    /\ \A e \in events : EventFits(e)
    /\ \A p \in Requests : StepFits(req[p])
    /\ \A p, q \in Requests : p # q => Apart(p, q)

OneWayInv == IInv /\ OneWay

\* Whoever is going to write the transaction row holds its lock.
LEMMA WritersHold ==
    ASSUME OneWay, NEW p \in Requests, Writes(req[p])
    PROVE  HoldsTxn(p) /\ req[p].txn.session = txn.session
<1>1. StepFits(req[p])
  BY DEF OneWay
<1> QED BY <1>1 DEF StepFits, Writes, RefundInFlight, HoldsTxn

\* A row that is free is written by nobody else.
LEMMA FreeRow ==
    ASSUME OneWay, NEW p \in Requests, NEW q \in Requests, q # p, TxnFree(p) \/ Writes(req[p])
    PROVE  ~Writes(req[q])
BY WritersHold DEF TxnFree, OneWay, Apart

\* What has been paid or refunded is a row that was settled.
LEMMA NoMoneyYet ==
    ASSUME OneWayInv, txn.session # NoSession,
           txn.status \notin Settled \/ checkout[txn.session] # "complete"
    PROVE  txn.session \notin transferred /\ refunds[txn.session] = 0
<1>1. txn.session \in Sessions /\ refunds[txn.session] \in Nat
  BY DEF OneWayInv, IInv, TypeOK, Txn, Amount
<1> QED BY <1>1 DEF OneWayInv, OneWay, RowKnows, IInv, BooksReal, RefundsReal, TransfersReal

\* A request that is going to record a refund has had it made, and the row is settled.
LEMMA RefundHeldRow ==
    ASSUME OneWayInv, NEW p \in Requests, RefundInFlight(req[p])
    PROVE  txn.status \in Settled /\ txn.session \notin transferred /\ txn.session \in Sessions
<1>1. req[p].txn.session \in Sessions /\ refunds[req[p].txn.session] > 0
  BY RefundHeld DEF OneWayInv
<1>2. req[p].txn.session = txn.session
  BY WritersHold DEF OneWayInv, Writes
<1>3. txn.session # NoSession
  BY <1>1, <1>2, SessionAssumption
<1> QED BY <1>1, <1>2, <1>3 DEF OneWayInv, OneWay, RowKnows, PayoutOrRefund

\* Sessions move on: none is created twice, and one that expired stays so.
CheckoutKeeps ==
    \A s \in Sessions :
        /\ checkout[s] # "unused" => checkout'[s] # "unused"
        /\ checkout[s] = "expired" => checkout'[s] = "expired"
        /\ checkout[s] \in {"created", "expired"} => checkout'[s] \in {"created", "expired"}

\* An event may join those that wait.
Joins(e, p) ==
    /\ EventFits(e)'
    /\ \A q \in Requests \ {p} : req[q].op = "completed" => req[q].event # e

\* What a request says of row and sessions stays true as long as the row stays.
LEMMA StepStays ==
    ASSUME OneWayInv, NEW q \in Requests, req'[q] = req[q], txn' = txn, CheckoutKeeps,
           req[q].op = "completed" => req[q].event \notin events' \ events
    PROVE  StepFits(req[q])'
<1> DEFINE r == req[q]
<1>1. StepFits(r) /\ req'[q] = r
  BY DEF OneWayInv, OneWay
<1>2. /\ r.txn.session \in Sessions \cup {NoSession}
      /\ r.op = "expired" => r.event.session \in Sessions
      /\ Inserts(r) => r.event.session \in Sessions
  BY InFlightTyped DEF OneWayInv, IInv, TypeOK, RequestTyped, Txn, Event, Webhooks, Inserts
<1>3. r.op = "completed" => r.event \notin events'
  BY <1>1 DEF StepFits
<1> HIDE DEF r
<1>4. /\ r.txn.session # NoSession => checkout'[r.txn.session] # "unused"
      /\ r.op = "expired" => checkout'[r.event.session] = "expired"
      /\ Inserts(r) => checkout'[r.event.session] \in {"created", "expired"}
  BY <1>1, <1>2 DEF CheckoutKeeps, StepFits
<1> QED BY <1>1, <1>3, <1>4 DEF StepFits, Inserts, Writes, RefundInFlight

\* Two requests that stay as they are stay apart.
LEMMA ApartStays ==
    ASSUME OneWay, NEW p \in Requests, NEW q \in Requests, p # q, Apart(p, q),
           req'[p] = req[p], req'[q] = req[q], txn'.session = txn.session
    PROVE  Apart(p, q)'
BY DEF Apart, HoldsTxn, Writes, RefundInFlight, Inserts

\* Undelivered events stay true as long as the row stays.
LEMMA EventsStay ==
    ASSUME OneWayInv, txn' = txn, CheckoutKeeps,
           \A e \in events' : e \in events \/ EventFits(e)'
    PROVE  \A e \in events' : EventFits(e)'
<1>1. ASSUME NEW e \in events PROVE EventFits(e)'
  <2>1. EventFits(e) /\ e.session \in Sessions
    BY DEF OneWayInv, OneWay, IInv, TypeOK, Event
  <2> QED BY <2>1 DEF EventFits, CheckoutKeeps
<1> QED BY <1>1

\* A request moves on that writes no row and calls for no money.
LEMMA MovesOn ==
    ASSUME OneWayInv, NEW p \in Requests, \A q \in Requests \ {p} : req'[q] = req[q],
           txn' = txn, refunds' = refunds, transferred' = transferred, CheckoutKeeps,
           \A e \in events' : e \in events \/ Joins(e, p),
           RefundInFlight(req[p]) => RefundInFlight(req'[p]),
           req[p].op # "transfer",
           StepFits(req[p])',
           \A q \in Requests \ {p} : Apart(p, q)' /\ Apart(q, p)'
    PROVE  OneWay'
<1>1. PayoutOrRefund'
  BY DEF OneWayInv, OneWay, PayoutOrRefund
<1>2. RowKnows'
  <2>1. PaidOut => PaidOut'
    BY DEF PaidOut
  <2>2. GivenBack => GivenBack'
    BY DEF GivenBack
  <2>3. txn.session \in Sessions \cup {NoSession}
    BY DEF OneWayInv, IInv, TypeOK, Txn
  <2> QED BY <2>1, <2>2, <2>3 DEF OneWayInv, OneWay, RowKnows, CheckoutKeeps
<1>3. \A e \in events' : EventFits(e)'
  BY EventsStay DEF Joins
<1>4. \A q \in Requests : StepFits(req[q])'
  BY StepStays DEF Joins
<1>5. ASSUME NEW a \in Requests, NEW b \in Requests, a # b PROVE Apart(a, b)'
  BY <1>5, ApartStays DEF OneWayInv, OneWay
<1> QED BY <1>1, <1>2, <1>3, <1>4, <1>5 DEF OneWay

\* The requests that stay, when one is replaced.
LEMMA Replaced ==
    ASSUME TypeOK, NEW p \in Requests, NEW r, req' = [req EXCEPT ![p] = r]
    PROVE  req'[p] = r /\ \A q \in Requests \ {p} : req'[q] = req[q]
BY DEF TypeOK

\* A request that holds no money starts, goes on or ends.
LEMMA LightStep ==
    ASSUME OneWayInv, NEW p \in Requests, NEW r, req' = [req EXCEPT ![p] = r],
           txn' = txn, refunds' = refunds, transferred' = transferred, CheckoutKeeps,
           \A e \in events' : e \in events \/ Joins(e, p),
           ~RefundInFlight(req[p]), req[p].op # "transfer",
           r.op \notin Webhooks \cup {"transfer", "admin_refund"},
           ~RefundInFlight(r), ~Inserts(r), r.txn.session \in {NoSession, txn.session},
           r.op \in Closers /\ r.step = "commit" /\ r.booking.payment = "paid" => TxnFree(p),
           r.op \in Closers /\ r.step = "refund" => r.booking.payment = "paid"
    PROVE  OneWay'
<1>1. req'[p] = r /\ \A q \in Requests \ {p} : req'[q] = req[q]
  BY Replaced DEF OneWayInv, IInv
<1>2. ~Writes(r)
  BY DEF Writes
<1>3. StepFits(req[p])'
  <2>1. r.txn.session # NoSession => checkout'[r.txn.session] # "unused"
    BY DEF OneWayInv, OneWay, RowKnows, CheckoutKeeps, IInv, TypeOK, Txn
  <2> QED BY <1>1, <1>2, <2>1 DEF StepFits, Webhooks, RefundInFlight, Writes, Inserts
<1>4. ASSUME NEW q \in Requests \ {p} PROVE Apart(p, q)' /\ Apart(q, p)'
  <2>1. req'[q] = req[q] /\ StepFits(req[q]) /\ RequestTyped(req[q])
    BY <1>1 DEF OneWayInv, OneWay, IInv, TypeOK
  <2>2. Apart(p, q)'
    BY <1>1, <1>2, <2>1 DEF Apart, Writes, RefundInFlight, Inserts, Webhooks
  <2>3. Writes(req[q]) => ~HoldsTxn(p)'
    <3>1. HoldsTxn(p)' => r.op \in Closers /\ r.step = "commit" /\ r.booking.payment = "paid"
      BY <1>1 DEF HoldsTxn, Inserts, Webhooks
    <3> QED BY <3>1, FreeRow DEF OneWayInv
  <2>4. Inserts(req[q]) => r.txn.session # req[q].event.session
    BY <2>1 DEF StepFits, RequestTyped, Inserts
  <2>5. Apart(q, p)'
    BY <1>1, <1>2, <2>1, <2>3, <2>4 DEF Apart, Writes, RefundInFlight, Inserts, Webhooks
  <2> QED BY <2>2, <2>5
<1> QED BY <1>1, <1>3, <1>4, MovesOn

\* A request ends that wrote no transaction row.
LEMMA LightEnd ==
    ASSUME OneWayInv, NEW p \in Requests, Finish(p),
           UNCHANGED <<txn, checkout, refunds, transferred>>,
           \A e \in events' : e \in events \/ Joins(e, p),
           ~RefundInFlight(req[p]), req[p].op # "transfer"
    PROVE  OneWay'
<1>1. CheckoutKeeps
  BY DEF CheckoutKeeps
<1> DEFINE r == NoRequest
<1>2. /\ r.op \notin Webhooks \cup {"transfer", "admin_refund"} /\ ~RefundInFlight(r)
      /\ ~Inserts(r) /\ r.txn.session = NoSession
      /\ ~(r.op \in Closers)
  BY DEF NoRequest, NoTxn, Webhooks, Closers, RefundInFlight, Inserts
<1>3. req' = [req EXCEPT ![p] = r]
  BY DEF Finish
<1> HIDE DEF r
<1> QED BY <1>1, <1>2, <1>3, LightStep

\* A request that has read the booking only
LEMMA ReadOneWay ==
    ASSUME OneWayInv, NEW p \in Requests,
           NEW op \in {"accept", "complete", "no_show", "cancel", "reject"},
           ReadBooking(p, op), UNCHANGED <<booking, txn, stripe, world>>
    PROVE  OneWay'
<1> DEFINE r == [NoRequest EXCEPT !.op = op, !.step = "flush", !.booking = booking]
<1>1. r.op = op /\ r.step = "flush" /\ r.txn = NoTxn /\ r.txn.session = NoSession
  BY DEF NoRequest, NoTxn
<1>2. req' = [req EXCEPT ![p] = r] /\ req[p].op = "idle"
  BY DEF ReadBooking, Idle
<1> HIDE DEF r
<1>3. CheckoutKeeps /\ UNCHANGED <<txn, refunds, transferred, events>>
  BY DEF CheckoutKeeps, stripe
<1>4. ~RefundInFlight(req[p]) /\ ~RefundInFlight(r) /\ ~Inserts(r)
  BY <1>1, <1>2 DEF RefundInFlight, Inserts, Closers
<1> QED BY <1>1, <1>2, <1>3, <1>4, LightStep DEF Webhooks

\* A request that is about to close the booking
LEMMA CloseOneWay ==
    ASSUME OneWayInv, NEW p \in Requests, NEW op \in Closers, NEW b \in Booking,
           req' = [req EXCEPT ![p] = Closing(op, b)], UNCHANGED <<booking, txn, stripe, world>>,
           req[p].op = "idle" \/ (req[p].op \in Closers /\ req[p].step = "flush")
    PROVE  OneWay'
<1> DEFINE r == Closing(op, b)
<1>1. /\ r.op = op /\ r.txn = NoTxn /\ r.txn.session = NoSession /\ r.booking = b
      /\ r.step = "commit" => b.payment # "paid"
      /\ r.step = "refund" => b.payment = "paid"
  BY ClosingTyped DEF Closing, NoRequest, NoTxn
<1>2. req' = [req EXCEPT ![p] = r]
  OBVIOUS
<1> HIDE DEF r
<1>3. CheckoutKeeps /\ UNCHANGED <<txn, refunds, transferred, events>>
  BY DEF CheckoutKeeps, stripe
<1>4. ~RefundInFlight(req[p])
  BY DEF OneWayInv, OneWay, StepFits, RefundInFlight, Writes, Closers
<1>5. ~RefundInFlight(r) /\ ~Inserts(r) /\ req[p].op # "transfer"
  BY <1>1 DEF RefundInFlight, Inserts, Closers
<1> QED BY <1>1, <1>2, <1>3, <1>4, <1>5, LightStep DEF Webhooks, Closers

\* Without a refund, or before it, a closing request holds no money.
LEMMA ClosersOneWay ==
    ASSUME OneWayInv, ~Outages, NEW p \in Requests,
           CloseFlush(p) \/ ExpireUnaccepted(p) \/ CloseRefundFails(p)
    PROVE  OneWay'
<1>1. TypeOK
  BY DEF OneWayInv, IInv
<1>2. CASE CloseFlush(p)
  <2> DEFINE op   == req[p].op
             mine == [req[p].booking EXCEPT !.status = ClosedStatus(op)]
             b    == IF op = "reject" THEN Flush(booking, req[p].booking, mine) ELSE mine
  <2>1. op \in Closers /\ ClosedStatus(op) \in BookingStatus
    BY <1>2 DEF CloseFlush, Closers, ClosedStatus, BookingStatus
  <2>2. mine \in Booking
    BY <1>1, <2>1, InFlightTyped DEF Booking
  <2>3. Flush(booking, req[p].booking, mine) \in Booking
    BY <1>1, <2>2, InFlightTyped, FlushBooking DEF TypeOK
  <2>4. b \in Booking
    BY <2>2, <2>3
  <2>5. req' = [req EXCEPT ![p] = Closing(op, b)] /\ req[p].step = "flush"
    BY <1>2 DEF CloseFlush
  <2> HIDE DEF b, mine
  <2> QED BY <1>2, <2>1, <2>4, <2>5, CloseOneWay DEF CloseFlush
<1>3. CASE ExpireUnaccepted(p)
  <2> DEFINE b == [booking EXCEPT !.status = "cancelled"]
  <2>1. b \in Booking /\ "expire" \in Closers
    BY <1>1 DEF TypeOK, Booking, BookingStatus, Closers
  <2>2. req' = [req EXCEPT ![p] = Closing("expire", b)] /\ req[p].op = "idle"
    BY <1>3 DEF ExpireUnaccepted, Idle
  <2>3. UNCHANGED <<booking, txn, stripe, world>>
    BY <1>3 DEF ExpireUnaccepted
  <2> HIDE DEF b
  <2> QED BY <2>1, <2>2, <2>3, CloseOneWay
<1>4. CASE CloseRefundFails(p)
  <2> DEFINE r == [req[p] EXCEPT !.step = "commit"]
  <2>1. req' = [req EXCEPT ![p] = r] /\ TxnFree(p) /\ UNCHANGED <<txn, stripe>>
        /\ req[p].op \in Closers /\ req[p].step = "refund"
    BY <1>4 DEF CloseRefundFails
  <2>2. r.op = req[p].op /\ r.txn = req[p].txn /\ r.step = "commit"
    BY <1>1, InFlightTyped DEF Request
  <2>3. ~RefundInFlight(req[p])
    BY <2>1 DEF OneWayInv, OneWay, StepFits, Writes
  <2>4. req[p].txn = NoTxn
    BY <2>1, <2>3 DEF RefundInFlight
  <2> HIDE DEF r
  <2>5. r.txn.session = NoSession /\ ~RefundInFlight(r) /\ ~Inserts(r)
    BY <2>1, <2>2, <2>4 DEF NoTxn, RefundInFlight, Inserts, Closers
  <2>6. CheckoutKeeps /\ UNCHANGED <<txn, refunds, transferred, events>>
    BY <2>1 DEF CheckoutKeeps, stripe
  <2>7. r.op \notin Webhooks \cup {"transfer", "admin_refund"} /\ req[p].op # "transfer"
    BY <2>1, <2>2 DEF Webhooks, Closers
  <2> QED BY <2>1, <2>2, <2>3, <2>5, <2>6, <2>7, LightStep
<1> QED BY <1>2, <1>3, <1>4

\* A checkout that has read the rows, goes on with its open session, or fails
LEMMA CheckoutOneWay ==
    ASSUME OneWayInv, NEW p \in Requests, Checkout(p) \/ CheckoutResume(p) \/ CheckoutFails(p)
    PROVE  OneWay'
<1>1. UNCHANGED <<txn, checkout, refunds, transferred, events>>
  BY DEF Checkout, CheckoutResume, CheckoutFails, stripe
<1>2. CheckoutKeeps
  BY <1>1 DEF CheckoutKeeps
<1>3. req[p].op \in {"idle", "checkout"}
  BY DEF Checkout, CheckoutResume, CheckoutFails, Idle, At
<1>4. ~RefundInFlight(req[p]) /\ req[p].op # "transfer"
  BY <1>3 DEF RefundInFlight, Closers
<1>5. CASE Checkout(p)
  <2> DEFINE r == [NoRequest EXCEPT !.op = "checkout", !.step = "create", !.txn = txn]
  <2>1. r.op = "checkout" /\ r.step = "create" /\ r.txn = txn
    BY DEF NoRequest
  <2>2. req' = [req EXCEPT ![p] = r]
    BY <1>5 DEF Checkout
  <2> HIDE DEF r
  <2>3. /\ ~RefundInFlight(r) /\ ~Inserts(r) /\ r.op \notin Closers
        /\ r.op \notin Webhooks \cup {"transfer", "admin_refund"}
    BY <2>1 DEF RefundInFlight, Inserts, Closers, Webhooks
  <2> QED BY <1>1, <1>2, <1>4, <2>1, <2>2, <2>3, LightStep
<1>6. CASE CheckoutResume(p) \/ CheckoutFails(p)
  <2>1. Finish(p)
    BY <1>6 DEF CheckoutResume, CheckoutFails
  <2> QED BY <1>1, <1>4, <2>1, LightEnd
<1> QED BY <1>5, <1>6

\* A session that is created is known to nobody else.
LEMMA CreateOneWay ==
    ASSUME OneWayInv, NEW p \in Requests, NEW s \in Sessions, CheckoutCreate(p, s)
    PROVE  OneWay'
<1> DEFINE r == [req[p] EXCEPT !.step = "insert", !.event.session = s]
<1>1. TypeOK
  BY DEF OneWayInv, IInv
<1>2. /\ req[p].op = "checkout" /\ req[p].step = "create"
      /\ r.op = "checkout" /\ r.step = "insert" /\ r.txn = req[p].txn /\ r.event.session = s
  BY <1>1, InFlightTyped DEF CheckoutCreate, At, Request
<1>3. req' = [req EXCEPT ![p] = r]
  <2>1. req \in [Requests -> Request] /\ req[p] \in Request
    BY <1>1 DEF TypeOK
  <2>2. req' = [req EXCEPT ![p].step = "insert", ![p].event.session = s]
    BY DEF CheckoutCreate
  <2> QED BY <2>1, <2>2
<1> HIDE DEF r
<1>4. req'[p] = r /\ \A q \in Requests \ {p} : req'[q] = req[q]
  BY <1>1, <1>3, Replaced
<1>5. /\ checkout[s] = "unused" /\ checkout'[s] = "created"
      /\ \A t \in Sessions \ {s} : checkout'[t] = checkout[t]
      /\ UNCHANGED <<txn, refunds, transferred, events>>
      /\ req[p].txn.session # NoSession => TxnFree(p)
  BY <1>1 DEF CheckoutCreate, TypeOK
<1>6. CheckoutKeeps
  BY <1>5 DEF CheckoutKeeps
<1>7. txn.session # s /\ \A q \in Requests : req[q].txn.session # s /\ StepFits(req[q])
  BY <1>5, SessionAssumption DEF OneWayInv, OneWay, RowKnows, StepFits
<1>8. ~RefundInFlight(req[p]) /\ ~RefundInFlight(r) /\ ~Writes(r)
  BY <1>2 DEF RefundInFlight, Writes, Closers, Webhooks
<1>9. StepFits(req[p])'
  <2>1. r.txn.session # NoSession => checkout'[r.txn.session] # "unused"
    <3>1. r.txn.session \in Sessions \cup {NoSession}
      BY <1>1, <1>2, InFlightTyped DEF Txn
    <3>2. r.txn.session # NoSession => checkout[r.txn.session] # "unused"
      BY <1>2, <1>7 DEF StepFits
    <3> QED BY <1>6, <3>1, <3>2 DEF CheckoutKeeps
  <2> QED BY <1>2, <1>4, <1>5, <1>7, <1>8, <2>1 DEF StepFits, Closers, Webhooks, Writes,
          RefundInFlight, Inserts
<1>10. ASSUME NEW q \in Requests \ {p} PROVE Apart(p, q)' /\ Apart(q, p)'
  <2>1. /\ req'[q] = req[q] /\ StepFits(req[q]) /\ RequestTyped(req[q]) /\ Apart(q, p)
    BY <1>4 DEF OneWayInv, OneWay, IInv, TypeOK
  <2>2. Inserts(req[q]) => req[q].event.session # s
    BY <1>5, <2>1 DEF StepFits
  <2>3. Apart(p, q)'
    BY <1>2, <1>4, <1>7, <1>8, <2>1, <2>2 DEF Apart, Writes, RefundInFlight, Inserts, Webhooks
  <2>4. Writes(req[q]) => ~HoldsTxn(p)'
    <3>1. HoldsTxn(p)' => req[p].txn.session = txn.session
      BY <1>2, <1>4, <1>5 DEF HoldsTxn, Closers, Webhooks
    <3>2. Writes(req[q]) => txn.session # NoSession
      <4>1. Writes(req[q]) => req[q].txn.session = txn.session
        BY WritersHold DEF OneWayInv
      <4>2. Writes(req[q]) => req[q].txn.session # NoSession
        BY <2>1, SessionAssumption
           DEF Writes, RefundInFlight, RequestTyped, Webhooks, Closers, Event
      <4> QED BY <4>1, <4>2
    <3> QED BY <1>5, <3>1, <3>2, FreeRow DEF OneWayInv
  <2>5. Apart(q, p)'
    BY <1>2, <1>4, <2>1, <2>2, <2>4 DEF Apart, Writes, RefundInFlight, Inserts, Webhooks
  <2> QED BY <2>3, <2>5
<1> QED BY <1>2, <1>4, <1>5, <1>6, <1>8, <1>9, <1>10, MovesOn

\* A webhook is received: its event leaves the queue.
LEMMA ReceiveOneWay ==
    ASSUME OneWayInv, ~StripeRedelivers, NEW p \in Requests, NEW e \in events, Receive(p, e)
    PROVE  OneWay'
<1>1. TypeOK /\ e \in Event /\ EventFits(e) /\ Applies(e)
  BY DEF OneWayInv, OneWay, IInv, TypeOK, Receive
<1>2. PICK r :
        /\ r.op = e.type /\ r.step = "flush" /\ r.txn = txn /\ r.event = e
        /\ req' = [req EXCEPT ![p] = r] /\ req[p].op = "idle"
  BY DEF NoRequest, Receive, Idle
<1>3. req'[p] = r /\ \A q \in Requests \ {p} : req'[q] = req[q]
  BY <1>1, <1>2, Replaced
<1>4. UNCHANGED <<txn, checkout, refunds, transferred>> /\ events' = events \ {e}
  BY DEF Receive, Remaining
<1>5. CheckoutKeeps
  BY <1>4 DEF CheckoutKeeps
<1>6. r.op \in Webhooks /\ txn.session = e.session
  BY <1>1, <1>2 DEF Event, Webhooks, Applies, CompletedApplies, ExpiredApplies, RefundedApplies
<1>7. ~RefundInFlight(req[p]) /\ ~RefundInFlight(r) /\ ~Writes(r) /\ ~Inserts(r)
  BY <1>2, <1>6 DEF RefundInFlight, Writes, Inserts, Closers, Webhooks
<1>8. StepFits(req[p])'
  <2>1. r.txn.session # NoSession => checkout'[r.txn.session] # "unused"
    BY <1>2, <1>4 DEF OneWayInv, OneWay, RowKnows
  <2>2. r.op = "completed" => txn.status # "succeeded"
    BY <1>1, <1>2 DEF Applies, CompletedApplies
  <2>3. r.op = "expired" => txn.status = "pending"
    BY <1>1, <1>2 DEF Applies, ExpiredApplies
  <2> QED BY <1>1, <1>2, <1>3, <1>4, <1>6, <1>7, <2>1, <2>2, <2>3
          DEF StepFits, EventFits, Closers, Webhooks, Writes, RefundInFlight, Inserts
<1>9. ASSUME NEW q \in Requests \ {p} PROVE Apart(p, q)' /\ Apart(q, p)'
  <2>1. req'[q] = req[q] /\ StepFits(req[q])
    BY <1>3 DEF OneWayInv, OneWay
  <2>2. req[q].op = "completed" => req[q].event # e
    BY <2>1 DEF StepFits
  <2>3. ~HoldsTxn(p)'
    BY <1>2, <1>3, <1>6 DEF HoldsTxn, Closers, Webhooks
  <2> QED BY <1>2, <1>3, <1>7, <2>1, <2>2, <2>3
          DEF Apart, StepFits, Writes, RefundInFlight, Inserts
<1> QED BY <1>2, <1>3, <1>4, <1>5, <1>7, <1>8, <1>9, MovesOn

\* What a webhook is going to write, once it has flushed a row that nobody else holds.
LEMMA FlushedStatus ==
    ASSUME OneWayInv, NEW p \in Requests, WebhookStep(p)
    PROVE  \E t \in Txn :
             /\ Flushed(p, t) /\ t.session = txn.session /\ txn.session \in Sessions
             /\ req[p].op \in Webhooks /\ req[p].step = "flush" /\ TxnFree(p)
             /\ UNCHANGED <<booking, txn, stripe, world>>
             /\ req[p].op = "completed" => t.status = "succeeded"
             /\ req[p].op = "expired" => t.status = "failed"
             /\ req[p].op = "refunded" => t.status \in Repaid
<1>1. TypeOK /\ StepFits(req[p]) /\ RequestReal(req[p])
  BY DEF OneWayInv, OneWay, IInv, InFlightReal
<1>2. PICK op \in Webhooks, new \in Txn :
        /\ WebhookFlush(p, op, new) /\ new.session = req[p].txn.session
        /\ op = "completed" => new.status = "succeeded"
        /\ op = "expired" => new.status = "failed"
        /\ op = "refunded" => new.status \in Repaid
  BY <1>1, WebhookWrites
<1> DEFINE t == Flush(txn, req[p].txn, new)
<1>3. /\ req[p].op = op /\ req[p].step = "flush" /\ TxnFree(p)
      /\ txn.session = req[p].txn.session /\ Flushed(p, t)
      /\ UNCHANGED <<booking, txn, stripe, world>>
  BY <1>2 DEF WebhookFlush, At, Flushed
<1>4. /\ t \in Txn /\ t.session = txn.session
      /\ t.status = IF new.status = req[p].txn.status THEN txn.status ELSE new.status
  BY <1>1, <1>2, <1>3, FlushTxn, InFlightTyped DEF TypeOK
<1>5. txn.session \in Sessions
  BY <1>1, <1>2, <1>3, InFlightTyped
<1>6. op = "refunded" => txn.status \in Repaid
  <2> SUFFICES ASSUME op = "refunded" PROVE txn.status \in Repaid
    OBVIOUS
  <2>1. req[p].event.amount \in 1 .. refunds[txn.session]
    <3>1. EventReal(req[p].event) /\ req[p].event.type = "refunded"
      BY <1>1, <1>2, <1>3 DEF RequestReal, TypeOK, RequestTyped
    <3>2. req[p].event.session = txn.session
      BY <1>1, <1>2, <1>3, InFlightTyped
    <3> QED BY <3>1, <3>2 DEF EventReal
  <2>2. refunds[txn.session] \in Nat /\ txn.session # NoSession
    BY <1>1, <1>5, SessionAssumption DEF TypeOK, Amount
  <2>3. refunds[txn.session] > 0
    BY <2>1, <2>2
  <2>4. ~RefundInFlight(req[p])
    BY <1>3, <1>2 DEF RefundInFlight, Webhooks, Closers
  <2>5. \A q \in Requests \ {p} : ~RefundInFlight(req[q])
    BY <1>3, FreeRow DEF OneWayInv, Writes
  <2> QED BY <2>2, <2>3, <2>4, <2>5 DEF OneWayInv, OneWay, RowKnows, GivenBack
<1> HIDE DEF t
<1> QED BY <1>1, <1>2, <1>3, <1>4, <1>5, <1>6 DEF StepFits, Webhooks

\* From its flush on, a webhook holds the row.
LEMMA FlushOneWay ==
    ASSUME OneWayInv, NEW p \in Requests, WebhookStep(p)
    PROVE  OneWay'
<1>1. TypeOK /\ StepFits(req[p]) /\ RequestTyped(req[p])
  BY DEF OneWayInv, OneWay, IInv, TypeOK
<1>2. PICK t \in Txn :
        /\ Flushed(p, t) /\ t.session = txn.session /\ txn.session \in Sessions
        /\ req[p].op \in Webhooks /\ req[p].step = "flush" /\ TxnFree(p)
        /\ UNCHANGED <<booking, txn, stripe, world>>
        /\ req[p].op = "completed" => t.status = "succeeded"
        /\ req[p].op = "expired" => t.status = "failed"
        /\ req[p].op = "refunded" => t.status \in Repaid
  BY FlushedStatus
<1> DEFINE r == [req[p] EXCEPT !.step = "commit", !.booking = booking, !.txn = t]
<1>3. /\ r.op = req[p].op /\ r.step = "commit" /\ r.txn = t /\ r.event = req[p].event
  BY <1>1, InFlightTyped DEF Request
<1>4. req' = [req EXCEPT ![p] = r]
  <2>1. req \in [Requests -> Request] /\ req[p] \in Request
    BY <1>1 DEF TypeOK
  <2>2. req' = [req EXCEPT ![p].step = "commit", ![p].booking = booking, ![p].txn = t]
    BY <1>2 DEF Flushed
  <2> QED BY <2>1, <2>2
<1> HIDE DEF r
<1>5. req'[p] = r /\ \A q \in Requests \ {p} : req'[q] = req[q]
  BY <1>1, <1>4, Replaced
<1>6. UNCHANGED <<txn, checkout, refunds, transferred, events>>
  BY <1>2 DEF stripe
<1>7. CheckoutKeeps
  BY <1>6 DEF CheckoutKeeps
<1>8. ~RefundInFlight(req[p]) /\ ~RefundInFlight(r) /\ ~Inserts(r) /\ req[p].op # "transfer"
  BY <1>2, <1>3 DEF RefundInFlight, Inserts, Closers, Webhooks
<1>9. StepFits(req[p])'
  <2>1. checkout'[txn.session] # "unused"
    BY <1>2, <1>6, SessionAssumption DEF OneWayInv, OneWay, RowKnows
  <2> QED BY <1>1, <1>2, <1>3, <1>5, <1>6, <1>8, <2>1
          DEF StepFits, Closers, Webhooks, Writes, RefundInFlight, Inserts
<1>10. ASSUME NEW q \in Requests \ {p} PROVE Apart(p, q)' /\ Apart(q, p)'
  <2>1. /\ req'[q] = req[q] /\ StepFits(req[q]) /\ Apart(p, q) /\ Apart(q, p)
        /\ ~Writes(req[q])
    BY <1>2, <1>5, FreeRow DEF OneWayInv, OneWay
  <2>2. ~HoldsTxn(q)'
    BY <1>2, <1>6, <2>1 DEF TxnFree, HoldsTxn
  <2> QED BY <1>2, <1>3, <1>5, <1>6, <1>8, <2>1, <2>2
          DEF Apart, StepFits, Writes, RefundInFlight, Inserts
<1> QED BY <1>5, <1>6, <1>7, <1>8, <1>9, <1>10, MovesOn

\* A request ends without a commit: it held no money, and its event waits again.
LEMMA RollBackOneWay ==
    ASSUME OneWayInv, NEW p \in Requests, RollBack(p),
           ~RefundInFlight(req[p]), req[p].op # "transfer"
    PROVE  OneWay'
<1>1. /\ Finish(p) /\ UNCHANGED <<txn, checkout, refunds, transferred>>
      /\ events' = events \cup Undelivered(p)
  BY DEF RollBack
<1>2. ASSUME NEW e \in Undelivered(p) PROVE Joins(e, p)
  <2>1. req[p].op \in Webhooks /\ e = req[p].event /\ e.type = req[p].op
    BY <1>2 DEF Undelivered, OneWayInv, IInv, TypeOK, RequestTyped
  <2>2. StepFits(req[p])
    BY DEF OneWayInv, OneWay
  <2>3. EventFits(e)'
    BY <1>1, <2>1, <2>2 DEF EventFits, StepFits
  <2>4. ASSUME NEW q \in Requests \ {p}, req[q].op = "completed" PROVE req[q].event # e
    <3>1. Apart(p, q) /\ (req[q].event.type = "completed")
      BY <2>4 DEF OneWayInv, OneWay, IInv, TypeOK, RequestTyped, Webhooks
    <3> QED BY <2>1, <2>4, <3>1 DEF Apart
  <2> QED BY <2>3, <2>4 DEF Joins
<1> QED BY <1>1, <1>2, LightEnd

\* A request takes the free row for a payout or a refund.
LEMMA TakesRow ==
    ASSUME OneWayInv, NEW p \in Requests, NEW r, req' = [req EXCEPT ![p] = r],
           txn' = txn, checkout' = checkout, TxnFree(p),
           \A e \in events' : e \in events \/ Joins(e, p),
           r.op \notin Webhooks \cup {"checkout"}, r.txn.session = txn.session,
           StepFits(r), PayoutOrRefund', RowKnows'
    PROVE  OneWay'
<1>1. req'[p] = r /\ \A q \in Requests \ {p} : req'[q] = req[q]
  BY Replaced DEF OneWayInv, IInv
<1>2. CheckoutKeeps /\ ~Inserts(r)
  BY DEF CheckoutKeeps, Inserts
<1>3. StepFits(req[p])'
  BY <1>1 DEF StepFits, Webhooks, Writes, RefundInFlight, Inserts
<1>4. ASSUME NEW q \in Requests \ {p} PROVE Apart(p, q)' /\ Apart(q, p)'
  <2>1. /\ req'[q] = req[q] /\ StepFits(req[q]) /\ ~Writes(req[q])
    BY <1>1, FreeRow DEF OneWayInv, OneWay
  <2>2. ~HoldsTxn(q)'
    BY <2>1 DEF TxnFree, HoldsTxn
  <2> QED BY <1>1, <1>2, <2>1, <2>2
          DEF Apart, StepFits, Writes, RefundInFlight, Inserts, Webhooks
<1>5. \A e \in events' : EventFits(e)'
  BY <1>2, EventsStay DEF Joins
<1>6. ASSUME NEW q \in Requests PROVE StepFits(req[q])'
  BY <1>1, <1>2, <1>3, StepStays DEF Joins
<1>7. ASSUME NEW a \in Requests, NEW b \in Requests, a # b PROVE Apart(a, b)'
  BY <1>1, <1>4, <1>7, ApartStays DEF OneWayInv, OneWay
<1> QED BY <1>5, <1>6, <1>7 DEF OneWay

\* A transaction that may be refunded has not been paid out.
LEMMA RefundableNotPaidOut ==
    ASSUME OneWayInv, NEW p \in Requests, NEW amount \in Amount, Refundable(txn, amount),
           TxnFree(p), req[p].op # "transfer"
    PROVE  txn.session \notin transferred /\ txn.status \in Settled /\ txn.session \in Sessions
<1>1. txn.session \in Sessions /\ txn.session # NoSession /\ txn.status \in Settled
  BY RefundedTxnTyped, SessionAssumption DEF OneWayInv, IInv, TypeOK, Refundable, Settled
<1>2. \A q \in Requests : req[q].op # "transfer"
  <2>1. ASSUME NEW q \in Requests, req[q].op = "transfer" PROVE FALSE
    <3>1. q # p /\ StepFits(req[q])
      BY <2>1 DEF OneWayInv, OneWay
    <3>2. Writes(req[q])
      BY <2>1, <3>1 DEF StepFits, Writes
    <3> QED BY <3>1, <3>2, FreeRow DEF OneWayInv
  <2> QED BY <2>1
<1> QED BY <1>1, <1>2 DEF OneWayInv, OneWay, RowKnows, PaidOut, Refundable


\* A refund is made of a session that was not paid out, by one who holds its row.
LEMMA RefundTakesRow ==
    ASSUME OneWayInv, NEW p \in Requests, NEW amount \in Amount, NEW r,
           Refundable(txn, amount), StripeRefund(txn.session, amount), TxnFree(p),
           req' = [req EXCEPT ![p] = r], txn' = txn,
           r.step = "commit", r.txn = RefundedTxn(txn, amount), req[p].op # "transfer",
           \/ r.op = "admin_refund" /\ "admin_refund" \in Ops
           \/ r.op \in Closers /\ r.booking.payment = "paid"
    PROVE  OneWay'
<1>1. TypeOK /\ txn.session \in Sessions /\ txn.session # NoSession
  BY RefundableNotPaidOut, SessionAssumption DEF OneWayInv, IInv
<1>2. txn.session \notin transferred /\ txn.status \in Settled
  BY RefundableNotPaidOut
<1>3. /\ r.txn.session = txn.session /\ r.txn.status \in Repaid /\ r.txn # NoTxn
  <2>1. txn \in Txn
    BY <1>1 DEF TypeOK
  <2>2. r.txn.session = txn.session /\ r.txn.status \in Repaid
    BY <2>1 DEF RefundedTxn, Txn, Repaid
  <2> QED BY <1>1, <2>2 DEF NoTxn
<1>4. /\ checkout' = checkout /\ transferred' = transferred
      /\ \A s \in Sessions \ {txn.session} : refunds'[s] = refunds[s]
      /\ \A e \in events' : e \in events \/ e.type = "refunded"
  BY <1>1 DEF StripeRefund, TypeOK
<1>5. RefundInFlight(r) /\ Writes(r)
  BY <1>3 DEF RefundInFlight, Writes
<1>6. StepFits(r)
  <2>1. checkout[txn.session] # "unused"
    BY <1>1 DEF OneWayInv, OneWay, RowKnows
  <2> QED BY <1>3, <1>5, <2>1 DEF StepFits, Closers, Inserts
<1>7. \A e \in events' : e \in events \/ Joins(e, p)
  <2>1. ASSUME NEW e, e.type = "refunded" PROVE Joins(e, p)
    BY <2>1 DEF Joins, EventFits, OneWayInv, IInv, TypeOK, RequestTyped, Webhooks
  <2> QED BY <1>4, <2>1
<1>8. req'[p] = r
  BY <1>1, Replaced
<1>9. PayoutOrRefund'
  BY <1>2, <1>4 DEF OneWayInv, OneWay, PayoutOrRefund, IInv, TypeOK
<1>10. RowKnows'
  <2>1. GivenBack'
    BY <1>5, <1>8 DEF GivenBack
  <2> QED BY <1>1, <1>2, <1>4, <2>1 DEF OneWayInv, OneWay, RowKnows
<1>11. r.op \notin Webhooks \cup {"checkout"}
  BY DEF Closers, Webhooks
<1> QED BY <1>3, <1>4, <1>6, <1>7, <1>9, <1>10, <1>11, TakesRow

\* The refund of an administrator, or of a booking that is closed
LEMMA RefundOneWay ==
    ASSUME OneWayInv, NEW p \in Requests,
           CloseRefund(p) \/ \E amount \in 1 .. Price : AdminRefund(p, amount)
    PROVE  OneWay'
<1>1. TypeOK /\ StepFits(req[p])
  BY DEF OneWayInv, OneWay, IInv
<1>2. CASE CloseRefund(p)
  <2> DEFINE t == RefundedTxn(txn, Price)
             r == [req[p] EXCEPT !.step = "commit", !.txn = t]
  <2>1. /\ Price \in Amount /\ Refundable(txn, Price) /\ StripeRefund(txn.session, Price)
        /\ TxnFree(p) /\ txn' = txn /\ req[p].op \in Closers /\ req[p].step = "refund"
    BY <1>2, PriceAssumption DEF CloseRefund, Amount
  <2>2. /\ r.op = req[p].op /\ r.step = "commit" /\ r.booking = req[p].booking /\ r.txn = t
        /\ req[p].op # "transfer"
    BY <1>1, <2>1, InFlightTyped DEF Request, Closers
  <2>3. req' = [req EXCEPT ![p] = r]
    <3>1. req \in [Requests -> Request] /\ req[p] \in Request
      BY <1>1 DEF TypeOK
    <3>2. req' = [req EXCEPT ![p].step = "commit", ![p].txn = t]
      BY <1>2 DEF CloseRefund
    <3> QED BY <3>1, <3>2
  <2>4. req[p].booking.payment = "paid"
    BY <1>1, <2>1 DEF StepFits
  <2> HIDE DEF r
  <2> QED BY <2>1, <2>2, <2>3, <2>4, RefundTakesRow
<1>3. ASSUME NEW amount \in 1 .. Price, AdminRefund(p, amount) PROVE OneWay'
  <2> DEFINE r == [NoRequest EXCEPT !.op = "admin_refund", !.step = "commit",
                                    !.txn = RefundedTxn(txn, amount)]
  <2>1. /\ Refundable(txn, amount) /\ StripeRefund(txn.session, amount)
        /\ TxnFree(p) /\ txn' = txn /\ req' = [req EXCEPT ![p] = r]
        /\ req[p].op = "idle" /\ "admin_refund" \in Ops
    BY <1>3 DEF AdminRefund, Idle
  <2>2. r.op = "admin_refund" /\ r.step = "commit" /\ r.txn = RefundedTxn(txn, amount)
    BY DEF NoRequest
  <2>3. amount \in Amount
    BY DEF Amount
  <2> HIDE DEF r
  <2> QED BY <2>1, <2>2, <2>3, RefundTakesRow
<1> QED BY <1>2, <1>3

\* A payout is made of a session that was not refunded, by one who holds its row.
LEMMA PayoutOneWay ==
    ASSUME OneWayInv, ~Outages, NEW p \in Requests, TransferSweep(p)
    PROVE  OneWay'
<1>1. TypeOK
  BY DEF OneWayInv, IInv
<1>2. PICK t \in Txn :
        /\ t.session = txn.session /\ txn.session \in Sessions
        /\ txn.status = "succeeded" /\ t.status = txn.status
        /\ t.transfer = "completed" => TransferSent(p)
        /\ StartTransfer(p, t)
  BY <1>1, TransferRow
<1>3. /\ \/ transferred' = transferred
         \/ transferred' = transferred \cup {txn.session} /\ TransferSent(p)
  BY DEF TransferSweep, TransferSent, TransferFails, TransferWithoutAccount
<1> DEFINE r == [NoRequest EXCEPT !.op = "transfer", !.step = "commit", !.txn = t]
<1>4. /\ r.op = "transfer" /\ r.step = "commit" /\ r.txn = t
  BY DEF NoRequest
<1>5. /\ req' = [req EXCEPT ![p] = r] /\ TxnFree(p) /\ txn.transfer = "pending"
      /\ UNCHANGED <<txn, checkout, refunds, events>> /\ req[p].op = "idle"
  BY <1>2 DEF StartTransfer, Due, Idle
<1> HIDE DEF r
<1>6. req'[p] = r /\ \A q \in Requests \ {p} : req'[q] = req[q]
  BY <1>1, <1>5, Replaced
<1>7. txn.session # NoSession /\ checkout[txn.session] # "unused"
  BY <1>2, SessionAssumption DEF OneWayInv, OneWay, RowKnows
<1>8. StepFits(r)
  BY <1>2, <1>4, <1>5, <1>7 DEF StepFits, Writes, RefundInFlight, Closers, Webhooks, Inserts
<1>9. refunds[txn.session] = 0
  <2>1. \A q \in Requests : ~RefundInFlight(req[q])
    BY <1>5, FreeRow DEF OneWayInv, Writes, RefundInFlight, Closers
  <2>2. refunds[txn.session] \in Nat
    BY <1>1, <1>2 DEF TypeOK, Amount
  <2> QED BY <1>2, <1>7, <2>1, <2>2 DEF OneWayInv, OneWay, RowKnows, GivenBack, Repaid
<1>10. PayoutOrRefund'
  BY <1>3, <1>5, <1>9 DEF OneWayInv, OneWay, PayoutOrRefund
<1>11. RowKnows'
  <2>1. CASE transferred' = transferred
    <3>1. PaidOut => PaidOut'
      BY <1>5, <1>6 DEF PaidOut
    <3> QED BY <1>5, <1>7, <1>9, <2>1, <3>1 DEF OneWayInv, OneWay, RowKnows
  <2>2. CASE TransferSent(p)
    <3>1. r.txn.transfer = "completed"
      <4>1. StartTransfer(p, [txn EXCEPT !.transfer = "completed"])
        BY <2>2 DEF TransferSent
      <4>2. req'[p].txn = [txn EXCEPT !.transfer = "completed"]
        BY <1>1, <4>1 DEF StartTransfer, NoRequest, TypeOK
      <4> QED BY <1>1, <1>6, <4>2 DEF TypeOK, Txn
    <3>2. PaidOut'
      BY <1>4, <1>6, <3>1 DEF PaidOut
    <3> QED BY <1>2, <1>5, <1>7, <1>9, <3>2 DEF RowKnows, Settled
  <2> QED BY <1>3, <2>1, <2>2
<1> QED BY <1>2, <1>4, <1>5, <1>8, <1>10, <1>11, TakesRow DEF Webhooks

\* What a writer writes is a row that payouts, refunds and announced payments agree with.
CopyAgrees(r) ==
    /\ r.txn.session = txn.session
    /\ r.txn.status \in Settled => txn.status \in Settled \/ r.op = "completed"
    /\ txn.session \in transferred => r.txn.transfer = "completed" /\ r.txn.status \in Settled
    /\ refunds[txn.session] > 0 => r.txn.status \in Repaid

\* A writer's copy agrees.
LEMMA WritersAgree ==
    ASSUME OneWayInv, NEW p \in Requests, Writes(req[p])
    PROVE  CopyAgrees(req[p]) /\ txn.session # NoSession
<1> DEFINE r == req[p]
<1>1. /\ TypeOK /\ StepFits(r) /\ RequestTyped(r) /\ RequestReal(r) /\ r.txn.session = txn.session
      /\ \A q \in Requests \ {p} : ~Writes(req[q])
  BY FreeRow, WritersHold DEF OneWayInv, OneWay, IInv, TypeOK, InFlightReal
<1> HIDE DEF r
<1>2. CASE RefundInFlight(r)
  <2>1. txn.status \in Settled /\ txn.session \notin transferred /\ txn.session \in Sessions
    BY <1>2, RefundHeldRow DEF r
  <2>2. r.txn.status \in Repaid
    BY <1>1, <1>2 DEF StepFits
  <2> QED BY <1>1, <2>1, <2>2, SessionAssumption DEF CopyAgrees, r
<1>3. CASE r.op \in Webhooks
  <2>1. r.step = "commit" /\ ~RefundInFlight(r)
    BY <1>3 DEF Writes, RefundInFlight, Closers, Webhooks, r
  <2>2. r.event \in Event /\ r.event.session = txn.session /\ r.event.type = r.op /\ EventReal(r.event)
    BY <1>1, <1>3 DEF RequestTyped, RequestReal
  <2>3. txn.session \in Sessions /\ txn.session # NoSession
    BY <2>2, SessionAssumption DEF Event
  <2>4. CASE r.op = "completed"
    <3>1. txn.status \notin Settled
      BY <1>1, <2>2, <2>4 DEF StepFits
    <3>2. txn.session \notin transferred /\ refunds[txn.session] = 0
      BY <2>3, <3>1, NoMoneyYet
    <3> QED BY <1>1, <2>3, <2>4, <3>2 DEF CopyAgrees, r
  <2>5. CASE r.op = "expired"
    <3>1. checkout[txn.session] = "expired" /\ r.txn.status = "failed"
      BY <1>1, <2>1, <2>2, <2>5 DEF StepFits
    <3>2. txn.session \notin transferred /\ refunds[txn.session] = 0
      BY <2>3, <3>1, NoMoneyYet
    <3> QED BY <1>1, <2>3, <3>1, <3>2 DEF CopyAgrees, r, Settled
  <2>6. CASE r.op = "refunded"
    <3>1. r.event.amount \in 1 .. refunds[txn.session] /\ r.txn.status \in Repaid
      BY <1>1, <2>1, <2>2, <2>6 DEF StepFits, EventReal
    <3>2. refunds[txn.session] \in Nat /\ refunds[txn.session] > 0
      BY <1>1, <2>3, <3>1 DEF TypeOK, Amount
    <3>3. txn.session \notin transferred /\ txn.status \in Settled
      BY <2>3, <3>2 DEF OneWayInv, OneWay, RowKnows, PayoutOrRefund
    <3> QED BY <1>1, <2>3, <3>1, <3>3 DEF CopyAgrees, r
  <2> QED BY <1>3, <2>4, <2>5, <2>6 DEF Webhooks
<1>4. CASE r.op = "transfer"
  <2>1. /\ txn.status = "succeeded" /\ r.txn.status = "succeeded" /\ txn.transfer # "completed"
        /\ ~RefundInFlight(r) /\ txn.session # NoSession
    BY <1>1, <1>4 DEF StepFits, RefundInFlight, Closers, RequestTyped
  <2>2. txn.session \in transferred => r.txn.transfer = "completed"
    <3> SUFFICES ASSUME txn.session \in transferred PROVE r.txn.transfer = "completed"
      OBVIOUS
    <3>1. PICK q \in Requests : req[q].op = "transfer" /\ req[q].txn.transfer = "completed"
      BY <2>1 DEF OneWayInv, OneWay, RowKnows, PaidOut
    <3>2. Writes(req[q])
      BY <3>1 DEF OneWayInv, OneWay, StepFits, Writes
    <3>3. q = p
      BY <1>1, <3>2
    <3> QED BY <3>1, <3>3 DEF r
  <2>3. ~(refunds[txn.session] > 0)
    <3>1. \A q \in Requests : ~RefundInFlight(req[q])
      BY <1>1, <2>1 DEF Writes, r
    <3> QED BY <2>1, <3>1 DEF OneWayInv, OneWay, RowKnows, GivenBack, Repaid
  <2> QED BY <1>1, <2>1, <2>2, <2>3 DEF CopyAgrees, r, Settled
<1> QED BY <1>2, <1>3, <1>4 DEF Writes, r

\* A writer commits: row, payout and refund agree from then on without a copy.
LEMMA CommitOneWay ==
    ASSUME OneWayInv, NEW p \in Requests, Writes(req[p]), Finish(p), txn' = req[p].txn,
           UNCHANGED <<checkout, refunds, transferred, events>>
    PROVE  OneWay'
<1>1. /\ TypeOK /\ CopyAgrees(req[p]) /\ StepFits(req[p]) /\ RequestTyped(req[p])
      /\ txn.session # NoSession /\ txn'.session = txn.session
  BY WritersAgree DEF OneWayInv, OneWay, IInv, TypeOK, CopyAgrees
<1>2. req'[p] = NoRequest /\ \A q \in Requests \ {p} : req'[q] = req[q]
  BY <1>1, Replaced DEF Finish
<1>3. PayoutOrRefund'
  BY DEF OneWayInv, OneWay, PayoutOrRefund
<1>4. RowKnows'
  <2>1. checkout[txn.session] # "unused"
    BY <1>1 DEF OneWayInv, OneWay, RowKnows
  <2>2. Repaid \subseteq Settled
    BY DEF Repaid, Settled
  <2> QED BY <1>1, <2>1, <2>2 DEF RowKnows, CopyAgrees, PaidOut, GivenBack
<1>5. ASSUME NEW e \in Event, e.type = "completed", e.amount = 0, e.session = txn.session,
             txn.status \notin Settled, req[p].op = "completed" => req[p].event # e
      PROVE  txn'.status \notin Settled
  <2>1. req[p].op = "completed" => req[p].event = e
    BY <1>1, <1>5 DEF StepFits, RequestTyped, Webhooks, Event
  <2> QED BY <1>1, <1>5, <2>1 DEF CopyAgrees
<1>6. ASSUME NEW e \in events' PROVE EventFits(e)'
  <2>1. e \in Event /\ EventFits(e) /\ (req[p].op = "completed" => req[p].event # e)
    BY <1>1 DEF OneWayInv, OneWay, TypeOK, StepFits
  <2> QED BY <1>1, <1>5, <2>1 DEF EventFits
<1>7. ASSUME NEW q \in Requests \ {p} PROVE StepFits(req[q])' /\ Apart(p, q)' /\ Apart(q, p)'
  <2>1. /\ req'[q] = req[q] /\ StepFits(req[q]) /\ RequestTyped(req[q]) /\ ~Writes(req[q])
        /\ Apart(p, q)
    BY <1>1, <1>2, FreeRow DEF OneWayInv, OneWay, TypeOK
  <2>2. req[q].op # "transfer" /\ ~RefundInFlight(req[q])
    BY <2>1 DEF StepFits, Writes
  <2>3. req[q].op = "completed" /\ req[q].event.session = txn.session => txn'.status \notin Settled
    <3>1. req[q].op = "completed" => req[q].event \in Event /\ req[q].event.type = "completed"
      BY <2>1 DEF RequestTyped, Webhooks
    <3>2. req[q].op = "completed" /\ req[p].op = "completed" => req[p].event # req[q].event
      BY <2>1 DEF Apart
    <3> QED BY <1>5, <2>1, <3>1, <3>2 DEF StepFits
  <2>4. StepFits(req[q])'
    BY <1>1, <2>1, <2>2, <2>3 DEF StepFits, Writes, RefundInFlight, Inserts
  <2>5. NoRequest.op = "idle" /\ NoRequest.txn = NoTxn /\ NoRequest.txn.session = NoSession
    BY DEF NoRequest, NoTxn
  <2>6. ~Writes(NoRequest) /\ ~Inserts(NoRequest) /\ ~HoldsTxn(p)'
    BY <1>2, <2>5 DEF Writes, RefundInFlight, Inserts, HoldsTxn, Closers, Webhooks
  <2>7. Apart(p, q)'
    BY <1>2, <2>5, <2>6 DEF Apart, Writes, RefundInFlight, Inserts
  <2>8. Apart(q, p)'
    BY <1>2, <2>1, <2>5, <2>6 DEF Apart, Writes, RefundInFlight, Inserts, RequestTyped
  <2> QED BY <2>4, <2>7, <2>8
<1>8. StepFits(req[p])'
  <2>1. NoRequest.op = "idle" /\ NoRequest.txn = NoTxn /\ NoTxn.session = NoSession
    BY DEF NoRequest, NoTxn
  <2> QED BY <1>2, <2>1 DEF StepFits, Writes, RefundInFlight, Inserts, Closers, Webhooks
<1>9. ASSUME NEW a \in Requests, NEW b \in Requests, a # b PROVE Apart(a, b)'
  BY <1>1, <1>2, <1>7, <1>9, ApartStays DEF OneWayInv, OneWay
<1> QED BY <1>3, <1>4, <1>6, <1>7, <1>8, <1>9 DEF OneWay

\* A new row takes the place of one that nobody is going to write.
LEMMA InsertOneWay ==
    ASSUME OneWayInv, NEW p \in Requests, CheckoutInsert(p)
    PROVE  OneWay'
<1>1. TypeOK /\ StepFits(req[p]) /\ RequestTyped(req[p])
  BY DEF OneWayInv, OneWay, IInv, TypeOK
<1>2. /\ req[p].op = "checkout" /\ req[p].step = "insert" /\ Inserts(req[p]) /\ Finish(p)
      /\ UNCHANGED <<refunds, transferred, events>>
  BY DEF CheckoutInsert, At, Inserts
<1>3. req'[p] = NoRequest /\ \A q \in Requests \ {p} : req'[q] = req[q]
  BY <1>1, <1>2, Replaced DEF Finish
<1>4. PICK s \in Sessions :
        s = req[p].event.session /\ s # NoSession /\ checkout[s] \in {"created", "expired"}
  BY <1>1, <1>2, InFlightTyped DEF RequestTyped, StepFits
<1>5. CASE UNCHANGED <<txn, checkout>>
  <2>1. ~RefundInFlight(req[p]) /\ req[p].op # "transfer"
    BY <1>2 DEF RefundInFlight, Closers
  <2> QED BY <1>2, <1>5, <2>1, LightEnd
<1>6. CASE /\ txn.session \in {NoSession, req[p].txn.session}
           /\ txn' = NewTxn(s)
           /\ checkout' = [checkout EXCEPT ![s] = IF @ = "created" THEN "open" ELSE @]
  <2>1. txn'.session = s /\ txn'.status = "pending"
    BY <1>4, <1>6 DEF NewTxn, NoTxn
  <2>2. /\ checkout'[s] # "unused"
        /\ checkout[s] = "expired" => checkout'[s] = "expired"
        /\ \A t \in Sessions \ {s} : checkout'[t] = checkout[t]
    BY <1>1, <1>4, <1>6 DEF TypeOK
  <2>3. ASSUME NEW q \in Requests \ {p} PROVE ~Writes(req[q])
    <3>1. CASE txn.session = req[p].txn.session
      <4>1. HoldsTxn(p) /\ Apart(q, p)
        BY <1>2, <3>1 DEF HoldsTxn, OneWayInv, OneWay
      <4> QED BY <4>1 DEF Apart
    <3>2. CASE txn.session = NoSession
      <4>1. RequestTyped(req[q]) /\ StepFits(req[q])
        BY <1>1 DEF TypeOK, OneWayInv, OneWay
      <4> QED BY <3>2, <4>1, SessionAssumption
              DEF StepFits, Writes, RefundInFlight, RequestTyped, Webhooks, Closers, Event
    <3> QED BY <1>6, <3>1, <3>2
  <2>4. PayoutOrRefund'
    BY <1>2 DEF OneWayInv, OneWay, PayoutOrRefund
  <2>5. RowKnows'
    <3>1. s \notin transferred /\ ~(refunds[s] > 0)
      BY <1>4 DEF OneWayInv, IInv, BooksReal, RefundsReal, TransfersReal
    <3> QED BY <1>2, <2>1, <2>2, <3>1 DEF RowKnows
  <2>6. ASSUME NEW e \in events' PROVE EventFits(e)'
    <3>1. EventFits(e) /\ e.session \in Sessions
      BY <1>1, <1>2 DEF OneWayInv, OneWay, TypeOK, Event
    <3> QED BY <2>1, <2>2, <3>1 DEF EventFits, Settled
  <2>7. ASSUME NEW q \in Requests \ {p} PROVE StepFits(req[q])' /\ Apart(p, q)' /\ Apart(q, p)'
    <3>1. /\ req'[q] = req[q] /\ StepFits(req[q]) /\ RequestTyped(req[q]) /\ ~Writes(req[q])
          /\ Apart(p, q) /\ Apart(q, p)
      BY <1>1, <1>3, <2>3 DEF OneWayInv, OneWay, TypeOK
    <3>2. req[q].op # "transfer" /\ ~RefundInFlight(req[q])
      BY <3>1 DEF StepFits, Writes
    <3>3. /\ req[q].txn.session \in Sessions \cup {NoSession}
          /\ req[q].op = "expired" => req[q].event.session \in Sessions
          /\ Inserts(req[q]) => req[q].event.session \in Sessions \ {s}
      BY <1>1, <1>2, <1>4, <3>1, InFlightTyped DEF RequestTyped, Txn, Event, Webhooks, Inserts, Apart
    <3>4. StepFits(req[q])'
      BY <1>2, <2>1, <2>2, <3>1, <3>2, <3>3
         DEF StepFits, Writes, RefundInFlight, Inserts, Settled
    <3>5. NoRequest.op = "idle" /\ NoRequest.txn = NoTxn /\ NoRequest.txn.session = NoSession
      BY DEF NoRequest, NoTxn
    <3>6. ~Writes(NoRequest) /\ ~Inserts(NoRequest) /\ ~HoldsTxn(p)'
      BY <1>3, <3>5 DEF Writes, RefundInFlight, Inserts, HoldsTxn, Closers, Webhooks
    <3>7. Apart(p, q)'
      BY <1>3, <3>5, <3>6 DEF Apart, Writes, RefundInFlight, Inserts
    <3>8. Apart(q, p)'
      BY <1>3, <3>1, <3>5, <3>6 DEF Apart, Writes, RefundInFlight, Inserts, RequestTyped
    <3> QED BY <3>4, <3>7, <3>8
  <2>8. StepFits(req[p])'
    <3>1. NoRequest.op = "idle" /\ NoRequest.txn = NoTxn /\ NoTxn.session = NoSession
      BY DEF NoRequest, NoTxn
    <3> QED BY <1>3, <3>1 DEF StepFits, Writes, RefundInFlight, Inserts, Closers, Webhooks
  <2>9. ASSUME NEW a \in Requests \ {p}, NEW b \in Requests \ {p}, a # b PROVE Apart(a, b)'
    <3>1. Apart(a, b) /\ req'[a] = req[a] /\ req'[b] = req[b] /\ ~Writes(req[a])
      BY <1>3, <2>3, <2>9 DEF OneWayInv, OneWay
    <3> QED BY <3>1 DEF Apart, Writes, RefundInFlight, Inserts
  <2> QED BY <2>4, <2>5, <2>6, <2>7, <2>8, <2>9 DEF OneWay
<1> QED BY <1>4, <1>5, <1>6 DEF CheckoutInsert

\* No request moves and no row is written.
LEMMA RestOneWay ==
    ASSUME OneWayInv, UNCHANGED <<txn, req, refunds, transferred>>, CheckoutKeeps,
           \A e \in events' \ events : EventFits(e)' /\
               \A q \in Requests : req[q].op = "completed" => req[q].event # e
    PROVE  OneWay'
<1>1. PayoutOrRefund'
  BY DEF OneWayInv, OneWay, PayoutOrRefund
<1>2. RowKnows'
  <2>1. txn.session \in Sessions \cup {NoSession}
    BY DEF OneWayInv, IInv, TypeOK, Txn
  <2> QED BY <2>1 DEF OneWayInv, OneWay, RowKnows, CheckoutKeeps, PaidOut, GivenBack
<1>3. \A e \in events' : EventFits(e)'
  BY EventsStay
<1>4. ASSUME NEW q \in Requests PROVE StepFits(req[q])'
  BY StepStays
<1>5. ASSUME NEW a \in Requests, NEW b \in Requests, a # b PROVE Apart(a, b)'
  BY <1>5, ApartStays DEF OneWayInv, OneWay
<1> QED BY <1>1, <1>2, <1>3, <1>4, <1>5 DEF OneWay

\* What happens outside the requests moves no money but the seeker's.
LEMMA WorldOneWay ==
    ASSUME OneWayInv, ~DashboardRefunds, World
    PROVE  OneWay'
<1>1. TypeOK
  BY DEF OneWayInv, IInv
<1>2. ASSUME NEW s \in Sessions, SeekerPays(s) PROVE OneWay'
  <2> DEFINE new == [type |-> "completed", session |-> s, amount |-> 0]
  <2>1. /\ checkout[s] = "open" /\ checkout' = [checkout EXCEPT ![s] = "complete"]
        /\ UNCHANGED <<txn, req, refunds, transferred>> /\ events' = events \cup {new}
    BY <1>2 DEF SeekerPays
  <2>2. new.amount = 0 /\ new.session = s /\ new.type = "completed"
    OBVIOUS
  <2> HIDE DEF new
  <2>3. CheckoutKeeps
    BY <1>1, <2>1 DEF CheckoutKeeps, TypeOK
  <2>4. EventFits(new)'
    <3>1. txn.session = s => txn.status \notin Settled
      BY <2>1 DEF OneWayInv, IInv, BooksReal, PaymentsReal
    <3> QED BY <2>1, <2>2, <3>1 DEF EventFits
  <2>5. ASSUME NEW q \in Requests, req[q].op = "completed" PROVE req[q].event # new
    <3>1. EventReal(req[q].event) /\ req[q].event.type = "completed"
      BY <1>1, <2>5 DEF OneWayInv, IInv, InFlightReal, RequestReal, TypeOK, RequestTyped,
         Webhooks
    <3> QED BY <2>1, <2>2, <3>1 DEF EventReal
  <2> QED BY <2>1, <2>3, <2>4, <2>5, RestOneWay
<1>3. ASSUME NEW s \in Sessions, SessionExpires(s) PROVE OneWay'
  <2> DEFINE new == [type |-> "expired", session |-> s, amount |-> 0]
  <2>1. /\ checkout[s] \in {"created", "open"}
        /\ checkout' = [checkout EXCEPT ![s] = "expired"]
        /\ UNCHANGED <<txn, req, refunds, transferred>> /\ events' = events \cup {new}
    BY <1>3 DEF SessionExpires
  <2>2. new.session = s /\ new.type = "expired"
    OBVIOUS
  <2> HIDE DEF new
  <2>3. CheckoutKeeps /\ checkout'[s] = "expired"
    BY <1>1, <2>1 DEF CheckoutKeeps, TypeOK
  <2>4. EventFits(new)'
    BY <2>2, <2>3 DEF EventFits
  <2>5. ASSUME NEW q \in Requests, req[q].op = "completed" PROVE req[q].event # new
    BY <1>1, <2>2, <2>5 DEF TypeOK, RequestTyped, Webhooks
  <2> QED BY <2>1, <2>3, <2>4, <2>5, RestOneWay
<1>4. CASE TimePasses \/ ConnectionChanges
  <2>1. UNCHANGED <<txn, req, stripe>>
    BY <1>4 DEF TimePasses, ConnectionChanges
  <2> QED BY <2>1, RestOneWay DEF stripe, CheckoutKeeps
<1> QED BY <1>2, <1>3, <1>4 DEF World, DashboardRefund

\* In the beginning nothing was paid out or paid back.
LEMMA InitOneWay == Init => OneWay
<1> SUFFICES ASSUME Init PROVE OneWay
  OBVIOUS
<1>1. /\ req = [p \in Requests |-> NoRequest] /\ refunds = [s \in Sessions |-> 0]
      /\ transferred = {} /\ events = {}
  BY DEF Init
<1>2. NoRequest.op = "idle" /\ NoRequest.txn = NoTxn /\ NoTxn.session = NoSession
  BY DEF NoRequest, NoTxn
<1>3. ASSUME NEW p \in Requests PROVE StepFits(req[p]) /\ ~Writes(req[p]) /\ ~Inserts(req[p])
  <2>1. req[p] = NoRequest
    BY <1>1
  <2> QED BY <1>2, <2>1 DEF StepFits, Writes, RefundInFlight, Inserts, Closers, Webhooks
<1>4. ASSUME NEW p \in Requests, NEW q \in Requests PROVE Apart(p, q)
  <2>1. req[p] = NoRequest
    BY <1>1
  <2> QED BY <1>2, <1>3, <2>1 DEF Apart
<1>5. txn.session # NoSession => txn.session \in Sessions /\ checkout[txn.session] # "unused"
  <2>1. CASE NewInit
    BY <1>2, <2>1 DEF NewInit
  <2>2. CASE PaidInit
    <3>1. PICK s \in Sessions :
            /\ txn = [NewTxn(s) EXCEPT !.status = "succeeded", !.transfer = "pending",
                                       !.charge = TRUE]
            /\ checkout = [t \in Sessions |-> IF t = s THEN "complete" ELSE "unused"]
      BY <2>2 DEF PaidInit
    <3>2. txn.session = s
      BY <3>1 DEF NewTxn, NoTxn
    <3> QED BY <3>1, <3>2
  <2> QED BY <2>1, <2>2 DEF Init
<1>6. PayoutOrRefund /\ RowKnows
  BY <1>1, <1>5 DEF PayoutOrRefund, RowKnows
<1> QED BY <1>1, <1>3, <1>4, <1>6 DEF OneWay

\* Requests that commit
LEMMA CommitsOneWay ==
    ASSUME OneWayInv, NEW p \in Requests,
           \/ AcceptCommit(p) \/ CompleteCommit(p) \/ NoShowCommit(p) \/ CloseCommit(p)
           \/ AdminRefundCommit(p) \/ CompletedCommit(p) \/ ExpiredCommit(p)
           \/ RefundedCommit(p) \/ TransferCommit(p)
    PROVE  OneWay'
<1>1. CASE AcceptCommit(p) \/ CompleteCommit(p) \/ NoShowCommit(p)
  <2>1. /\ Finish(p) /\ UNCHANGED <<txn, checkout, refunds, transferred, events>>
        /\ req[p].op \in {"accept", "complete", "no_show"}
    BY <1>1 DEF AcceptCommit, CompleteCommit, NoShowCommit, OutcomeCommit, At, stripe
  <2>2. ~RefundInFlight(req[p]) /\ req[p].op # "transfer"
    BY <2>1 DEF RefundInFlight, Closers
  <2> QED BY <2>1, <2>2, LightEnd
<1>2. CASE CloseCommit(p)
  <2>1. /\ Finish(p) /\ UNCHANGED <<checkout, refunds, transferred, events>>
        /\ req[p].op \in Closers
        /\ txn' = IF req[p].txn # NoTxn THEN req[p].txn ELSE txn
    BY <1>2 DEF CloseCommit, stripe
  <2>2. CASE req[p].txn # NoTxn
    BY <2>1, <2>2, CommitOneWay DEF Writes, RefundInFlight
  <2>3. CASE req[p].txn = NoTxn
    <3>1. ~RefundInFlight(req[p]) /\ req[p].op # "transfer"
      BY <2>1, <2>3 DEF RefundInFlight, Closers
    <3> QED BY <2>1, <2>3, <3>1, LightEnd
  <2> QED BY <2>2, <2>3
<1>3. CASE AdminRefundCommit(p) \/ CompletedCommit(p) \/ ExpiredCommit(p) \/ RefundedCommit(p)
           \/ TransferCommit(p)
  <2>1. /\ Finish(p) /\ UNCHANGED <<checkout, refunds, transferred, events>>
        /\ txn' = req[p].txn
        /\ req[p].op \in Webhooks \cup {"admin_refund", "transfer"} /\ req[p].step = "commit"
    BY <1>3 DEF AdminRefundCommit, CompletedCommit, ExpiredCommit, RefundedCommit,
       TransferCommit, At, stripe, Webhooks
  <2>2. Writes(req[p])
    BY <2>1 DEF Writes, RefundInFlight
  <2> QED BY <2>1, <2>2, CommitOneWay
<1> QED BY <1>1, <1>2, <1>3

\* Requests that end without a commit.  The one hazard is an administrator's refund that
\* loses a deadlock after Stripe made it; it takes a second request to close the circle.
LEMMA LostOneWay ==
    ASSUME OneWayInv, ~Outages, OneByOne \/ "admin_refund" \notin Ops,
           NEW p \in Requests, NEW q \in Requests,
           RowGone(p) \/ Deadlock(p, q) \/ Crash(p)
    PROVE  OneWay'
<1>1. StepFits(req[p]) /\ StepFits(req[q])
  BY DEF OneWayInv, OneWay
<1>2. CASE RowGone(p)
  <2>1. ~RefundInFlight(req[p]) /\ req[p].op # "transfer" /\ RollBack(p)
    BY <1>2 DEF RowGone, RefundInFlight, Webhooks, Closers
  <2> QED BY <2>1, RollBackOneWay
<1>3. CASE Deadlock(p, q)
  <2>1. /\ req[p].op \in Closers /\ req[p].step = "refund"
        /\ req[q].step = "commit"
        /\ req[q].op \in {"completed", "refunded", "admin_refund", "expired"}
        /\ RollBack(p) \/ RollBack(q)
    BY <1>3 DEF Deadlock, WaitsForTxn, WaitsForBooking, CancelsBooking
  <2>2. ~RefundInFlight(req[p]) /\ req[p].op # "transfer"
    BY <1>1, <2>1 DEF StepFits, Writes, Closers
  <2>3. req[q].op # "admin_refund"
    BY <1>1, <2>1 DEF StepFits, OneByOne
  <2>4. ~RefundInFlight(req[q]) /\ req[q].op # "transfer"
    BY <2>1, <2>3 DEF RefundInFlight, Closers
  <2> QED BY <2>1, <2>2, <2>4, RollBackOneWay
<1>4. ~Crash(p)
  BY DEF Crash
<1> QED BY <1>2, <1>3, <1>4

\* No step of the system pays a session out and back.
LEMMA NextOneWay ==
    ASSUME OneWayInv, ~Outages, ~DashboardRefunds, ~StripeRedelivers,
           OneByOne \/ "admin_refund" \notin Ops, [Next]_vars
    PROVE  OneWay'
<1>1. ASSUME NEW p \in Requests, Advance(p) PROVE OneWay'
  <2>1. CASE \/ AcceptCommit(p) \/ CompleteCommit(p) \/ NoShowCommit(p) \/ CloseCommit(p)
             \/ AdminRefundCommit(p) \/ CompletedCommit(p) \/ ExpiredCommit(p)
             \/ RefundedCommit(p) \/ TransferCommit(p)
    BY <2>1, CommitsOneWay
  <2>2. CASE CloseFlush(p) \/ CloseRefund(p) \/ CloseRefundFails(p)
    BY <2>2, ClosersOneWay, RefundOneWay
  <2>3. CASE \/ CheckoutResume(p) \/ CheckoutFails(p) \/ CheckoutInsert(p)
             \/ \E s \in Sessions : CheckoutCreate(p, s)
    BY <2>3, CheckoutOneWay, CreateOneWay, InsertOneWay
  <2>4. CASE WebhookStep(p) \/ RowGone(p)
    BY <2>4, FlushOneWay, LostOneWay
  <2> QED BY <1>1, <2>1, <2>2, <2>3, <2>4 DEF Advance, WebhookStep
<1>2. ASSUME NEW p \in Requests, UserCall(p) PROVE OneWay'
  <2>1. CASE \/ Accept(p) \/ Complete(p) \/ MarkNoShow(p) \/ Reject(p)
             \/ \E actor \in {"seeker", "advisor"} : Cancel(p, actor)
    BY <2>1, ReadOneWay DEF Accept, Complete, MarkNoShow, Reject, Cancel
  <2>2. CASE Checkout(p)
    BY <2>2, CheckoutOneWay
  <2>3. CASE \E amount \in 1 .. Price : AdminRefund(p, amount)
    BY <2>3, RefundOneWay
  <2>4. ~ \E amount \in 1 .. Price : AdminRefundUnanswered(p, amount)
    BY DEF AdminRefundUnanswered
  <2> QED BY <1>2, <2>1, <2>2, <2>3, <2>4 DEF UserCall
<1>3. ASSUME NEW p \in Requests, Sweep(p) PROVE OneWay'
  <2>1. CASE ExpireStaleUnpaid(p)
    <3>1. UNCHANGED <<txn, req, stripe>>
      BY <2>1 DEF ExpireStaleUnpaid
    <3> QED BY <3>1, RestOneWay DEF stripe, CheckoutKeeps
  <2> QED BY <1>3, <2>1, ClosersOneWay, PayoutOneWay DEF Sweep
<1>4. ASSUME NEW p \in Requests, NEW q \in Requests, Crash(p) \/ Deadlock(p, q) PROVE OneWay'
  BY <1>4, LostOneWay
<1>5. CASE Webhook
  <2>1. ASSUME NEW e \in events, Ignore(e) PROVE OneWay'
    <3>1. UNCHANGED <<txn, req, checkout, refunds, transferred>> /\ events' \subseteq events
      BY <2>1 DEF Ignore, Remaining
    <3> QED BY <3>1, RestOneWay DEF CheckoutKeeps
  <2> QED BY <1>5, <2>1, ReceiveOneWay DEF Webhook
<1>6. CASE World
  BY <1>6, WorldOneWay
<1>7. CASE UNCHANGED vars
  <2>1. UNCHANGED <<txn, req, stripe>>
    BY <1>7 DEF vars
  <2> QED BY <2>1, RestOneWay DEF stripe, CheckoutKeeps
<1> QED BY <1>1, <1>2, <1>3, <1>4, <1>5, <1>6, <1>7 DEF Next

\* Payouts and refunds exclude each other whatever the requests, webhooks and sweeps do side
\* by side: refund_transaction, auto_refund_booking_if_paid and run_due_transfers each read
\* the transaction row FOR UPDATE and keep it locked over the call of Stripe until what was
\* done is committed.  It takes that nobody refunds in the dashboard, that no process stops
\* and no answer of Stripe is lost in between, that Stripe repeats no event, and that an
\* administrator's refund meets no other request it can deadlock with: run refund_deadlock
\* shows the advisor and the seeker both being paid when it does.
THEOREM PayoutsAndRefundsExclude ==
    ASSUME ~Outages, ~DashboardRefunds, ~StripeRedelivers,
           OneByOne \/ "admin_refund" \notin Ops
    PROVE  Spec => []PayoutOrRefund
<1>1. Init => OneWayInv
  BY InitIInv, InitOneWay DEF OneWayInv
<1>2. OneWayInv /\ [Next]_vars => OneWayInv'
  BY NextIInv, NextOneWay DEF OneWayInv
<1>3. OneWayInv => PayoutOrRefund
  BY DEF OneWayInv, OneWay
<1> QED BY <1>1, <1>2, <1>3, PTL DEF Spec

=============================================================================
