----------------------- MODULE AdvisorScheduleProofs -----------------------
(* What holds of AdvisorSchedule for every number of bookings and requests, *)
(* every calendar and every set of services and schedules.                  *)
EXTENDS AdvisorSchedule, TLAPS

USE BookingAssumption, MeetingAssumption, HorizonAssumption, DurationAssumption

\* A flush of a well-typed booking is one, attribute by attribute.
LEMMA FlushBooking ==
    ASSUME NEW row \in Booking, NEW seen \in Booking, NEW new \in Booking
    PROVE  /\ Flush(row, seen, new) \in Booking
           /\ Flush(row, seen, new).status = IF new.status = seen.status
                                             THEN row.status ELSE new.status
           /\ Flush(row, seen, new).start = IF new.start = seen.start
                                            THEN row.start ELSE new.start
           /\ Flush(row, seen, new).end = IF new.end = seen.end THEN row.end ELSE new.end
           /\ Flush(row, seen, new).length = IF new.length = seen.length
                                             THEN row.length ELSE new.length
           /\ Flush(row, seen, new).meeting = IF new.meeting = seen.meeting
                                              THEN row.meeting ELSE new.meeting
BY DEF Flush, Booking

\* The values a variable starts from, or returns to, are well typed.
LEMMA Typing ==
    /\ Absent \in Booking
    /\ NoRequest \in Request /\ RequestTyped(NoRequest)
    /\ 0 \in Time /\ Time \subseteq Nat
<1>1. 0 \in Time /\ Time \subseteq Nat
  BY DEF Time
<1>2. Absent \in Booking
  BY <1>1 DEF Absent, Booking
<1>3. NoRequest \in Request
  BY <1>1, <1>2 DEF NoRequest, Request, Op
<1>4. RequestTyped(NoRequest)
  BY DEF NoRequest, RequestTyped, SlotOps, Creations, Confirmations, Closings
<1> QED BY <1>1, <1>2, <1>3, <1>4

-----------------------------------------------------------------------------
(* The inductive invariant                                                 *)

\* The copy a request works on is of a booking that is there, spans its duration,
\* and has the duration of the row: no handler changes that.
CopiesFit ==
    \A p \in Requests :
        /\ req[p].seen.end = req[p].seen.start + req[p].seen.length
        /\ req[p].booking # NoBooking =>
               /\ bookings[req[p].booking].status # "absent"
               /\ bookings[req[p].booking].length = req[p].seen.length
        /\ req[p].op = "reschedule" => req[p].length = req[p].seen.length

IInv == TypeOK /\ CopiesFit /\ EndsFollowStarts /\ SlotHeld /\ SlotsDisjoint

\* Before any booking is made the inductive invariant holds.
LEMMA InitIInv == Init => IInv
<1> SUFFICES ASSUME Init PROVE IInv
  OBVIOUS
<1>1. TypeOK
  BY Typing DEF Init, TypeOK
<1>2. CopiesFit
  BY DEF Init, CopiesFit, NoRequest, Absent
<1>3. EndsFollowStarts
  BY DEF Init, EndsFollowStarts, Absent
<1>4. SlotHeld
  BY DEF Init, SlotHeld, NoRequest
<1>5. SlotsDisjoint
  BY DEF Init, SlotsDisjoint, Clash, Active, Absent, ACTIVE_BOOKING_STATUSES
<1> QED BY <1>1, <1>2, <1>3, <1>4, <1>5 DEF IInv

-----------------------------------------------------------------------------
(* Requests                                                                *)

\* A step that changes one request leaves the others as they are.
LEMMA OneRequest ==
    ASSUME TypeOK, NEW p \in Requests, NEW r \in Request, RequestTyped(r),
           req' = [req EXCEPT ![p] = r]
    PROVE  /\ req' \in [Requests -> Request] /\ \A q \in Requests : RequestTyped(req'[q])
           /\ req'[p] = r
           /\ \A q \in Requests \ {p} : req'[q] = req[q]
BY DEF TypeOK

\* A request that ends leaves the other requests as they were.
LEMMA FinishOne ==
    ASSUME TypeOK, NEW p \in Requests, Finish(p)
    PROVE  /\ req' \in [Requests -> Request] /\ \A q \in Requests : RequestTyped(req'[q])
           /\ req'[p] = NoRequest
           /\ \A q \in Requests \ {p} : req'[q] = req[q]
BY OneRequest, Typing DEF Finish

\* A request that has only read, or waits for the lock, breaks nothing.
LEMMA BeginIInv ==
    ASSUME IInv, NEW p \in Requests, NEW r \in Request, RequestTyped(r),
           Begin(p, r), r.step # "write",
           r.seen.end = r.seen.start + r.seen.length,
           r.booking # NoBooking => /\ bookings[r.booking].status # "absent"
                                    /\ bookings[r.booking].length = r.seen.length,
           r.op = "reschedule" => r.length = r.seen.length,
           UNCHANGED <<bookings, availability, zoom, now, revived, adrift>>
    PROVE  IInv'
<1>1. /\ req' \in [Requests -> Request] /\ \A q \in Requests : RequestTyped(req'[q])
      /\ req'[p] = r
      /\ \A q \in Requests \ {p} : req'[q] = req[q]
  BY OneRequest DEF IInv, Begin
<1>2. TypeOK'
  BY <1>1 DEF IInv, TypeOK
<1>3. CopiesFit'
  BY <1>1 DEF IInv, CopiesFit
<1>4. EndsFollowStarts'
  BY DEF IInv, EndsFollowStarts
<1>5. SlotHeld'
  BY <1>1 DEF IInv, SlotHeld, Active
<1>6. SlotsDisjoint'
  BY DEF IInv, SlotsDisjoint, Clash, Active
<1> QED BY <1>2, <1>3, <1>4, <1>5, <1>6 DEF IInv

\* Beginning a creation, of a slot that looks free, keeps the invariant.
LEMMA CreateIInv ==
    ASSUME IInv, NEW p \in Requests, NEW op \in Creations, NEW start \in Time,
           NEW length \in Durations, Create(p, op, start, length)
    PROVE  IInv'
<1> DEFINE r == [NoRequest EXCEPT !.op = op, !.step = "lock",
                                  !.start = start, !.length = length]
<1>1. r \in Request
  BY Typing DEF Request, Op, SlotOps
<1>2. /\ r.op = op /\ r.step = "lock" /\ r.start = start /\ r.length = length
      /\ r.booking = NoBooking /\ r.seen = Absent
  BY DEF NoRequest
<1>3. RequestTyped(r)
  BY <1>2 DEF RequestTyped, Create, SlotOps, Creations, Confirmations, Closings
<1>4. op # "reschedule"
  BY DEF Creations
<1> HIDE DEF r
<1>5. r.seen.end = r.seen.start + r.seen.length
  BY <1>2 DEF Absent
<1> QED BY <1>1, <1>2, <1>3, <1>4, <1>5, BeginIInv DEF Create, r

\* Beginning a reschedule, whose duration is the booking's own, keeps the invariant.
LEMMA RescheduleIInv ==
    ASSUME IInv, NEW p \in Requests, NEW b \in Bookings, NEW start \in Time,
           Reschedule(p, b, start)
    PROVE  IInv'
<1> DEFINE r == [op |-> "reschedule", step |-> "lock", booking |-> b, seen |-> bookings[b],
                 start |-> start, length |-> bookings[b].length]
<1>1. bookings[b] \in Booking /\ bookings[b].length \in Durations \cup {0}
  BY DEF IInv, TypeOK, Booking
<1>2. r \in Request
  BY <1>1 DEF Request, Op, SlotOps
<1>3. RequestTyped(r)
  BY DEF RequestTyped, Reschedule, SlotOps, Creations
<1>4. bookings[b].status # "absent"
  BY DEF Reschedule, Active, ACTIVE_BOOKING_STATUSES
<1>5. bookings[b].end = bookings[b].start + bookings[b].length
  BY DEF IInv, EndsFollowStarts
<1>6. /\ r.op = "reschedule" /\ r.step = "lock" /\ r.booking = b /\ r.seen = bookings[b]
      /\ r.length = bookings[b].length
  OBVIOUS
<1> HIDE DEF r
<1> QED BY <1>2, <1>3, <1>4, <1>5, <1>6, BeginIInv DEF Reschedule, r

\* A request that reads a booking starts from a copy that fits the row.
LEMMA ReadIInv ==
    ASSUME IInv, NEW p \in Requests, NEW op \in Closings \cup Confirmations,
           NEW b \in Bookings, Read(p, op, b)
    PROVE  IInv'
<1> DEFINE r == [NoRequest EXCEPT !.op = op, !.booking = b, !.seen = bookings[b]]
<1>1. bookings[b] \in Booking
  BY DEF IInv, TypeOK
<1>2. r \in Request
  BY <1>1, Typing DEF Request, Op
<1>3. /\ r.op = op /\ r.step = "idle" /\ r.booking = b /\ r.seen = bookings[b]
  BY DEF NoRequest
<1>4. op \notin SlotOps \cup {"idle"}
  BY DEF SlotOps, Creations, Closings, Confirmations
<1>5. RequestTyped(r)
  BY <1>3, <1>4 DEF RequestTyped, SlotOps
<1>6. bookings[b].status # "absent"
  BY DEF Read, Allows, Closings, Confirmations, ACTIVE_BOOKING_STATUSES
<1>7. bookings[b].end = bookings[b].start + bookings[b].length
  BY DEF IInv, EndsFollowStarts
<1> HIDE DEF r
<1> QED BY <1>2, <1>3, <1>4, <1>5, <1>6, <1>7, BeginIInv DEF Read, r, SlotOps

-----------------------------------------------------------------------------
(* Slots                                                                   *)

\* A request that gives up, or is turned away, releases the lock at most.
LEMMA FinishIInv ==
    ASSUME IInv, NEW p \in Requests, Finish(p),
           UNCHANGED <<bookings, availability, now, revived>>,
           zoom' \in [Bookings -> Time \cup {NoMeeting}], adrift' \subseteq Bookings
    PROVE  IInv'
<1>1. /\ req' \in [Requests -> Request] /\ \A q \in Requests : RequestTyped(req'[q])
      /\ req'[p] = NoRequest
      /\ \A q \in Requests \ {p} : req'[q] = req[q]
  BY FinishOne DEF IInv
<1>2. TypeOK'
  BY <1>1 DEF IInv, TypeOK
<1>3. CopiesFit'
  BY <1>1 DEF IInv, CopiesFit, NoRequest, Absent
<1>4. EndsFollowStarts'
  BY DEF IInv, EndsFollowStarts
<1>5. SlotHeld'
  BY <1>1 DEF IInv, SlotHeld, Active, NoRequest
<1>6. SlotsDisjoint'
  BY DEF IInv, SlotsDisjoint, Clash, Active
<1> QED BY <1>2, <1>3, <1>4, <1>5, <1>6 DEF IInv

\* The check under the lock: what free_slots returns overlaps no active booking.
LEMMA TakeSlotIInv ==
    ASSUME IInv, NEW p \in Requests, TakeSlot(p)
    PROVE  IInv'
<1> DEFINE r == [req[p] EXCEPT !.step = "write"]
<1>0. req[p] \in Request /\ RequestTyped(req[p]) /\ req' = [req EXCEPT ![p] = r]
  BY DEF IInv, TypeOK, TakeSlot
<1>1. /\ r \in Request /\ r.op = req[p].op /\ r.step = "write" /\ r.booking = req[p].booking
      /\ r.seen = req[p].seen /\ r.start = req[p].start /\ r.length = req[p].length
  BY <1>0 DEF Request
<1>2. RequestTyped(r)
  BY <1>0, <1>1 DEF RequestTyped, TakeSlot
<1> HIDE DEF r
<1>3. /\ req' \in [Requests -> Request] /\ \A q \in Requests : RequestTyped(req'[q])
      /\ req'[p] = r
      /\ \A q \in Requests \ {p} : req'[q] = req[q]
  BY <1>0, <1>1, <1>2, OneRequest DEF IInv
<1>4. TypeOK'
  BY <1>3 DEF IInv, TypeOK, TakeSlot
<1>5. CopiesFit'
  BY <1>1, <1>3 DEF IInv, CopiesFit, TakeSlot
<1>6. EndsFollowStarts'
  BY DEF IInv, EndsFollowStarts, TakeSlot
<1>7. SlotHeld'
  <2>1. \A q \in Requests \ {p} : req'[q].step # "write"
    BY <1>3 DEF TakeSlot, ScheduleFree
  <2>2. \A b \in Bookings \ {req[p].booking} : Active(b) =>
           ~Overlaps(req[p].start, req[p].start + req[p].length,
                     bookings[b].start, bookings[b].end)
    BY DEF TakeSlot, free_slots
  <2>3. bookings' = bookings /\ revived' = revived
    BY DEF TakeSlot
  <2> QED BY <1>1, <1>3, <2>1, <2>2, <2>3 DEF SlotHeld, Active
<1>8. SlotsDisjoint'
  BY DEF IInv, SlotsDisjoint, Clash, Active, TakeSlot
<1> QED BY <1>4, <1>5, <1>6, <1>7, <1>8 DEF IInv

\* A booking is written where the slot was found free.  The lock keeps all other
\* writers of slots away, so their claims need no thought.
LEMMA InsertIInv ==
    ASSUME IInv, NEW p \in Requests, NEW b \in Bookings, Insert(p, b)
    PROVE  IInv'
<1> DEFINE row == [status  |-> IF req[p].op = "create" THEN "pending" ELSE "confirmed",
                   start   |-> req[p].start,
                   end     |-> req[p].start + req[p].length,
                   length  |-> req[p].length,
                   meeting |-> FALSE]
<1>1. req[p] \in Request /\ RequestTyped(req[p]) /\ req[p].op \in SlotOps
  BY DEF IInv, TypeOK, Insert, SlotOps
<1>2. row \in Booking
  BY <1>1 DEF RequestTyped, Request, Booking, BookingStatus, ACTIVE_BOOKING_STATUSES
<1>3. /\ row.status # "absent" /\ row.start = req[p].start
      /\ row.end = req[p].start + req[p].length /\ row.length = req[p].length
  OBVIOUS
<1>4. bookings' = [bookings EXCEPT ![b] = row]
  BY DEF Insert
<1> HIDE DEF row
<1>5. /\ req' \in [Requests -> Request] /\ \A q \in Requests : RequestTyped(req'[q])
      /\ req'[p] = NoRequest
      /\ \A q \in Requests \ {p} : req'[q] = req[q]
  BY FinishOne DEF IInv, Insert
<1>6. /\ bookings' \in [Bookings -> Booking] /\ bookings'[b] = row
      /\ \A c \in Bookings \ {b} : bookings'[c] = bookings[c]
  BY <1>2, <1>4 DEF IInv, TypeOK
<1>7. TypeOK'
  BY <1>5, <1>6 DEF IInv, TypeOK, Insert
<1>8. CopiesFit'
  <2>1. \A q \in Requests : req[q].booking # b
    <3>1. bookings[b].status = "absent"
      BY DEF Insert, Absent
    <3> QED BY <3>1 DEF IInv, CopiesFit
  <2> SUFFICES ASSUME NEW q \in Requests
               PROVE  /\ req'[q].seen.end = req'[q].seen.start + req'[q].seen.length
                      /\ req'[q].booking # NoBooking =>
                             /\ bookings'[req'[q].booking].status # "absent"
                             /\ bookings'[req'[q].booking].length = req'[q].seen.length
                      /\ req'[q].op = "reschedule" => req'[q].length = req'[q].seen.length
    BY DEF CopiesFit
  <2>2. CASE q = p
    BY <2>2, <1>5 DEF NoRequest, Absent
  <2>3. CASE q # p
    <3>1. req'[q] = req[q] /\ req[q].booking \in Bookings \cup {NoBooking}
      BY <2>3, <1>5 DEF IInv, TypeOK, Request
    <3>2. req[q].booking # NoBooking => bookings'[req[q].booking] = bookings[req[q].booking]
      BY <2>1, <3>1, <1>6
    <3> QED BY <3>1, <3>2 DEF IInv, CopiesFit
  <2> QED BY <2>2, <2>3
<1>9. EndsFollowStarts'
  BY <1>3, <1>6 DEF IInv, EndsFollowStarts
<1>10. SlotHeld'
  BY <1>5 DEF IInv, SlotHeld, Insert, NoRequest
<1>11. SlotsDisjoint'
  <2>1. req[p].booking = NoBooking /\ req[p].step = "write" /\ revived' = revived
    BY <1>1 DEF RequestTyped, Insert
  <2>2. \A c \in Bookings \ revived : c # b /\ Active(c) =>
           ~Overlaps(row.start, row.end, bookings[c].start, bookings[c].end)
    BY <2>1, <1>3 DEF IInv, SlotHeld
  <2>3. /\ row.start \in Nat /\ row.end \in Nat
        /\ \A c \in Bookings : bookings[c].start \in Nat /\ bookings[c].end \in Nat
    BY <1>2, Typing DEF IInv, TypeOK, Booking
  <2>4. ASSUME NEW c \in Bookings \ revived, NEW d \in Bookings \ revived, c # d
        PROVE  ~Clash(c, d)'
    <3>1. CASE c # b /\ d # b
      BY <3>1, <2>4, <1>6 DEF IInv, SlotsDisjoint, Clash, Active
    <3>2. CASE c = b
      BY <3>2, <2>2, <2>3, <2>4, <1>6 DEF Clash, Active, Overlaps
    <3>3. CASE d = b
      BY <3>3, <2>2, <2>3, <2>4, <1>6 DEF Clash, Active, Overlaps
    <3> QED BY <3>1, <3>2, <3>3
  <2> QED BY <2>1, <2>4 DEF SlotsDisjoint
<1> QED BY <1>7, <1>8, <1>9, <1>10, <1>11 DEF IInv

-----------------------------------------------------------------------------
(* Statuses                                                                *)

\* A handler without the lock changes the status of one booking, never its time.
\* It makes a booking active again only if that is recorded in `revived`.
LEMMA StatusIInv ==
    ASSUME IInv, NEW b \in Bookings, NEW row \in Booking,
           row.start = bookings[b].start, row.end = bookings[b].end,
           row.length = bookings[b].length, row.status # "absent",
           row.status \in ACTIVE_BOOKING_STATUSES => Active(b) \/ b \in revived',
           bookings' = [bookings EXCEPT ![b] = row],
           revived' \in {revived, revived \cup {b}},
           req' = req \/ \E p \in Requests : Finish(p),
           zoom' \in [Bookings -> Time \cup {NoMeeting}], adrift' \subseteq Bookings,
           UNCHANGED <<availability, now>>
    PROVE  IInv'
<1>1. /\ req' \in [Requests -> Request] /\ \A q \in Requests : RequestTyped(req'[q])
      /\ \A q \in Requests : req'[q] = req[q] \/ req'[q] = NoRequest
  <2>1. CASE req' = req
    BY <2>1 DEF IInv, TypeOK
  <2>2. CASE \E p \in Requests : Finish(p)
    <3>1. PICK p \in Requests : Finish(p)
      BY <2>2
    <3> QED BY <3>1, FinishOne DEF IInv
  <2> QED BY <2>1, <2>2
<1>2. /\ bookings' \in [Bookings -> Booking] /\ bookings'[b] = row
      /\ \A c \in Bookings \ {b} : bookings'[c] = bookings[c]
  BY DEF IInv, TypeOK
<1>3. \A c \in Bookings : /\ bookings'[c].start = bookings[c].start
                          /\ bookings'[c].end = bookings[c].end
                          /\ bookings'[c].length = bookings[c].length
                          /\ bookings[c].status # "absent" => bookings'[c].status # "absent"
                          /\ Active(c)' => Active(c) \/ c \in revived'
  BY <1>2 DEF Active
<1>4. TypeOK'
  BY <1>1, <1>2 DEF IInv, TypeOK
<1>5. CopiesFit'
  <2>1. \A q \in Requests : req[q].booking \in Bookings \cup {NoBooking}
    BY DEF IInv, TypeOK, Request
  <2> QED BY <1>1, <1>3, <2>1 DEF IInv, CopiesFit, NoRequest, Absent
<1>6. EndsFollowStarts'
  BY <1>3 DEF IInv, EndsFollowStarts
<1>7. SlotHeld'
  <2> SUFFICES ASSUME NEW p \in Requests, req'[p].step = "write"
               PROVE  /\ \A q \in Requests \ {p} : req'[q].step # "write"
                      /\ \A c \in Bookings \ (revived' \cup {req'[p].booking}) : Active(c)' =>
                             ~Overlaps(req'[p].start, req'[p].start + req'[p].length,
                                       bookings'[c].start, bookings'[c].end)
    BY DEF SlotHeld, Active
  <2>1. req'[p] = req[p]
    BY <1>1 DEF NoRequest
  <2>2. \A q \in Requests \ {p} : req'[q].step # "write"
    BY <1>1, <2>1 DEF IInv, SlotHeld, NoRequest
  <2>3. \A c \in Bookings \ (revived \cup {req[p].booking}) : Active(c) =>
             ~Overlaps(req[p].start, req[p].start + req[p].length,
                       bookings[c].start, bookings[c].end)
    BY <2>1 DEF IInv, SlotHeld
  <2> QED BY <1>3, <2>1, <2>2, <2>3
<1>8. SlotsDisjoint'
  <2> SUFFICES ASSUME NEW c \in Bookings \ revived', NEW d \in Bookings \ revived', c # d
               PROVE  ~Clash(c, d)'
    BY DEF SlotsDisjoint
  <2>1. Active(c)' /\ Active(d)' => Active(c) /\ Active(d)
    BY <1>3
  <2>2. ~Clash(c, d)
    BY DEF IInv, SlotsDisjoint
  <2> QED BY <1>3, <2>1, <2>2 DEF Clash
<1> QED BY <1>4, <1>5, <1>6, <1>7, <1>8 DEF IInv

\* A request's flush that sets only the status: the time stays what the row has.
LEMMA FlushStatus ==
    ASSUME IInv, NEW p \in Requests,
           req[p].op \in Confirmations \cup Closings,
           NEW status \in BookingStatus
    PROVE  LET b   == req[p].booking
               new == [req[p].seen EXCEPT !.status = status]
               row == Flushed(p, new)
           IN  /\ b \in Bookings
               /\ new \in Booking /\ row \in Booking
               /\ row.start = bookings[b].start /\ row.end = bookings[b].end
               /\ row.length = bookings[b].length /\ row.status # "absent"
               /\ row.status \in {bookings[b].status, status}
<1> DEFINE b   == req[p].booking
           new == [req[p].seen EXCEPT !.status = status]
           row == Flushed(p, new)
<1>1. req[p] \in Request /\ RequestTyped(req[p])
  BY DEF IInv, TypeOK
<1>2. b \in Bookings /\ req[p].seen \in Booking
  BY <1>1 DEF RequestTyped, Request
<1>3. bookings[b] \in Booking /\ bookings[b].status # "absent"
  BY <1>2, BookingAssumption DEF IInv, TypeOK, CopiesFit
<1>4. /\ new \in Booking /\ new.status = status /\ new.start = req[p].seen.start
      /\ new.end = req[p].seen.end /\ new.length = req[p].seen.length
  BY <1>2 DEF Booking
<1>5. status # "absent"
  BY DEF BookingStatus, ACTIVE_BOOKING_STATUSES
<1> HIDE DEF new
<1>6. row = Flush(bookings[b], req[p].seen, new)
  BY DEF Flushed
<1> HIDE DEF row
<1>7. /\ row \in Booking
      /\ row.start = bookings[b].start /\ row.end = bookings[b].end
      /\ row.length = bookings[b].length
      /\ row.status \in {bookings[b].status, status}
  BY <1>2, <1>3, <1>4, <1>6, FlushBooking
<1> USE DEF new, row
<1> QED BY <1>2, <1>3, <1>4, <1>5, <1>7

\* A booking that is closed gives up its time, so that nothing comes to overlap.
LEMMA CloseIInv ==
    ASSUME IInv, NEW p \in Requests, Close(p)
    PROVE  IInv'
<1> DEFINE b   == req[p].booking
           new == [req[p].seen EXCEPT !.status = StatusAfter(req[p].op)]
           row == Flushed(p, new)
<1>1. StatusAfter(req[p].op) \in BookingStatus \ ACTIVE_BOOKING_STATUSES
  BY DEF Close, Closings, StatusAfter, BookingStatus, ACTIVE_BOOKING_STATUSES
<1>2. /\ b \in Bookings /\ row \in Booking
      /\ row.start = bookings[b].start /\ row.end = bookings[b].end
      /\ row.length = bookings[b].length /\ row.status # "absent"
      /\ row.status \in {bookings[b].status, StatusAfter(req[p].op)}
  BY <1>1, FlushStatus DEF Close
<1>3. \E r \in {row, [row EXCEPT !.meeting = FALSE]} :
         bookings' = [bookings EXCEPT ![b] = r]
  BY DEF Close
<1>4. /\ zoom' \in [Bookings -> Time \cup {NoMeeting}] /\ adrift' = adrift
      /\ revived' = revived /\ availability' = availability /\ now' = now /\ Finish(p)
  BY <1>2 DEF Close, IInv, TypeOK
<1> HIDE DEF row
<1>5. PICK r \in {row, [row EXCEPT !.meeting = FALSE]} :
         bookings' = [bookings EXCEPT ![b] = r]
  BY <1>3
<1>6. /\ r \in Booking
      /\ r.start = bookings[b].start /\ r.end = bookings[b].end
      /\ r.length = bookings[b].length /\ r.status # "absent"
      /\ r.status \in ACTIVE_BOOKING_STATUSES => Active(b)
  BY <1>1, <1>2 DEF Booking, Active
<1>7. adrift' \subseteq Bookings
  BY <1>4 DEF IInv, TypeOK
<1> HIDE DEF b
<1> QED BY <1>2, <1>4, <1>5, <1>6, <1>7, StatusIInv

\* A confirmation takes no new time unless it revives a booking, which is recorded.
LEMMA ConfirmIInv ==
    ASSUME IInv, NEW p \in Requests, Confirm(p)
    PROVE  IInv'
<1> DEFINE b    == req[p].booking
           new  == [req[p].seen EXCEPT !.status = "confirmed"]
           row  == Flushed(p, new)
           copy == Copy(p, new, req[p].op = "accept")
<1>1. "confirmed" \in BookingStatus
  BY DEF BookingStatus, ACTIVE_BOOKING_STATUSES
<1>2. /\ b \in Bookings /\ new \in Booking /\ row \in Booking
      /\ row.start = bookings[b].start /\ row.end = bookings[b].end
      /\ row.length = bookings[b].length /\ row.status # "absent"
  BY <1>1, FlushStatus DEF Confirm
<1>3. copy \in Booking
  BY <1>2 DEF Copy
<1>4. \E r \in {row, [row EXCEPT !.meeting = TRUE]} :
         bookings' = [bookings EXCEPT ![b] = r]
  BY DEF Confirm
<1>5. /\ zoom' = zoom \/ zoom' = [zoom EXCEPT ![b] = copy.start]
      /\ adrift' \in {adrift, adrift \ {b}, adrift \cup {b}}
  BY DEF Confirm
<1>6. /\ revived' = IF Active(b) THEN revived ELSE revived \cup {b}
      /\ availability' = availability /\ now' = now /\ Finish(p)
  BY DEF Confirm
<1> HIDE DEF row, copy, new
<1>7. PICK r \in {row, [row EXCEPT !.meeting = TRUE]} :
         bookings' = [bookings EXCEPT ![b] = r]
  BY <1>4
<1>8. /\ r \in Booking
      /\ r.start = bookings[b].start /\ r.end = bookings[b].end
      /\ r.length = bookings[b].length /\ r.status # "absent"
  BY <1>2 DEF Booking
<1>9. zoom' \in [Bookings -> Time \cup {NoMeeting}] /\ adrift' \subseteq Bookings
  <2>1. copy.start \in Time
    BY <1>3 DEF Booking
  <2> QED BY <1>2, <1>5, <2>1 DEF IInv, TypeOK
<1>10. revived' \in {revived, revived \cup {b}} /\ (Active(b) \/ b \in revived')
  BY <1>6
<1> HIDE DEF b
<1> QED BY <1>2, <1>6, <1>7, <1>8, <1>9, <1>10, StatusIInv

\* The sweep only closes bookings.
LEMMA ExpireIInv ==
    ASSUME IInv, NEW b \in Bookings, Expire(b)
    PROVE  IInv'
<1> DEFINE r == [bookings[b] EXCEPT !.status = "cancelled", !.meeting = FALSE]
<1>1. bookings[b] \in Booking
  BY DEF IInv, TypeOK
<1>2. /\ r \in Booking /\ r.status = "cancelled"
      /\ r.start = bookings[b].start /\ r.end = bookings[b].end
      /\ r.length = bookings[b].length
  BY <1>1 DEF Booking, BookingStatus
<1>3. bookings' = [bookings EXCEPT ![b] = r]
  BY DEF Expire
<1>4. r.status \notin ACTIVE_BOOKING_STATUSES /\ r.status # "absent"
  BY <1>2 DEF ACTIVE_BOOKING_STATUSES
<1>5. /\ req' = req /\ revived' = revived /\ availability' = availability /\ now' = now
      /\ zoom' \in [Bookings -> Time \cup {NoMeeting}] /\ adrift' \subseteq Bookings
  BY DEF Expire, IInv, TypeOK
<1> HIDE DEF r
<1> QED BY <1>2, <1>3, <1>4, <1>5, StatusIInv

-----------------------------------------------------------------------------
(* reschedule                                                              *)

\* The new start and the new end are written together or, when the time asked for
\* is the one that was read, not at all.
LEMMA FlushMove ==
    ASSUME IInv, NEW p \in Requests,
           req[p].op = "reschedule"
    PROVE  LET b   == req[p].booking
               row == Flushed(p, Rescheduled(p))
           IN  /\ b \in Bookings /\ row \in Booking
               /\ row.status = bookings[b].status /\ row.length = bookings[b].length
               /\ \/ row.start = bookings[b].start /\ row.end = bookings[b].end
                  \/ row.start = req[p].start /\ row.end = req[p].start + req[p].length
               /\ req[p].length = bookings[b].length
<1> DEFINE b   == req[p].booking
           new == Rescheduled(p)
           row == Flushed(p, new)
<1>1. req[p] \in Request /\ RequestTyped(req[p])
  BY DEF IInv, TypeOK
<1>2. b \in Bookings /\ req[p].seen \in Booking
  BY <1>1 DEF RequestTyped, Request
<1>3. /\ bookings[b] \in Booking
      /\ req[p].seen.end = req[p].seen.start + req[p].seen.length
      /\ bookings[b].length = req[p].seen.length
      /\ req[p].length = req[p].seen.length
  BY <1>2, BookingAssumption DEF IInv, TypeOK, CopiesFit
<1>4. req[p].start \in Time /\ req[p].start + req[p].length \in Time
  BY <1>1 DEF RequestTyped, Request, SlotOps
<1>5. /\ new \in Booking /\ new.status = req[p].seen.status /\ new.start = req[p].start
      /\ new.end = req[p].start + req[p].length /\ new.length = req[p].seen.length
  BY <1>2, <1>4 DEF Booking, Rescheduled
<1> HIDE DEF new
<1>6. row = Flush(bookings[b], req[p].seen, new)
  BY DEF Flushed
<1> HIDE DEF row
<1>7. /\ row \in Booking
      /\ row.status = bookings[b].status /\ row.length = bookings[b].length
      /\ row.start = IF new.start = req[p].seen.start THEN bookings[b].start ELSE new.start
      /\ row.end = IF new.end = req[p].seen.end THEN bookings[b].end ELSE new.end
  BY <1>2, <1>3, <1>5, <1>6, FlushBooking
<1>8. new.start = req[p].seen.start <=> new.end = req[p].seen.end
  <2>1. /\ req[p].start \in Nat /\ req[p].seen.start \in Nat /\ req[p].length \in Nat
    BY <1>1, <1>2, <1>4, Typing DEF Request, Booking
  <2> QED BY <1>3, <1>5, <2>1
<1>9. \/ row.start = bookings[b].start /\ row.end = bookings[b].end
      \/ row.start = req[p].start /\ row.end = req[p].start + req[p].length
  BY <1>5, <1>7, <1>8
<1> USE DEF new, row
<1> QED BY <1>2, <1>3, <1>7, <1>9

\* A reschedule that holds the advisor's lock moves a booking to a time still free.
LEMMA MoveIInv ==
    ASSUME IInv, NEW p \in Requests, Move(p)
    PROVE  IInv'
<1> DEFINE b   == req[p].booking
           row == Flushed(p, Rescheduled(p))
<1>1. /\ b \in Bookings /\ row \in Booking
      /\ row.status = bookings[b].status /\ row.length = bookings[b].length
      /\ \/ row.start = bookings[b].start /\ row.end = bookings[b].end
         \/ row.start = req[p].start /\ row.end = req[p].start + req[p].length
      /\ req[p].length = bookings[b].length
  BY FlushMove DEF Move
<1>2. bookings' = [bookings EXCEPT ![b] = row]
  BY DEF Move
<1>3. \E synced \in BOOLEAN : SyncMeeting(b, row, synced)
  BY DEF Move
<1>4. /\ Finish(p) /\ availability' = availability /\ now' = now /\ revived' = revived
      /\ req[p].op = "reschedule" /\ req[p].step = "write"
  BY DEF Move
<1> HIDE DEF row
<1>5. /\ req' \in [Requests -> Request] /\ \A q \in Requests : RequestTyped(req'[q])
      /\ req'[p] = NoRequest
      /\ \A q \in Requests \ {p} : req'[q] = req[q]
  BY <1>4, FinishOne DEF IInv
<1>6. /\ bookings' \in [Bookings -> Booking] /\ bookings'[b] = row
      /\ \A c \in Bookings \ {b} : bookings'[c] = bookings[c]
  BY <1>1, <1>2 DEF IInv, TypeOK
<1>7. TypeOK'
  <2>1. row.start \in Time
    BY <1>1 DEF Booking
  <2>2. zoom' \in [Bookings -> Time \cup {NoMeeting}] /\ adrift' \subseteq Bookings
    BY <1>1, <1>3, <2>1 DEF IInv, TypeOK, SyncMeeting
  <2> QED BY <1>4, <1>5, <1>6, <2>2 DEF IInv, TypeOK
<1>8. CopiesFit'
  <2>1. \A c \in Bookings : /\ bookings'[c].length = bookings[c].length
                            /\ bookings'[c].status = bookings[c].status
    BY <1>1, <1>6
  <2>2. \A q \in Requests : req[q].booking \in Bookings \cup {NoBooking}
    BY DEF IInv, TypeOK, Request
  <2>3. \A q \in Requests : req'[q] = req[q] \/ req'[q] = NoRequest
    BY <1>5
  <2> QED BY <2>1, <2>2, <2>3 DEF IInv, CopiesFit, NoRequest, Absent
<1>9. EndsFollowStarts'
  BY <1>1, <1>6 DEF IInv, EndsFollowStarts
<1>10. SlotHeld'
  BY <1>4, <1>5 DEF IInv, SlotHeld, NoRequest
<1>11. SlotsDisjoint'
  <2>1. \A c \in Bookings \ revived : c # b /\ Active(c) =>
           ~Overlaps(req[p].start, req[p].start + req[p].length,
                     bookings[c].start, bookings[c].end)
    BY <1>4 DEF IInv, SlotHeld
  <2>2. \A c \in Bookings \ revived : b \notin revived /\ c # b /\ Active(b) /\ Active(c) =>
           ~Overlaps(bookings[b].start, bookings[b].end, bookings[c].start, bookings[c].end)
    BY <1>1 DEF IInv, SlotsDisjoint, Clash
  <2>3. \A c \in Bookings \ revived : b \notin revived /\ c # b /\ Active(b) /\ Active(c) =>
           ~Overlaps(row.start, row.end, bookings[c].start, bookings[c].end)
    BY <1>1, <2>1, <2>2
  <2>4. /\ row.start \in Nat /\ row.end \in Nat
        /\ \A c \in Bookings : bookings[c].start \in Nat /\ bookings[c].end \in Nat
    BY <1>1, Typing DEF IInv, TypeOK, Booking
  <2>5. bookings'[b].status \in ACTIVE_BOOKING_STATUSES <=> Active(b)
    BY <1>1, <1>6 DEF Active
  <2>7. ASSUME NEW c \in Bookings \ revived, NEW d \in Bookings \ revived, c # d
        PROVE  ~Clash(c, d)'
    <3>1. CASE c # b /\ d # b
      BY <3>1, <2>7, <1>6 DEF IInv, SlotsDisjoint, Clash, Active
    <3>2. CASE c = b
      BY <3>2, <2>3, <2>4, <2>5, <2>7, <1>6 DEF Clash, Active, Overlaps
    <3>3. CASE d = b
      BY <3>3, <2>3, <2>4, <2>5, <2>7, <1>6 DEF Clash, Active, Overlaps
    <3> QED BY <3>1, <3>2, <3>3
  <2> QED BY <1>4, <2>7 DEF SlotsDisjoint
<1> QED BY <1>7, <1>8, <1>9, <1>10, <1>11 DEF IInv

\* A request that rolls back leaves no trace but its lock, which it gives up.
LEMMA RollBackIInv ==
    ASSUME IInv, NEW p \in Requests, RollBack(p)
    PROVE  IInv'
<1>1. CASE UNCHANGED <<zoom, adrift>>
  BY <1>1, FinishIInv DEF RollBack, IInv, TypeOK
<1>2. CASE ~UNCHANGED <<zoom, adrift>>
  <2>1. /\ req[p].op = "reschedule"
        /\ zoom' = [zoom EXCEPT ![req[p].booking] = Flushed(p, Rescheduled(p)).start]
        /\ adrift' = adrift \cup {req[p].booking}
    BY <1>2 DEF RollBack
  <2>2. req[p].booking \in Bookings /\ Flushed(p, Rescheduled(p)).start \in Time
    BY <2>1, FlushMove DEF Booking
  <2>3. zoom' \in [Bookings -> Time \cup {NoMeeting}] /\ adrift' \subseteq Bookings
    BY <2>1, <2>2 DEF IInv, TypeOK
  <2> QED BY <2>3, FinishIInv DEF RollBack
<1> QED BY <1>1, <1>2

-----------------------------------------------------------------------------
(* Every step preserves the invariant                                      *)

\* A new schedule moves no booking.
LEMMA SetAvailabilityIInv ==
    ASSUME IInv, SetAvailability PROVE IInv'
BY DEF SetAvailability, IInv, TypeOK, CopiesFit, EndsFollowStarts, SlotHeld, SlotsDisjoint,
       Clash, Active

\* The passing of time moves no booking.
LEMMA TickIInv ==
    ASSUME IInv, Tick PROVE IInv'
<1>1. now' \in Time
  BY DEF Tick, IInv, TypeOK, Time
<1> QED BY <1>1 DEF Tick, IInv, TypeOK, CopiesFit, EndsFollowStarts, SlotHeld, SlotsDisjoint,
                    Clash, Active

\* Nothing happening keeps the invariant.
LEMMA StutterIInv ==
    ASSUME IInv, UNCHANGED vars PROVE IInv'
BY DEF vars, IInv, TypeOK, CopiesFit, EndsFollowStarts, SlotHeld, SlotsDisjoint, Clash, Active

\* Every step keeps the inductive invariant: one case for each action.
LEMMA NextIInv == IInv /\ [Next]_vars => IInv'
<1> SUFFICES ASSUME IInv, [Next]_vars PROVE IInv'
  OBVIOUS
<1>1. ASSUME NEW p \in Requests, Call(p) PROVE IInv'
  <2>1. CASE \E op \in Creations, start \in Time, length \in Durations :
               Create(p, op, start, length)
    BY <2>1, CreateIInv
  <2>2. CASE \E b \in Bookings, start \in Time : Reschedule(p, b, start)
    BY <2>2, RescheduleIInv
  <2>3. CASE \E b \in Bookings, op \in Closings \cup Confirmations : Read(p, op, b)
    BY <2>3, ReadIInv
  <2> QED BY <1>1, <2>1, <2>2, <2>3 DEF Call
<1>2. ASSUME NEW p \in Requests, Advance(p) PROVE IInv'
  <2>1. CASE TakeSlot(p)
    BY <2>1, TakeSlotIInv
  <2>2. CASE SlotUnavailable(p)
    BY <2>2, FinishIInv DEF SlotUnavailable, IInv, TypeOK
  <2>3. CASE \E b \in Bookings : Insert(p, b)
    BY <2>3, InsertIInv
  <2>4. CASE Move(p)
    BY <2>4, MoveIInv
  <2>5. CASE Close(p)
    BY <2>5, CloseIInv
  <2>6. CASE Confirm(p)
    BY <2>6, ConfirmIInv
  <2>7. CASE RollBack(p)
    BY <2>7, RollBackIInv
  <2> QED BY <1>2, <2>1, <2>2, <2>3, <2>4, <2>5, <2>6, <2>7 DEF Advance
<1>3. ASSUME NEW b \in Bookings, Expire(b) PROVE IInv'
  BY <1>3, ExpireIInv
<1> QED BY <1>1, <1>2, <1>3, SetAvailabilityIInv, TickIInv, StutterIInv DEF Next

\* The inductive invariant always holds.
LEMMA Inductive == Spec => []IInv
BY InitIInv, NextIInv, PTL DEF Spec

\* Types are respected; in particular no session is ever placed outside the calendar.
THEOREM TypeCorrect == Spec => []TypeOK
<1>1. IInv => TypeOK
  BY DEF IInv
<1> QED BY <1>1, Inductive, PTL

\* However requests to move a booking overlap, its end stays its start plus its duration.
THEOREM DurationKept == Spec => []EndsFollowStarts
<1>1. IInv => EndsFollowStarts
  BY DEF IInv
<1> QED BY <1>1, Inductive, PTL

\* The lock on the advisor's profile protects the time that was found free until it
\* is written, though most handlers do not take it.
THEOREM LockProtects == Spec => []SlotHeld
<1>1. IInv => SlotHeld
  BY DEF IInv
<1> QED BY <1>1, Inductive, PTL

\* The advisor is never booked twice for the same time, but for the bookings a stale
\* confirmation brought back.
THEOREM NoDoubleBooking == Spec => []SlotsDisjoint
<1>1. IInv => SlotsDisjoint
  BY DEF IInv
<1> QED BY <1>1, Inductive, PTL

-----------------------------------------------------------------------------
(* Meetings                                                                *)

\* There are no meetings before there are bookings.
LEMMA InitMeeting == Init => MeetingAtStart
BY DEF Init, MeetingAtStart, Absent

\* Handlers that leave the time and the meeting of every booking alone.
LEMMA SameMeetings ==
    ASSUME MeetingAtStart, UNCHANGED <<zoom, adrift>>,
           \A b \in Bookings : bookings'[b].meeting =>
               bookings[b].meeting /\ bookings'[b].start = bookings[b].start
    PROVE  MeetingAtStart'
BY DEF MeetingAtStart

\* A reschedule moves the meeting with the booking, or the drift is recorded.
LEMMA MoveMeeting ==
    ASSUME IInv, MeetingAtStart, NEW p \in Requests, Move(p)
    PROVE  MeetingAtStart'
<1> DEFINE b   == req[p].booking
           row == Flushed(p, Rescheduled(p))
<1>1. b \in Bookings
  BY FlushMove DEF Move
<1>2. PICK synced \in BOOLEAN : SyncMeeting(b, row, synced)
  BY DEF Move
<1>3. bookings' = [bookings EXCEPT ![b] = row]
  BY DEF Move
<1> HIDE DEF row, b
<1>4. bookings'[b] = row /\ \A c \in Bookings \ {b} : bookings'[c] = bookings[c]
  BY <1>1, <1>3 DEF IInv, TypeOK
<1>5. \A c \in Bookings \ {b} : zoom'[c] = zoom[c] /\ (c \in adrift' <=> c \in adrift)
  BY <1>1, <1>2 DEF IInv, TypeOK, SyncMeeting
<1>6. row.meeting => b \in adrift' \/ zoom'[b] = row.start
  BY <1>1, <1>2 DEF IInv, TypeOK, SyncMeeting
<1> QED BY <1>1, <1>4, <1>5, <1>6 DEF MeetingAtStart

\* A request that rolls back after it moved the meeting is recorded as drift.
LEMMA RollBackMeeting ==
    ASSUME IInv, MeetingAtStart, NEW p \in Requests, RollBack(p)
    PROVE  MeetingAtStart'
<1>1. CASE UNCHANGED <<zoom, adrift>>
  BY <1>1 DEF RollBack, MeetingAtStart
<1>2. CASE ~UNCHANGED <<zoom, adrift>>
  <2> DEFINE b == req[p].booking
             start == Flushed(p, Rescheduled(p)).start
  <2>1. bookings' = bookings /\ zoom' = [zoom EXCEPT ![b] = start] /\ adrift' = adrift \cup {b}
    BY <1>2 DEF RollBack
  <2> HIDE DEF b, start
  <2> QED BY <2>1 DEF IInv, TypeOK, MeetingAtStart
<1> QED BY <1>1, <1>2

\* Closing a booking removes its meeting, or leaves it where it was.
LEMMA CloseMeeting ==
    ASSUME IInv, MeetingAtStart, NEW p \in Requests, Close(p)
    PROVE  MeetingAtStart'
<1> DEFINE b   == req[p].booking
           new == [req[p].seen EXCEPT !.status = StatusAfter(req[p].op)]
           row == Flushed(p, new)
<1>1. StatusAfter(req[p].op) \in BookingStatus
  BY DEF Close, Closings, StatusAfter, BookingStatus, ACTIVE_BOOKING_STATUSES
<1>2. b \in Bookings /\ row \in Booking /\ row.start = bookings[b].start
  BY <1>1, FlushStatus DEF Close
<1>3. row.meeting = bookings[b].meeting
  <2>1. req[p].seen \in Booking /\ bookings[b] \in Booking
    BY <1>2 DEF IInv, TypeOK, Request
  <2>2. new \in Booking /\ new.meeting = req[p].seen.meeting
    BY <1>1, <2>1 DEF Booking
  <2> HIDE DEF new
  <2> QED BY <2>1, <2>2, FlushBooking DEF Flushed
<1>4. /\ adrift' = adrift
      /\ \/ bookings' = [bookings EXCEPT ![b] = row] /\ zoom' = zoom
         \/ /\ bookings' = [bookings EXCEPT ![b] = [row EXCEPT !.meeting = FALSE]]
            /\ zoom' = [zoom EXCEPT ![b] = NoMeeting]
  BY DEF Close
<1> HIDE DEF b, row
<1>5. CASE bookings' = [bookings EXCEPT ![b] = row] /\ zoom' = zoom
  BY <1>2, <1>3, <1>4, <1>5, SameMeetings DEF IInv, TypeOK
<1>6. CASE /\ bookings' = [bookings EXCEPT ![b] = [row EXCEPT !.meeting = FALSE]]
           /\ zoom' = [zoom EXCEPT ![b] = NoMeeting]
  <2>1. ~bookings'[b].meeting /\ \A c \in Bookings \ {b} : bookings'[c] = bookings[c]
    BY <1>2, <1>6 DEF IInv, TypeOK, Booking
  <2>2. \A c \in Bookings \ {b} : zoom'[c] = zoom[c]
    BY <1>6 DEF IInv, TypeOK
  <2> QED BY <1>2, <1>4, <2>1, <2>2 DEF MeetingAtStart
<1> QED BY <1>4, <1>5, <1>6

\* A meeting made for a booking starts when the copy it was made from does.
LEMMA ConfirmMeeting ==
    ASSUME IInv, MeetingAtStart, NEW p \in Requests, Confirm(p)
    PROVE  MeetingAtStart'
<1> DEFINE b    == req[p].booking
           new  == [req[p].seen EXCEPT !.status = "confirmed"]
           row  == Flushed(p, new)
           copy == Copy(p, new, req[p].op = "accept")
<1>1. "confirmed" \in BookingStatus
  BY DEF BookingStatus, ACTIVE_BOOKING_STATUSES
<1>2. b \in Bookings /\ row \in Booking /\ row.start = bookings[b].start
  BY <1>1, FlushStatus DEF Confirm
<1>3. row.meeting = bookings[b].meeting
  <2>1. req[p].seen \in Booking /\ bookings[b] \in Booking
    BY <1>2 DEF IInv, TypeOK, Request
  <2>2. new \in Booking /\ new.meeting = req[p].seen.meeting
    BY <1>1, <2>1 DEF Booking
  <2> HIDE DEF new
  <2> QED BY <2>1, <2>2, FlushBooking DEF Flushed
<1>4. \/ bookings' = [bookings EXCEPT ![b] = row] /\ UNCHANGED <<zoom, adrift>>
      \/ /\ bookings' = [bookings EXCEPT ![b] = [row EXCEPT !.meeting = TRUE]]
         /\ zoom' = [zoom EXCEPT ![b] = copy.start]
         /\ adrift' = IF copy = row THEN adrift \ {b} ELSE adrift \cup {b}
  BY DEF Confirm
<1> HIDE DEF b, row, copy
<1>5. CASE bookings' = [bookings EXCEPT ![b] = row] /\ UNCHANGED <<zoom, adrift>>
  BY <1>2, <1>3, <1>5, SameMeetings DEF IInv, TypeOK
<1>6. CASE /\ bookings' = [bookings EXCEPT ![b] = [row EXCEPT !.meeting = TRUE]]
           /\ zoom' = [zoom EXCEPT ![b] = copy.start]
           /\ adrift' = IF copy = row THEN adrift \ {b} ELSE adrift \cup {b}
  <2>1. bookings'[b].start = row.start /\ \A c \in Bookings \ {b} : bookings'[c] = bookings[c]
    BY <1>2, <1>6 DEF IInv, TypeOK, Booking
  <2>2. zoom'[b] = copy.start /\ \A c \in Bookings \ {b} : zoom'[c] = zoom[c]
    BY <1>2, <1>6 DEF IInv, TypeOK
  <2>3. b \notin adrift' => copy = row
    BY <1>6
  <2>4. \A c \in Bookings \ {b} : c \in adrift' <=> c \in adrift
    BY <1>6
  <2> QED BY <1>2, <2>1, <2>2, <2>3, <2>4 DEF MeetingAtStart
<1> QED BY <1>4, <1>5, <1>6

\* Every step keeps meetings at the start of their bookings.
LEMMA NextMeeting == IInv /\ MeetingAtStart /\ [Next]_vars => MeetingAtStart'
<1> SUFFICES ASSUME IInv, MeetingAtStart, [Next]_vars PROVE MeetingAtStart'
  OBVIOUS
<1>1. ASSUME UNCHANGED <<bookings, zoom, adrift>> PROVE MeetingAtStart'
  BY <1>1 DEF MeetingAtStart
<1>2. ASSUME NEW p \in Requests, Call(p) PROVE MeetingAtStart'
  BY <1>1, <1>2 DEF Call, Create, Reschedule, Read
<1>3. ASSUME NEW p \in Requests, NEW b \in Bookings, Insert(p, b) PROVE MeetingAtStart'
  <2>1. /\ bookings'[b].meeting = FALSE
        /\ \A c \in Bookings \ {b} : bookings'[c] = bookings[c]
        /\ UNCHANGED <<zoom, adrift>>
    BY <1>3 DEF Insert, IInv, TypeOK
  <2> QED BY <2>1, SameMeetings
<1>4. ASSUME NEW b \in Bookings, Expire(b) PROVE MeetingAtStart'
  <2>1. /\ bookings'[b].meeting = FALSE
        /\ \A c \in Bookings \ {b} : bookings'[c] = bookings[c]
        /\ UNCHANGED <<zoom, adrift>>
    BY <1>4 DEF Expire, IInv, TypeOK, Booking
  <2> QED BY <2>1, SameMeetings
<1>5. ASSUME NEW p \in Requests, Advance(p) PROVE MeetingAtStart'
  <2>1. CASE TakeSlot(p) \/ SlotUnavailable(p)
    BY <2>1, <1>1 DEF TakeSlot, SlotUnavailable
  <2> QED BY <1>3, <1>5, <2>1, MoveMeeting, CloseMeeting, ConfirmMeeting, RollBackMeeting
          DEF Advance
<1>6. ASSUME SetAvailability \/ Tick \/ UNCHANGED vars PROVE MeetingAtStart'
  BY <1>1, <1>6 DEF SetAvailability, Tick, vars
<1> QED BY <1>2, <1>4, <1>5, <1>6 DEF Next

\* Every meeting follows its booking, but for those that were set up from an outdated
\* copy or that Zoom did not move along.
THEOREM MeetingsFollow == Spec => []MeetingAtStart
BY Inductive, InitMeeting, NextMeeting, PTL DEF Spec
=============================================================================
