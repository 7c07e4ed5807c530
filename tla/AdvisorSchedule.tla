-------------------------- MODULE AdvisorSchedule --------------------------
(* The calendar of one advisor: the bookings that occupy it, the weekly     *)
(* availability they are cut from, and the Zoom meetings that go with them. *)
(*                                                                          *)
(* create, create_by_advisor and reschedule lock the advisor's profile row, *)
(* look for the time among free_slots and write under that lock.  All other *)
(* handlers change the status of a booking they have read without a lock.   *)
(* Who may confirm or close a booking for what payment is the business of   *)
(* BookingPayment: here a handler is only kept to the statuses it demands.  *)
EXTENDS Integers, UnitOfWork

CONSTANTS
    Bookings,   \* bookings of the advisor
    NoBooking,  \* the booking of a request that has none yet
    NoMeeting,  \* at Zoom: no meeting is scheduled
    Requests,   \* requests that may be in progress at once
    Horizon,    \* bound: the calendar runs from 0 to Horizon
    LastTick,   \* bound: the clock stops there
    Durations,  \* durations of the services on offer, in the same unit
    Schedules,  \* what the advisor may publish: windows to book in, blocked times
    Ops         \* the operations this instance performs

Time     == 0 .. Horizon
Interval == {i \in Time \X Time : i[1] < i[2]}

ASSUME BookingAssumption  == NoBooking \notin Bookings
ASSUME MeetingAssumption  == NoMeeting \notin Time
ASSUME HorizonAssumption  == Horizon \in Nat /\ LastTick \in 0 .. Horizon
ASSUME DurationAssumption == Durations \subseteq Nat \ {0}
ASSUME ScheduleAssumption ==
    Schedules \subseteq [windows : SUBSET Interval, blocked : SUBSET Interval]

VARIABLES
    bookings,     \* the bookings rows
    availability, \* weekly slots and overrides, as the times they stand for
    req,          \* what each request in progress has read
    zoom,         \* Zoom: when the meeting a booking links to starts
    now,          \* the clock
    revived,      \* history: bookings confirmed after they had been called off
    adrift        \* history: bookings whose meeting was last set from an outdated
                  \* copy, or moved without them, or they without it

vars == <<bookings, availability, req, zoom, now, revived, adrift>>

-----------------------------------------------------------------------------
ACTIVE_BOOKING_STATUSES == {"pending", "confirmed"}
BookingStatus == ACTIVE_BOOKING_STATUSES \cup {"cancelled", "rejected", "completed", "no_show"}

\* A row that is not there yet has status "absent".
Booking == [status : BookingStatus \cup {"absent"}, start : Time, end : Time,
            length : Durations \cup {0}, meeting : BOOLEAN]

Absent == [status |-> "absent", start |-> 0, end |-> 0, length |-> 0, meeting |-> FALSE]

Creations     == {"create", "create_by_advisor"}
Confirmations == {"accept", "completed"}
Closings      == {"cancel", "reject", "expired", "complete", "no_show"}
SlotOps       == Creations \cup {"reschedule"}
Op == SlotOps \cup Confirmations \cup Closings \cup {"idle"}

Request == [op : Op, step : {"idle", "lock", "write"}, booking : Bookings \cup {NoBooking},
            seen : Booking, start : Time, length : Durations \cup {0}]

NoRequest == [op |-> "idle", step |-> "idle", booking |-> NoBooking, seen |-> Absent,
              start |-> 0, length |-> 0]

\* What types leave open about a request: only those that need a slot take the
\* lock, and all others are about a booking that is there.
RequestTyped(r) ==
    /\ r.op \in SlotOps => r.start + r.length \in Time
    /\ r.step # "idle" => r.op \in SlotOps
    /\ r.op \in Confirmations \cup Closings \cup {"reschedule"} => r.booking # NoBooking
    /\ r.op \in Creations \cup {"idle"} => r.booking = NoBooking

TypeOK ==
    /\ bookings \in [Bookings -> Booking]
    /\ availability \in Schedules
    /\ req \in [Requests -> Request] /\ \A p \in Requests : RequestTyped(req[p])
    /\ zoom \in [Bookings -> Time \cup {NoMeeting}]
    /\ now \in Time
    /\ revived \subseteq Bookings
    /\ adrift \subseteq Bookings

Init ==
    /\ bookings = [b \in Bookings |-> Absent]
    /\ availability \in Schedules
    /\ req = [p \in Requests |-> NoRequest]
    /\ zoom = [b \in Bookings |-> NoMeeting]
    /\ now = 0
    /\ revived = {}
    /\ adrift = {}

-----------------------------------------------------------------------------
(* free_slots                                                              *)

Active(b) == bookings[b].status \in ACTIVE_BOOKING_STATUSES

Overlaps(aStart, aEnd, bStart, bEnd) == aStart < bEnd /\ bStart < aEnd

\* Windows are cut into slots of the given length, from their start on.
cut(start, length) ==
    \E w \in availability.windows :
        w[1] <= start /\ start + length <= w[2] /\ (start - w[1]) % length = 0

\* Mutation: only confirmed bookings are taken to occupy their time.
free_slots_of_confirmed(length, own) ==
    {start \in Time :
        /\ cut(start, length)
        /\ \A i \in availability.blocked : ~Overlaps(start, start + length, i[1], i[2])
        /\ \A b \in Bookings \ {own} : bookings[b].status = "confirmed" =>
               ~Overlaps(start, start + length, bookings[b].start, bookings[b].end)}

\* Starts at which the advisor is free, not counting the booking `own`.
free_slots(length, own) ==
    {start \in Time :
        /\ cut(start, length)
        /\ \A i \in availability.blocked : ~Overlaps(start, start + length, i[1], i[2])
        /\ \A b \in Bookings \ {own} : Active(b) =>
               ~Overlaps(start, start + length, bookings[b].start, bookings[b].end)}

-----------------------------------------------------------------------------
(* create, create_by_advisor, reschedule                                   *)

Idle(p)   == req[p].op = "idle"
Begin(p, r) == Idle(p) /\ r.op \in Ops /\ req' = [req EXCEPT ![p] = r]
Finish(p) == req' = [req EXCEPT ![p] = NoRequest]

\* The advisor's profile row is locked from the check until the commit.
ScheduleFree(p) == \A q \in Requests \ {p} : req[q].step # "write"

\* The time asked for has to be in the future when the call comes in.
\* Bound: times at which the session would not end by Horizon are not asked for.
Create(p, op, start, length) ==
    /\ start > now
    /\ start + length \in Time
    /\ Begin(p, [NoRequest EXCEPT !.op = op, !.step = "lock",
                                  !.start = start, !.length = length])
    /\ UNCHANGED <<bookings, availability, zoom, now, revived, adrift>>

\* The seeker's notice window only narrows what the advisor may do at any time.
Reschedule(p, b, start) ==
    /\ Active(b)
    /\ start > now
    /\ start + bookings[b].length \in Time
    /\ Begin(p, [op |-> "reschedule", step |-> "lock", booking |-> b, seen |-> bookings[b],
                 start |-> start, length |-> bookings[b].length])
    /\ UNCHANGED <<bookings, availability, zoom, now, revived, adrift>>

\* Mutation: the advisor's profile is not locked.
TakeSlotUnlocked(p) ==
    /\ req[p].step = "lock"
    /\ req[p].start \in free_slots(req[p].length, req[p].booking)
    /\ req' = [req EXCEPT ![p].step = "write"]
    /\ UNCHANGED <<bookings, availability, zoom, now, revived, adrift>>

TakeSlot(p) ==
    /\ req[p].step = "lock"
    /\ ScheduleFree(p)
    /\ req[p].start \in free_slots(req[p].length, req[p].booking)
    /\ req' = [req EXCEPT ![p].step = "write"]
    /\ UNCHANGED <<bookings, availability, zoom, now, revived, adrift>>

SlotUnavailable(p) ==
    /\ req[p].step = "lock"
    /\ ScheduleFree(p)
    /\ req[p].start \notin free_slots(req[p].length, req[p].booking)
    /\ Finish(p)
    /\ UNCHANGED <<bookings, availability, zoom, now, revived, adrift>>

Insert(p, b) ==
    /\ req[p].op \in Creations /\ req[p].step = "write"
    /\ bookings[b] = Absent
    /\ bookings' = [bookings EXCEPT ![b] =
                       [status  |-> IF req[p].op = "create" THEN "pending" ELSE "confirmed",
                        start   |-> req[p].start,
                        end     |-> req[p].start + req[p].length,
                        length  |-> req[p].length,
                        meeting |-> FALSE]]
    /\ Finish(p)
    /\ UNCHANGED <<availability, zoom, now, revived, adrift>>

\* The row after the UPDATE of a request that has set some attributes of its copy.
Flushed(p, new) == Flush(bookings[req[p].booking], req[p].seen, new)

Rescheduled(p) == [req[p].seen EXCEPT !.start = req[p].start,
                                      !.end   = req[p].start + req[p].length]

\* sync_meeting_on_reschedule looks at the refreshed row; a refusal is logged.
SyncMeeting(b, row, synced) ==
    IF row.meeting
    THEN /\ zoom' = IF synced THEN [zoom EXCEPT ![b] = row.start] ELSE zoom
         /\ adrift' = IF synced THEN adrift \ {b} ELSE adrift \cup {b}
    ELSE UNCHANGED <<zoom, adrift>>

\* Mutation: the copy that was read decides whether there is a meeting to move.
MoveStale(p) ==
    LET b   == req[p].booking
        row == Flushed(p, Rescheduled(p))
    IN  /\ req[p].op = "reschedule" /\ req[p].step = "write"
        /\ bookings' = [bookings EXCEPT ![b] = row]
        /\ \E synced \in BOOLEAN :
             SyncMeeting(b, [row EXCEPT !.meeting = req[p].seen.meeting], synced)
        /\ Finish(p)
        /\ UNCHANGED <<availability, now, revived>>

Move(p) ==
    LET b   == req[p].booking
        row == Flushed(p, Rescheduled(p))
    IN  /\ req[p].op = "reschedule" /\ req[p].step = "write"
        /\ bookings' = [bookings EXCEPT ![b] = row]
        /\ \E synced \in BOOLEAN : SyncMeeting(b, row, synced)
        /\ Finish(p)
        /\ UNCHANGED <<availability, now, revived>>

-----------------------------------------------------------------------------
(* The handlers that change a status                                       *)

Allows(op, row) ==
    CASE op = "cancel"   -> row.status \in ACTIVE_BOOKING_STATUSES
      [] op = "complete" -> row.status \in ACTIVE_BOOKING_STATUSES /\ row.start <= now
      [] op = "no_show"  -> row.status = "confirmed" /\ row.start <= now
      [] op \in {"reject", "expired", "accept", "completed"} -> row.status = "pending"

Read(p, op, b) ==
    /\ Allows(op, bookings[b])
    /\ Begin(p, [NoRequest EXCEPT !.op = op, !.booking = b, !.seen = bookings[b]])
    /\ UNCHANGED <<bookings, availability, zoom, now, revived, adrift>>

\* The copy a request goes on with after its flush: some handlers refresh it.
Copy(p, new, refreshed) == IF refreshed THEN Flushed(p, new) ELSE new

StatusAfter(op) ==
    CASE op \in {"cancel", "expired"} -> "cancelled"
      [] op = "reject"   -> "rejected"
      [] op = "complete" -> "completed"
      [] op = "no_show"  -> "no_show"

\* cancel and reject remove the meeting they know of.  The link is cleared even if
\* Zoom refuses, so the meeting is out of sight either way.
Close(p) ==
    LET b    == req[p].booking
        op   == req[p].op
        new  == [req[p].seen EXCEPT !.status = StatusAfter(op)]
        row  == Flushed(p, new)
        copy == Copy(p, new, op = "reject")
    IN  /\ op \in Closings
        /\ IF op \in {"cancel", "reject"} /\ copy.meeting
           THEN /\ bookings' = [bookings EXCEPT ![b] = [row EXCEPT !.meeting = FALSE]]
                /\ zoom' = [zoom EXCEPT ![b] = NoMeeting]
           ELSE /\ bookings' = [bookings EXCEPT ![b] = row]
                /\ UNCHANGED zoom
        /\ Finish(p)
        /\ UNCHANGED <<availability, now, revived, adrift>>

\* accept, and the webhook of a completed checkout.  accept refreshes its copy
\* before it sets up the meeting; the webhook does not.
Confirm(p) ==
    LET b    == req[p].booking
        new  == [req[p].seen EXCEPT !.status = "confirmed"]
        row  == Flushed(p, new)
        copy == Copy(p, new, req[p].op = "accept")
    IN  /\ req[p].op \in Confirmations
        /\ \/ /\ bookings' = [bookings EXCEPT ![b] = row]
              /\ UNCHANGED <<zoom, adrift>>
           \/ /\ ~copy.meeting
              /\ bookings' = [bookings EXCEPT ![b] = [row EXCEPT !.meeting = TRUE]]
              /\ zoom' = [zoom EXCEPT ![b] = copy.start]
              /\ adrift' = IF copy = row THEN adrift \ {b} ELSE adrift \cup {b}
        /\ revived' = IF Active(b) THEN revived ELSE revived \cup {b}
        /\ Finish(p)
        /\ UNCHANGED <<availability, now>>

\* A request ends without a commit.  What it told Zoom stays: a meeting may have been
\* moved with a booking that was not.
RollBack(p) ==
    /\ ~Idle(p)
    /\ Finish(p)
    /\ \/ UNCHANGED <<zoom, adrift>>
       \/ /\ req[p].op = "reschedule" /\ req[p].step = "write"
          /\ bookings[req[p].booking].meeting
          /\ zoom' = [zoom EXCEPT ![req[p].booking] = Flushed(p, Rescheduled(p)).start]
          /\ adrift' = adrift \cup {req[p].booking}
    /\ UNCHANGED <<bookings, availability, now, revived>>

\* The expiry sweeps lock the row they read: pending past its start, or unpaid for
\* too long, which may be at any time.
Expire(b) ==
    /\ bookings[b].status = "pending"
    /\ bookings' = [bookings EXCEPT ![b].status = "cancelled", ![b].meeting = FALSE]
    /\ UNCHANGED <<availability, req, zoom, now, revived, adrift>>

-----------------------------------------------------------------------------
\* set_weekly_slots, add_override, delete_override.  None takes the lock, or looks
\* at the bookings there are.
SetAvailability ==
    /\ availability' \in Schedules \ {availability}
    /\ UNCHANGED <<bookings, req, zoom, now, revived, adrift>>

Tick ==
    /\ now < LastTick
    /\ now' = now + 1
    /\ UNCHANGED <<bookings, availability, req, zoom, revived, adrift>>

Call(p) ==
    \/ \E op \in Creations, start \in Time, length \in Durations :
         Create(p, op, start, length)
    \/ \E b \in Bookings, start \in Time : Reschedule(p, b, start)
    \/ \E b \in Bookings, op \in Closings \cup Confirmations : Read(p, op, b)

Advance(p) ==
    \/ TakeSlot(p) \/ SlotUnavailable(p)
    \/ (\E b \in Bookings : Insert(p, b)) \/ Move(p)
    \/ Close(p) \/ Confirm(p) \/ RollBack(p)

Next ==
    \/ \E p \in Requests : Call(p) \/ Advance(p)
    \/ \E b \in Bookings : Expire(b)
    \/ SetAvailability
    \/ Tick

Spec == Init /\ [][Next]_vars

-----------------------------------------------------------------------------
Clash(b, c) ==
    /\ Active(b) /\ Active(c)
    /\ Overlaps(bookings[b].start, bookings[b].end, bookings[c].start, bookings[c].end)

\* The start and the end of a booking, which reschedule writes and concurrent
\* flushes merge attribute by attribute, always span its duration.
EndsFollowStarts == \A b \in Bookings : bookings[b].end = bookings[b].start + bookings[b].length

\* The lock on the advisor's profile keeps what it is taken for: from the check to
\* the write, no other request comes to write a slot, and no handler without the
\* lock puts an active booking on the time that was found free.
SlotHeld ==
    \A p \in Requests : req[p].step = "write" =>
        /\ \A q \in Requests \ {p} : req[q].step # "write"
        /\ \A b \in Bookings \ (revived \cup {req[p].booking}) : Active(b) =>
               ~Overlaps(req[p].start, req[p].start + req[p].length,
                         bookings[b].start, bookings[b].end)

\* No two active bookings of the advisor overlap, whatever creations, moves,
\* closings and changes of availability interleave, unless one of them was called
\* off and confirmed again by a handler that had read it before.
SlotsDisjoint ==
    \A b, c \in Bookings \ revived : b # c => ~Clash(b, c)

\* The meeting a booking links to starts when the booking does, unless it was last
\* set from an outdated copy or Zoom moved only one of the two.
MeetingAtStart ==
    \A b \in Bookings \ adrift : bookings[b].meeting => zoom[b] = bookings[b].start

\* _lock_advisor_schedule: "Serialize slot mutations for one advisor to prevent
\* concurrent double-booking."
NeverDoubleBooked == \A b, c \in Bookings : b # c => ~Clash(b, c)

=============================================================================
