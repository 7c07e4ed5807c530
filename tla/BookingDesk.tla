----------------------------- MODULE BookingDesk -----------------------------
(* What the two parties of one booking see and do on their screens            *)
(* (booking_service, booking_note_service, booking_document_service): the     *)
(* actions they are offered, the dot that says there is news from the other   *)
(* side, notes, requests for documents, and the small edits of the row.       *)
(*                                                                            *)
(* A row is stamped with the time at which its transaction began (now() of    *)
(* the database), a menu is marked as read, and a request for a document as   *)
(* fulfilled, with the time at which it happens.  Payments, refunds and the   *)
(* advisor's schedule are in BookingPayment and AdvisorSchedule.              *)
EXTENDS Naturals, FiniteSets, FiniteSetsExt, UnitOfWork

CONSTANTS
    Visitors,   \* requests that may be in progress at once
    MaxMoments, \* bound on the moments of the stamps
    MaxHour,    \* bound on the clock of the session
    Notice,     \* the advisor's cancellation_notice_hours
    MaxPosts    \* bound on the notes, and on the requests for documents

ASSUME DeskAssumption ==
    {MaxMoments, MaxHour, Notice, MaxPosts} \subseteq Nat /\ MaxMoments > 0 /\ MaxHour > 1

VARIABLES
    booking,  \* the row of bookings
    notes,    \* created_at of the advisor's notes
    requests, \* the rows of booking_document_requests
    visiting, \* the requests in progress, with what they have read
    moment,   \* the time of the stamps
    hour,     \* the time of the session
    news      \* history: to whom a note or a document has come that was begun after
              \* they last opened their menu

bookingDeskVars == <<booking, notes, requests, visiting, moment, hour, news>>

-----------------------------------------------------------------------------
Parties == {"seeker", "advisor"}

Other(v) == IF v = "seeker" THEN "advisor" ELSE "seeker"

Stamp == 0 .. MaxMoments

\* by, at: updated_by and updated_at.  read: the two actions_read_at.
BookingRow ==
    [status : {"pending", "confirmed", "completed", "cancelled", "rejected", "no_show"},
     payable : BOOLEAN, start : 1 .. MaxHour, later : BOOLEAN, important : BOOLEAN,
     interpreter : BOOLEAN, by : Parties, at : Stamp, seekerRead : Stamp, advisorRead : Stamp]

DocumentRequest == [created : Stamp, fulfilled : Stamp]

AdvisorOps == {"accept", "reject", "later", "important", "interpreter", "complete", "no_show"}

RowOps == AdvisorOps \cup {"cancel", "reschedule", "read"}

PostOps == {"note", "ask", "fulfill"}

\* began: the start of the transaction.  row: the booking as it was read.
Visit == [op : RowOps \cup PostOps, party : Parties, began : Stamp, row : BookingRow,
          to : 1 .. MaxHour, request : {0} \cup Stamp]

NoVisit == [op |-> "idle"]

DeskTypeOK ==
    /\ booking \in BookingRow
    /\ notes \subseteq Stamp /\ requests \subseteq DocumentRequest
    /\ \A c \in Visitors : visiting[c] = NoVisit \/ visiting[c] \in Visit
    /\ moment \in Stamp /\ hour \in 0 .. MaxHour
    /\ news \subseteq Parties

\* payable: it is paid, or free.
DeskInit ==
    /\ booking \in [status : {"pending"}, payable : BOOLEAN, start : {MaxHour - 1},
                    later : {FALSE}, important : {FALSE}, interpreter : {FALSE},
                    by : Parties, at : {1}, seekerRead : {0}, advisorRead : {0}]
    /\ notes = {} /\ requests = {}
    /\ visiting = [c \in Visitors |-> NoVisit]
    /\ moment = 1 /\ hour = 0
    /\ news = {}

-----------------------------------------------------------------------------
\* The guards of the operations

IsActive(b) == b.status \in {"pending", "confirmed"}

\* _enforce_seeker_notice
InNotice(b, party) == party = "seeker" => hour + Notice <= b.start

\* _assert_active and the notice, for cancel; the new start is in the future.
MayCancel(b, party) == IsActive(b) /\ InNotice(b, party)

MayReschedule(b, party, to) == IsActive(b) /\ InNotice(b, party) /\ to > hour

\* complete, mark_no_show, accept, reject, deal_later
MayAct(b, op) ==
    CASE op = "accept" -> b.status = "pending" /\ b.payable
      [] op \in {"reject", "later"} -> b.status = "pending"
      [] op = "complete" -> /\ hour >= b.start
                            /\ b.status = "confirmed" \/ (b.status = "pending" /\ b.payable)
      [] op = "no_show" -> hour >= b.start /\ b.status = "confirmed"
      [] OTHER -> TRUE

Allowed(b, op, party, to) ==
    CASE op = "cancel" -> MayCancel(b, party)
      [] op = "reschedule" -> MayReschedule(b, party, to)
      [] op = "read" -> TRUE
      [] OTHER -> party = "advisor" /\ MayAct(b, op)

-----------------------------------------------------------------------------
\* What the screens show

\* Mutation: the notice is not looked at.
WithinNoticeAlways(b) == TRUE

\* _seeker_within_notice_window
WithinNotice(b) == hour + Notice <= b.start

\* compute_capabilities
CanReschedule(b, viewer) ==
    /\ hour < b.start
    /\ CASE viewer = "advisor" -> b.status = "confirmed"
         [] OTHER -> IsActive(b) /\ WithinNotice(b)

CanCancel(b, viewer) ==
    /\ hour < b.start
    /\ CASE viewer = "advisor" -> IsActive(b)
         [] OTHER -> IsActive(b) /\ WithinNotice(b)

ReadAt(b, v) == IF v = "seeker" THEN b.seekerRead ELSE b.advisorRead

\* _merge_activity
Latest(times) == IF times = {} THEN 0 ELSE Max(times)

\* other_party_activity_at_by_booking
Activity(v) ==
    Latest((IF booking.by # v THEN {booking.at} ELSE {})
           \cup (IF v = "seeker" THEN notes \cup {r.created : r \in requests}
                 ELSE {r.fulfilled : r \in {q \in requests : q.fulfilled > 0}}))

\* compute_is_unread
IsUnread(v) == Activity(v) > ReadAt(booking, v)

-----------------------------------------------------------------------------
\* Each moment is a stamp of its own.
Passes == moment < MaxMoments /\ moment' = moment + 1

\* get_for_party
Visiting(c, op, party, to, request) ==
    /\ visiting[c] = NoVisit /\ Passes
    /\ visiting' = [visiting EXCEPT ![c] = [op |-> op, party |-> party, began |-> moment',
                                           row |-> booking, to |-> to, request |-> request]]
    /\ UNCHANGED <<booking, notes, requests, hour, news>>

OpenBooking(c, op, party, to) ==
    /\ op \in RowOps /\ Allowed(booking, op, party, to)
    /\ Visiting(c, op, party, to, 0)

\* create_note, create_request
OpenPost(c, op) ==
    /\ op = "note" => Cardinality(notes) < MaxPosts
    /\ op = "ask" => Cardinality(requests) < MaxPosts
    /\ Visiting(c, op, "advisor", 1, 0)

\* fulfill, of a request that nobody has fulfilled
OpenFulfill(c, r) ==
    /\ r.fulfilled = 0
    /\ Visiting(c, "fulfill", "seeker", 1, r.created)

\* The object as the operation leaves it
Edited(s) ==
    LET b == s.row IN
    CASE s.op = "cancel" -> [b EXCEPT !.status = "cancelled", !.by = s.party]
      [] s.op = "reschedule" -> [b EXCEPT !.start = s.to, !.by = s.party]
      [] s.op = "accept" -> [b EXCEPT !.status = "confirmed", !.later = FALSE, !.by = s.party]
      [] s.op = "reject" -> [b EXCEPT !.status = "rejected", !.by = s.party]
      [] s.op = "later" -> [b EXCEPT !.later = TRUE, !.by = s.party]
      [] s.op = "important" -> [b EXCEPT !.important = ~b.important, !.by = s.party]
      [] s.op = "interpreter" -> [b EXCEPT !.interpreter = ~b.interpreter, !.by = s.party]
      [] s.op = "complete" -> [b EXCEPT !.status = "completed", !.by = s.party]
      [] s.op = "no_show" -> [b EXCEPT !.status = "no_show", !.by = s.party]
      [] s.op = "read" /\ s.party = "seeker" -> [b EXCEPT !.seekerRead = moment']
      [] OTHER -> [b EXCEPT !.advisorRead = moment']

EndVisit(c) == visiting' = [visiting EXCEPT ![c] = NoVisit]

\* The UPDATE of what differs from the copy, and onupdate's stamp; mark_actions_read is one
\* of these.
SaveBooking(c) ==
    LET s == visiting[c] IN
    /\ s.op \in RowOps /\ Passes
    /\ booking' = [Flush(booking, s.row, Edited(s)) EXCEPT !.at = s.began]
    /\ news' = IF s.op = "read" THEN news \ {s.party} ELSE news
    /\ EndVisit(c)
    /\ UNCHANGED <<notes, requests, hour>>

\* begun after v's menu was opened for the last time
Fresh(s, v) == IF s.began > ReadAt(booking, v) THEN {v} ELSE {}

SaveNote(c) ==
    /\ visiting[c].op = "note" /\ Passes
    /\ notes' = notes \cup {visiting[c].began}
    /\ news' = news \cup Fresh(visiting[c], "seeker")
    /\ EndVisit(c)
    /\ UNCHANGED <<booking, requests, hour>>

SaveRequest(c) ==
    /\ visiting[c].op = "ask" /\ Passes
    /\ requests' = requests \cup {[created |-> visiting[c].began, fulfilled |-> 0]}
    /\ news' = news \cup Fresh(visiting[c], "seeker")
    /\ EndVisit(c)
    /\ UNCHANGED <<booking, notes, hour>>

\* A second request that had found it unfulfilled replaces the file of the first.
SaveFulfilled(c) ==
    /\ visiting[c].op = "fulfill" /\ Passes
    /\ requests' = {IF r.created = visiting[c].request THEN [r EXCEPT !.fulfilled = moment'] ELSE r
                      : r \in requests}
    /\ news' = news \cup {"advisor"}
    /\ EndVisit(c)
    /\ UNCHANGED <<booking, notes, hour>>

StopVisit(c) ==
    /\ visiting[c] # NoVisit /\ EndVisit(c)
    /\ UNCHANGED <<booking, notes, requests, moment, hour, news>>

HourPasses ==
    /\ hour < MaxHour /\ hour' = hour + 1
    /\ UNCHANGED <<booking, notes, requests, visiting, moment, news>>

DeskNext ==
    \/ \E c \in Visitors :
         \/ \E op \in RowOps, party \in Parties :
              IF op = "reschedule" THEN \E to \in 1 .. MaxHour : OpenBooking(c, op, party, to)
              ELSE OpenBooking(c, op, party, 1)
         \/ \E op \in {"note", "ask"} : OpenPost(c, op)
         \/ \E r \in requests : OpenFulfill(c, r)
         \/ SaveBooking(c) \/ SaveNote(c) \/ SaveRequest(c) \/ SaveFulfilled(c) \/ StopVisit(c)
    \/ HourPasses

DeskSpec == DeskInit /\ [][DeskNext]_bookingDeskVars

-----------------------------------------------------------------------------
\* A button that a screen shows works: whoever may cancel or reschedule according to the
\* read model is not refused if they do it at once, to any time that is still to come.
CapabilitiesHonest ==
    \A v \in Parties :
       /\ CanCancel(booking, v) => MayCancel(booking, v)
       /\ CanReschedule(booking, v) =>
             \A to \in hour + 1 .. MaxHour : MayReschedule(booking, v, to)

\* "True when the other party changed something since the viewer opened the menu", for
\* notes and documents: what has come to somebody since they last opened the menu of the
\* booking is shown as unread until they open it again, whatever else is written meanwhile,
\* unless it was being written while they opened it.
NewsFlagged == \A v \in news : IsUnread(v)

\* What the screen of a booking tells a party: the buttons work, and the dot shows the news.
DeskHonest == CapabilitiesHonest /\ NewsFlagged

=============================================================================
