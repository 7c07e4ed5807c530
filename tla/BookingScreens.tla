--------------------------- MODULE BookingScreens ----------------------------
(* What seekers, advisors and administrators are shown of the bookings        *)
(* (booking_service's lists, banners, drawers and timelines, api/v1/bookings, *)
(* the client pages of api/v1/advisors, the session pages of api/v1/admin).   *)
(* Each screen has a query of its own over the bookings; the actions are what *)
(* BookingPayment and AdvisorSchedule do to a booking, as whole steps.        *)
EXTENDS Integers, Sequences, FiniteSets, FiniteSetsExt, SequencesExt

CONSTANTS
    Guests,          \* seekers
    Hosts,           \* advisors
    Starts,          \* when sessions may start
    SessionLength,
    JoinLead,        \* how early a meeting may be joined
    MaxVisits,       \* rows of the bookings table
    MaxTick

ASSUME SessionLengthAssumption == SessionLength \in Nat \ {0} /\ JoinLead \in Nat
ASSUME PartiesAssumption == Guests \cap Hosts = {}
ASSUME HorizonAssumption == MaxVisits \in Nat /\ MaxTick \in Nat /\ Starts \subseteq 0 .. MaxTick

VARIABLES
    agenda,  \* the bookings rows, oldest first
    tick

screenVars == <<agenda, tick>>

-----------------------------------------------------------------------------
Unset == -1
Stage == {"pending", "confirmed", "cancelled", "completed", "no_show"}

\* due: the price, in units; bill: the status of the transaction, if there is one.
Appointment == [seeker : Guests, advisor : Hosts, start : Starts, status : Stage,
                due : {0, 1}, payment : {"unpaid", "paid", "refunded"},
                bill : {"none", "pending", "succeeded", "refunded"},
                paidAt : {Unset} \cup 0 .. MaxTick, confirmedAt : {Unset} \cup 0 .. MaxTick,
                completedAt : {Unset} \cup 0 .. MaxTick,
                created : 0 .. MaxTick, updated : 0 .. MaxTick, meeting : BOOLEAN]

ScreensTypeOK == agenda \in Seq(Appointment) /\ Len(agenda) <= MaxVisits /\ tick \in 0 .. MaxTick

ScreensInit == agenda = <<>> /\ tick = 0

Ticks == tick < MaxTick /\ tick' = tick + 1

Ends(b) == agenda[b].start + SessionLength
IsOpen(b) == agenda[b].status \in {"pending", "confirmed"}

Vacant(a, t, but) ==
    \A b \in DOMAIN agenda \ {but} :
        agenda[b].advisor = a /\ IsOpen(b) => Ends(b) <= t \/ t + SessionLength <= agenda[b].start

HasRelationship(a, s) == \E b \in DOMAIN agenda : agenda[b].advisor = a /\ agenda[b].seeker = s

ReservedRow(s, a, t, due) ==
    [seeker |-> s, advisor |-> a, start |-> t, status |-> "pending", due |-> due,
     payment |-> "unpaid", bill |-> "none", paidAt |-> Unset, confirmedAt |-> Unset,
     completedAt |-> Unset, created |-> tick, updated |-> tick, meeting |-> FALSE]

\* create: a request by the seeker
Request(s, a, t, due) ==
    /\ Ticks /\ Len(agenda) < MaxVisits /\ t > tick /\ Vacant(a, t, 0)
    /\ agenda' = Append(agenda, ReservedRow(s, a, t, due))

\* create_by_advisor: for a client, free, and confirmed at once without a date for it
BookFor(a, s, t, meeting) ==
    /\ Ticks /\ Len(agenda) < MaxVisits /\ t > tick /\ Vacant(a, t, 0) /\ HasRelationship(a, s)
    /\ agenda' = Append(agenda, [ReservedRow(s, a, t, 0) EXCEPT !.status = "confirmed", !.payment = "paid",
                                                        !.meeting = meeting])

StartCheckout(b) ==
    /\ Ticks /\ IsOpen(b) /\ agenda[b].due > 0 /\ agenda[b].payment = "unpaid" /\ agenda[b].bill = "none"
    /\ agenda' = [agenda EXCEPT ![b].bill = "pending"]

\* The completed checkout confirms what is pending.
TakePayment(b, meeting) ==
    /\ Ticks /\ agenda[b].bill = "pending" /\ IsOpen(b)
    /\ agenda' = [agenda EXCEPT
           ![b].bill = "succeeded", ![b].payment = "paid", ![b].updated = tick,
           ![b].paidAt = IF @ = Unset THEN tick ELSE @, ![b].status = "confirmed",
           ![b].confirmedAt = IF agenda[b].status = "pending" THEN tick ELSE @,
           ![b].meeting = meeting]

AcceptRequest(b, meeting) ==
    /\ Ticks /\ agenda[b].status = "pending" /\ (agenda[b].due > 0 => agenda[b].payment = "paid")
    /\ agenda' = [agenda EXCEPT ![b].status = "confirmed", ![b].confirmedAt = tick,
                                ![b].updated = tick, ![b].meeting = meeting]

\* cancel and reject, with the refund
CallOff(b) ==
    /\ Ticks /\ IsOpen(b)
    /\ agenda' = [agenda EXCEPT
           ![b].status = "cancelled", ![b].updated = tick, ![b].meeting = FALSE,
           ![b].payment = IF agenda[b].bill = "succeeded" THEN "refunded" ELSE @,
           ![b].bill = IF @ = "succeeded" THEN "refunded" ELSE @]

MoveTo(b, t) ==
    /\ Ticks /\ IsOpen(b) /\ t > tick /\ Vacant(agenda[b].advisor, t, b)
    /\ agenda' = [agenda EXCEPT ![b].start = t, ![b].updated = tick]

\* complete: a pending request that is paid or free is confirmed on the way.
Hold(b) ==
    /\ Ticks /\ IsOpen(b) /\ agenda[b].start <= tick
    /\ agenda[b].status = "pending" => agenda[b].due = 0 \/ agenda[b].payment = "paid"
    /\ agenda' = [agenda EXCEPT
           ![b].status = "completed", ![b].completedAt = tick, ![b].updated = tick,
           ![b].confirmedAt = IF agenda[b].status = "pending" /\ @ = Unset THEN tick ELSE @]

Miss(b) ==
    /\ Ticks /\ agenda[b].status = "confirmed" /\ agenda[b].start <= tick
    /\ agenda' = [agenda EXCEPT ![b].status = "no_show", ![b].updated = tick]

Wait == Ticks /\ UNCHANGED agenda

ScreensNext ==
    \/ \E s \in Guests, a \in Hosts, t \in Starts :
          \/ \E due \in {0, 1} : Request(s, a, t, due)
          \/ \E meeting \in BOOLEAN : BookFor(a, s, t, meeting)
    \/ \E b \in DOMAIN agenda :
          \/ StartCheckout(b) \/ CallOff(b) \/ Hold(b) \/ Miss(b)
          \/ \E meeting \in BOOLEAN : TakePayment(b, meeting) \/ AcceptRequest(b, meeting)
          \/ \E t \in Starts : MoveTo(b, t)
    \/ Wait

ScreensSpec == ScreensInit /\ [][ScreensNext]_screenVars

-----------------------------------------------------------------------------
\* The lists

OfUser(u) == IF u \in Hosts THEN {b \in DOMAIN agenda : agenda[b].advisor = u}
             ELSE {b \in DOMAIN agenda : agenda[b].seeker = u}

\* list_for_user_stmt, with its filters; without a status every one is listed.
ListFor(u, statuses, from, to) ==
    {b \in OfUser(u) : agenda[b].status \in statuses /\ from <= agenda[b].start /\ agenda[b].start < to}

\* list_by_user_stmt: either side
ListBy(u, statuses) ==
    {b \in DOMAIN agenda : u \in {agenda[b].seeker, agenda[b].advisor} /\ agenda[b].status \in statuses}

\* Mutation: sessions that have begun are upcoming as well.
get_next_upcoming_or_running(u) ==
    LET ahead == {b \in OfUser(u) : agenda[b].start + SessionLength >= tick /\ IsOpen(b)} IN
    {b \in ahead : \A c \in ahead : agenda[b].start <= agenda[c].start}

\* The soonest that is still ahead; of two at one time the database may take either.
get_next_upcoming(u) ==
    LET ahead == {b \in OfUser(u) : agenda[b].start >= tick /\ IsOpen(b)} IN
    {b \in ahead : \A c \in ahead : agenda[b].start <= agenda[c].start}

\* _chat_eligible_payment_clause, _in_chat_window_clause
ChatOpen(b) ==
    /\ agenda[b].status = "confirmed"
    /\ agenda[b].payment = "paid" \/ agenda[b].due <= 0
    /\ agenda[b].start <= tick /\ tick <= Ends(b)

is_chat_send_allowed(s, a) ==
    \E b \in DOMAIN agenda : agenda[b].seeker = s /\ agenda[b].advisor = a /\ ChatOpen(b)

get_current_chat_booking(u) ==
    LET running == {b \in OfUser(u) : ChatOpen(b)} IN
    {b \in running : \A c \in running : Ends(b) <= Ends(c)}

is_meeting_joinable(b) == agenda[b].start - JoinLead <= tick /\ tick <= Ends(b)

Joinable(b) == agenda[b].meeting /\ is_meeting_joinable(b)

\* build_read: the link that the viewer's role is for
LinkRead(b, role) ==
    CASE Joinable(b) /\ role = "seeker"  -> {"join"}
      [] Joinable(b) /\ role = "advisor" -> {"start"}
      [] OTHER -> {}

\* _meeting_read, in the drawer: the advisor of the booking may start it, anyone else join.
MeetingRead(b, who) ==
    IF ~Joinable(b) THEN {} ELSE IF who = agenda[b].advisor THEN {"start"} ELSE {"join"}

\* list_my_bookings: the list, which the filters are for, and the banners, which they are not.
list_my_bookings(u, statuses, from, to) ==
    [data |-> ListFor(u, statuses, from, to), next_upcoming |-> get_next_upcoming(u),
     active_chat_booking |-> get_current_chat_booking(u)]

-----------------------------------------------------------------------------
\* The client pages

LatestStart(a, s) == Max({agenda[b].start : b \in {c \in OfUser(a) : agenda[c].seeker = s}})

LatestOf(a, s) == {b \in OfUser(a) : agenda[b].seeker = s /\ agenda[b].start = LatestStart(a, s)}

\* list_clients_stmt: any of the bookings at the latest start may match the filter.
ClientsOf(a, statuses) ==
    {s \in Guests : HasRelationship(a, s) /\ \E b \in LatestOf(a, s) : agenda[b].status \in statuses}

\* build_client_reads: one of the latest is shown, whichever comes first.
ClientShown(a, s) == {[booking |-> b, status |-> agenda[b].status] : b \in LatestOf(a, s)}

\* list_my_clients: the rows of the table that was filtered by a status
list_my_clients(a, status) ==
    UNION {{<<s, row>> : row \in ClientShown(a, s)} : s \in ClientsOf(a, {status})}

\* get_for_party; an administrator may open any.
MayOpen(b, who, role) == role = "admin" \/ who \in {agenda[b].seeker, agenda[b].advisor}

\* The administrators' session history of an advisor: every row says how many sessions the
\* seeker ever booked with the advisor, whatever the filter.
SessionRow(a, b) ==
    [booking |-> b, consultations |-> Cardinality({c \in OfUser(a) : agenda[c].seeker = agenda[b].seeker}),
     link |-> LinkRead(b, "admin")]

list_advisor_sessions(a, statuses) ==
    {SessionRow(a, b) : b \in ListFor(a, statuses, 0, MaxTick + 1)}

-----------------------------------------------------------------------------
\* The drawer and the session page

\* build_details: an open checkout is shown as an amount, too.
AmountPaid(b) ==
    IF agenda[b].bill # "none" THEN agenda[b].due
    ELSE IF agenda[b].payment = "paid" THEN agenda[b].due ELSE 0

\* _session_timeline: milestones without a date are shown without it.
Timeline(b) ==
    [booked |-> agenda[b].created, payment |-> agenda[b].paidAt, confirmed |-> agenda[b].confirmedAt,
     upcoming |-> agenda[b].start,
     completed |-> IF agenda[b].completedAt = Unset /\ agenda[b].status = "completed"
                   THEN agenda[b].updated ELSE agenda[b].completedAt]

-----------------------------------------------------------------------------
\* Properties

\* The banner's booking has not begun and is not over: nothing that is ahead comes sooner, it
\* is in the list as well, and there is one whenever something is ahead.
BannerTrue ==
    \A u \in Guests \cup Hosts :
        LET page  == list_my_bookings(u, {"pending", "confirmed"}, 0, MaxTick + 1)
            ahead == {b \in page.data : agenda[b].start >= tick} IN
        /\ page.next_upcoming = {} <=> ahead = {}
        /\ \A b \in page.next_upcoming : b \in ahead /\ \A c \in ahead : agenda[b].start <= agenda[c].start
        /\ \A b \in page.next_upcoming \cap page.active_chat_booking : agenda[b].start = tick

\* Chat Now is offered exactly to those who may then write, and only during a session to which
\* the link is shown as well, in the list and in the drawer, if it has a meeting.
ChatTrue ==
    /\ \A u \in Guests \cup Hosts : \A b \in get_current_chat_booking(u) :
          /\ is_chat_send_allowed(agenda[b].seeker, agenda[b].advisor)
          /\ agenda[b].meeting => MeetingRead(b, u) # {}
    /\ \A s \in Guests, a \in Hosts :
          is_chat_send_allowed(s, a) => get_current_chat_booking(s) # {} /\ get_current_chat_booking(a) # {}
    /\ \A b \in DOMAIN agenda : /\ MeetingRead(b, agenda[b].seeker) = LinkRead(b, "seeker")
                                /\ MeetingRead(b, agenda[b].advisor) = LinkRead(b, "advisor")

\* A list by status holds each booking of the user once, the picker's list the same ones, and
\* nobody else sees them.
ListsPartition ==
    \A u \in Guests \cup Hosts :
        /\ UNION {ListFor(u, {x}, 0, MaxTick + 1) : x \in Stage} = OfUser(u)
        /\ \A x, y \in Stage : x # y => ListBy(u, {x}) \cap ListBy(u, {y}) = {}
        /\ ListBy(u, Stage) = OfUser(u)
        /\ \A b \in DOMAIN agenda : MayOpen(b, u, "user") <=> b \in OfUser(u)

\* A client that is listed under a status shows it, unless two of the client's bookings have
\* the same latest start, as after a cancellation that was booked anew.  The administrators'
\* history of the advisor has a row for each session it counts for a client, without a link.
ClientsTrue ==
    \A a \in Hosts, x \in Stage : \A line \in list_my_clients(a, x) :
        LET s == line[1] IN
        /\ HasRelationship(a, s)
        /\ Cardinality(LatestOf(a, s)) = 1 => line[2].status = x
        /\ Cardinality({b \in LatestOf(a, s) : IsOpen(b)}) <= 1
        /\ \A row \in list_advisor_sessions(a, {x}) :
              agenda[row.booking].seeker = s =>
                  /\ row.link = {}
                  /\ row.consultations = Cardinality({r \in list_advisor_sessions(a, Stage) :
                                                       agenda[r.booking].seeker = s})

\* The timeline's steps are in order where they have a date, and a session that was held
\* after a payment through the platform shows both.
TimelineTrue ==
    \A b \in DOMAIN agenda :
        LET line == Timeline(b) IN
        /\ line.completed # Unset <=> agenda[b].status = "completed"
        /\ line.completed # Unset => line.upcoming <= line.completed /\ line.confirmed <= line.completed
                                     /\ line.booked < line.completed
        /\ line.payment # Unset => line.booked < line.payment /\ line.confirmed # Unset
        /\ agenda[b].bill = "succeeded" => line.payment # Unset
        /\ agenda[b].status = "completed" /\ agenda[b].due > 0 => AmountPaid(b) = agenda[b].due

\* Whatever happens to the bookings, the screens say of one and the same booking the same.
ScreensAgree == BannerTrue /\ ChatTrue /\ ListsPartition /\ ClientsTrue /\ TimelineTrue

=============================================================================
