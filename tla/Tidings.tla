------------------------------- MODULE Tidings --------------------------------
(* How people learn of what happened to them: the notifications that a        *)
(* request writes in the transaction of its change (notification_service),    *)
(* and the e-mails it hands to tasks of their own (email_service,             *)
(* schedule_email), which run as soon as the request waits for anything,      *)
(* before its commit, and are not undone with it.                             *)
(* One row is at work, of a booking, a document, an advisor's account, a      *)
(* lead, a conversation or a login; each action that tells is a handler of    *)
(* api/v1 with the service it calls.                                          *)
EXTENDS UnitOfWork, Integers, Sequences, FiniteSets, SequencesExt

CONSTANTS
    Clerks,       \* requests that may be in progress together
    Topics,       \* which of the rows a behaviour may be about
    Unreachable,  \* whose address no message can be built for
    Mailing,      \* whether SMTP is configured
    Subscribed,   \* whether the matching seeker wants e-mails
    MaxEvents     \* requests that write

ASSUME MailingAssumption == Mailing \in BOOLEAN /\ Subscribed \in BOOLEAN
ASSUME EventsAssumption == MaxEvents \in Nat
ASSUME TopicAssumption == Topics \subseteq {"booking", "document", "account", "lead", "chat", "login"}

VARIABLES
    topic,    \* what the row is
    row,      \* as committed
    clerk,    \* the requests
    letters,  \* the e-mails, with what became of them
    bells,    \* the committed notifications
    journal,  \* history: the committed changes, in order
    serial    \* history: how many requests have written

tidingVars == <<topic, row, clerk, letters, bells, journal, serial>>

-----------------------------------------------------------------------------
Correspondents == {"seeker", "advisor", "watcher", "admin"}

Subject == [status : {"none", "pending", "under_review", "approved", "rejected", "confirmed",
                  "cancelled", "completed", "no_show", "new", "contacted"},
        price : {0, 1}, paid : {"unpaid", "paid", "refunded"}, start : {0, 1},
        meeting : BOOLEAN, told : Nat, asked : BOOLEAN]

Blank(status) == [status |-> status, price |-> 0, paid |-> "unpaid", start |-> 0,
                  meeting |-> FALSE, told |-> 0, asked |-> FALSE]

Priced(status, paid) == [Blank(status) EXCEPT !.price = 1, !.paid = paid]

InitialRows ==
    [booking  |-> {Blank("none"), Blank("pending"), Priced("pending", "unpaid"),
                   Priced("confirmed", "paid")},
     document |-> {Blank("pending")}, account |-> {Blank("pending")}, lead |-> {Blank("new")},
     chat     |-> {Blank("none")}, login |-> {Blank("none")}]

Bell(to, kind) == [to |-> to, kind |-> kind]

\* An e-mail quotes the row as the request that schedules it has written it.
Letter(to, kind, about) == [to |-> to, kind |-> kind, start |-> about.start, refund |-> 0]

NotWorking == [phase |-> "idle"]

Working(p, phase) == clerk[p].phase = phase

TidingsTypeOK ==
    /\ topic \in Topics /\ row \in Subject
    /\ \A p \in Clerks :
          \/ clerk[p] = NotWorking
          \/ Working(p, "read") /\ clerk[p].seen \in Subject
          \/ Working(p, "written") /\ clerk[p].row \in Subject /\ clerk[p].no \in 1 .. serial
    /\ \A l \in letters : /\ l.to \in Correspondents /\ l.no \in 1 .. serial
                          /\ l.fate \in {"waiting", "delivered", "lost"}
    /\ \A b \in bells : b.to \in Correspondents /\ b.no \in 1 .. serial
    /\ serial \in 0 .. MaxEvents /\ Len(journal) <= serial

TidingsInit ==
    /\ topic \in Topics
    /\ row \in InitialRows[topic]
    /\ clerk = [p \in Clerks |-> NotWorking]
    /\ letters = {} /\ bells = {} /\ journal = <<>> /\ serial = 0

-----------------------------------------------------------------------------
\* The transaction of a request

Look(p) ==
    /\ clerk[p] = NotWorking /\ serial < MaxEvents
    /\ clerk' = [clerk EXCEPT ![p] = [phase |-> "read", seen |-> row, since |-> Len(journal)]]
    /\ UNCHANGED <<topic, row, letters, bells, journal, serial>>

\* The row as the flush of p leaves it, read again afterwards
Flushed(p, new) == Flush(row, clerk[p].seen, new)

\* Whether there is anything to send: _build_message, _make_connection
Sendable(l) == Mailing /\ l.to \notin Unreachable

\* schedule_email: each letter becomes a task at once.
schedule_email(post, no) ==
    letters' = letters \cup {[to |-> l.to, kind |-> l.kind, start |-> l.start,
                              refund |-> l.refund, no |-> no,
                              fate |-> IF Sendable(l) THEN "waiting" ELSE "lost"]
                             : l \in post}

\* p writes, by someone's hand, and tells; whoever else writes the row waits for it.
Tell(p, op, by, new, rings, post) ==
    /\ Working(p, "read") /\ serial < MaxEvents
    /\ \A q \in Clerks : ~Working(q, "written")
    /\ serial' = serial + 1
    /\ clerk' = [clerk EXCEPT ![p] = [phase |-> "written", op |-> op, by |-> by, row |-> new,
                                      rings |-> rings, no |-> serial', since |-> @.since]]
    /\ schedule_email(post, serial')
    /\ UNCHANGED <<topic, row, bells, journal>>

Commit(p) ==
    /\ Working(p, "written")
    /\ row' = clerk[p].row
    /\ bells' = bells \cup {[to |-> b.to, kind |-> b.kind, no |-> clerk[p].no] : b \in clerk[p].rings}
    /\ journal' = Append(journal, [no |-> clerk[p].no, op |-> clerk[p].op, by |-> clerk[p].by,
                                   row |-> clerk[p].row, before |-> row, since |-> clerk[p].since])
    /\ clerk' = [clerk EXCEPT ![p] = NotWorking]
    /\ UNCHANGED <<topic, letters, serial>>

\* A guard refuses, an error or a deadlock rolls back: the letters are on their way.
Abort(p) ==
    /\ clerk[p] # NotWorking
    /\ clerk' = [clerk EXCEPT ![p] = NotWorking]
    /\ UNCHANGED <<topic, row, letters, bells, journal, serial>>

Fate(l, fate) ==
    /\ l.fate = "waiting"
    /\ letters' = (letters \ {l}) \cup {[l EXCEPT !.fate = fate]}
    /\ UNCHANGED <<topic, row, clerk, bells, journal, serial>>

\* The process ends, with its requests and its tasks.
Halt ==
    /\ \E l \in letters : l.fate = "waiting"
    /\ letters' = {[l EXCEPT !.fate = IF @ = "waiting" THEN "lost" ELSE @] : l \in letters}
    /\ clerk' = [p \in Clerks |-> NotWorking]
    /\ UNCHANGED <<topic, row, bells, journal, serial>>

-----------------------------------------------------------------------------
\* The e-mails, each by the function that sends it

send_verification_email(to, new) == Letter(to, "verification", new)
send_password_reset_email(to, new) == Letter(to, "reset", new)
send_advisor_welcome_email(new) == Letter("advisor", "approved", new)
send_advisor_rejected_email(new) == Letter("advisor", "rejected", new)
send_advisor_pending_email(new) == Letter("advisor", "pending", new)
send_new_relevant_advisor_email(new) == Letter("watcher", "new_advisor", new)
send_payment_receipt_email(new) == Letter("seeker", "receipt", new)
send_advisor_payment_notification_email(new) == Letter("advisor", "sale", new)
send_booking_confirmation_email(to, new) == Letter(to, "confirmation", new)
send_booking_rescheduled_email(to, new) == Letter(to, "new_time", new)
send_booking_rejected_email(new) == Letter("seeker", "rejection", new)
send_booking_note_added_email(new) == Letter("seeker", "note", new)
send_document_requested_email(new) == Letter("seeker", "asked", new)
send_document_status_email(verdict, new) == Letter("seeker", verdict, new)
send_document_comment_email(new) == Letter("seeker", "comment", new)
send_lead_contacted_email(new) == Letter("seeker", "contacted", new)
send_new_message_email(to, new) == Letter(to, "message", new)

\* The advisor's link starts the meeting, the seeker's joins it.
send_booking_meeting_email(to, new) ==
    Letter(to, IF to = "advisor" THEN "host_link" ELSE "join_link", new)

\* What was refunded is for the seeker's letter only.
send_booking_cancelled_email(to, refund, new) ==
    [Letter(to, "cancellation", new) EXCEPT !.refund = IF to = "seeker" THEN refund ELSE 0]

-----------------------------------------------------------------------------
\* Bookings

Seen(p) == clerk[p].seen

Counterparty(by) == IF by = "seeker" THEN "advisor" ELSE "seeker"
Addressees == {"seeker", "advisor"}

send_confirmations(new) == {send_booking_confirmation_email(to, new) : to \in Addressees}
send_reschedule_notifications(new) == {send_booking_rescheduled_email(to, new) : to \in Addressees}
send_cancellation_notifications(refund, new) ==
    {send_booking_cancelled_email(to, refund, new) : to \in Addressees}
send_rejection_notification(new) == {send_booking_rejected_email(new)}
send_note_added_notification(new) == {send_booking_note_added_email(new)}

\* notify_seeker_of_document_status_update, notify_seeker_of_advisor_comment
StatusUpdate(verdict, new) ==
    [rings |-> {Bell("seeker", verdict)}, post |-> {send_document_status_email(verdict, new)}]
CommentMade(new) == [rings |-> {Bell("seeker", "comment")}, post |-> {send_document_comment_email(new)}]

\* notify_seekers_about_new_advisor: all that match are notified, who wants e-mails gets one.
Suggested(new) == [rings |-> {Bell("watcher", "new_advisor")},
                     post |-> {send_new_relevant_advisor_email(new) : x \in {y \in {1} : Subscribed}}]

notify_provision_failed == {Bell("advisor", "no_meeting")}

send_meeting_notifications(new) ==
    [rings |-> {Bell(to, "meeting") : to \in Addressees},
     post  |-> {send_booking_meeting_email(to, new) : to \in Addressees}]

\* maybe_provision_meeting: nothing, a link for both, or the advisor learns that it failed.
Provisioned(new) ==
    {[row |-> new, rings |-> {}, post |-> {}]} \cup
    IF new.status = "confirmed" /\ new.paid = "paid" /\ new.price > 0 /\ ~new.meeting
    THEN {[row |-> [new EXCEPT !.meeting = TRUE], rings |-> send_meeting_notifications(new).rings,
           post |-> send_meeting_notifications(new).post],
          [row |-> new, rings |-> notify_provision_failed, post |-> {}]}
    ELSE {}

\* A request tells nobody: the advisor hears of it when it is paid.
RequestBooking(p) ==
    /\ topic = "booking" /\ Seen(p).status = "none"
    /\ \E price \in {0, 1} :
          Tell(p, "request", "seeker", Flushed(p, [Seen(p) EXCEPT !.status = "pending", !.price = price]),
               {}, {})

BookForClient(p) ==
    /\ topic = "booking" /\ Seen(p).status = "none"
    /\ Tell(p, "book_for", "advisor",
            Flushed(p, [Seen(p) EXCEPT !.status = "confirmed", !.paid = "paid"]),
            {Bell("seeker", "confirmed")}, {})

\* checkout.session.completed
Pay(p) ==
    /\ topic = "booking" /\ Seen(p).price > 0 /\ Seen(p).paid = "unpaid" /\ Seen(p).status # "none"
    /\ LET new == Flushed(p, [Seen(p) EXCEPT !.paid = "paid",
                                  !.status = IF @ = "pending" THEN "confirmed" ELSE @]) IN
       \E then \in Provisioned(new) :
          Tell(p, "pay", "seeker", then.row,
               then.rings \cup {Bell("seeker", "payment"), Bell("advisor", "payment"),
                                Bell("advisor", "requested")}
                   \cup {Bell("seeker", "confirmed") : x \in {y \in {1} : new.status = "confirmed"}},
               then.post \cup {send_payment_receipt_email(new), send_advisor_payment_notification_email(new)})

AcceptBooking(p) ==
    /\ topic = "booking" /\ Seen(p).status = "pending"
    /\ Seen(p).price = 0 \/ Seen(p).paid = "paid"
    /\ \E then \in Provisioned(Flushed(p, [Seen(p) EXCEPT !.status = "confirmed"])) :
          Tell(p, "accept", "advisor", then.row, then.rings \cup {Bell("seeker", "confirmed")},
               then.post \cup send_confirmations(then.row))

\* What a booking that is called off gives back; the seeker hears of the refund as well.
CalledOff(p, status) ==
    LET new == Flushed(p, [Seen(p) EXCEPT !.status = status, !.meeting = FALSE]) IN
    [new EXCEPT !.meeting = FALSE, !.paid = IF new.price > 0 /\ @ = "paid" THEN "refunded" ELSE @]

RefundBells(new) == IF new.paid # row.paid THEN {Bell("seeker", "refund")} ELSE {}

RejectBooking(p) ==
    /\ topic = "booking" /\ Seen(p).status = "pending"
    /\ LET new == CalledOff(p, "rejected") IN
       Tell(p, "reject", "advisor", new, RefundBells(new) \cup {Bell("seeker", "rejected")},
            send_rejection_notification(new))

CancelBooking(p, by) ==
    /\ topic = "booking" /\ Seen(p).status \in {"pending", "confirmed"}
    /\ LET new == CalledOff(p, "cancelled")
           refund == IF new.paid # row.paid THEN new.price ELSE 0 IN
       Tell(p, "cancel", by, new, RefundBells(new) \cup {Bell(Counterparty(by), "cancelled")},
            send_cancellation_notifications(refund, new))

RescheduleBooking(p, by) ==
    /\ topic = "booking" /\ Seen(p).status \in {"pending", "confirmed"}
    /\ LET new == Flushed(p, [Seen(p) EXCEPT !.start = 1 - @]) IN
       Tell(p, "reschedule", by, new, {Bell(Counterparty(by), "rescheduled")},
            send_reschedule_notifications(new))

\* complete and mark_no_show; a pending one is completed when nothing is due.
EndBooking(p, status) ==
    /\ topic = "booking"
    /\ Seen(p).status \in IF status = "completed" THEN {"pending", "confirmed"} ELSE {"confirmed"}
    /\ Seen(p).status = "pending" => Seen(p).price = 0 \/ Seen(p).paid = "paid"
    /\ Tell(p, "close", "advisor", Flushed(p, [Seen(p) EXCEPT !.status = status]),
            {Bell("seeker", status)}, {})

\* The sweeps tell both parties, by notification only.
ExpireBooking(p) ==
    /\ topic = "booking" /\ Seen(p).status = "pending"
    /\ LET new == CalledOff(p, "cancelled") IN
       Tell(p, "expire", "sweep", new,
            RefundBells(new) \cup {Bell("seeker", "expired"), Bell("advisor", "expired")}, {})

AddText(p) == Flushed(p, [Seen(p) EXCEPT !.told = @ + 1])

AddNote(p) ==
    /\ topic = "booking" /\ Seen(p).status # "none"
    /\ Tell(p, "note", "advisor", AddText(p), {Bell("seeker", "note")},
            send_note_added_notification(AddText(p)))

\* The advisor asks for a document; the seeker brings it, once.
AskForDocument(p) ==
    /\ topic = "booking" /\ Seen(p).status # "none" /\ ~Seen(p).asked
    /\ LET new == Flushed(p, [Seen(p) EXCEPT !.asked = TRUE]) IN
       Tell(p, "ask", "advisor", new, {Bell("seeker", "asked")}, {send_document_requested_email(new)})

FulfillRequest(p) ==
    /\ topic = "booking" /\ Seen(p).asked
    /\ Tell(p, "fulfill", "seeker", Flushed(p, [Seen(p) EXCEPT !.asked = FALSE]),
            {Bell("advisor", "fulfilled")}, {})

-----------------------------------------------------------------------------
\* Everything else

\* A client's document: the advisor's verdict, unless it is the one that stands and its note
\* is the same.  A verdict that is taken back is deleted; one that was made or deleted since
\* it was looked up fails the request.
JudgeDocument(p, verdict, otherNote) ==
    /\ topic = "document"
    /\ Seen(p).status # verdict \/ (otherNote /\ verdict # "pending")
    /\ LET tells == verdict \in {"approved", "rejected"}
           new == IF tells THEN Flushed(p, [Seen(p) EXCEPT !.status = verdict,
                                                           !.told = IF otherNote THEN @ + 1 ELSE @])
                  ELSE [row EXCEPT !.status = "pending"] IN
       /\ tells => (Seen(p).status = "pending") = (row.status = "pending")
       /\ Tell(p, "judge_document", "advisor", new,
               IF tells THEN StatusUpdate(verdict, new).rings ELSE {},
               IF tells THEN StatusUpdate(verdict, new).post ELSE {})

CommentDocument(p) ==
    /\ topic = "document"
    /\ Tell(p, "comment", "advisor", AddText(p), CommentMade(AddText(p)).rings, CommentMade(AddText(p)).post)

\* The letter that goes with a verdict on an account
VerdictLetter(verdict, new) ==
    CASE verdict = "approved" -> {send_advisor_welcome_email(new)}
      [] verdict = "rejected" -> {send_advisor_rejected_email(new)}
      [] verdict = "pending"  -> {send_advisor_pending_email(new)}
      [] OTHER -> {}

\* Mutation: the letter goes out whatever the account was before.
JudgeAccountAgain(p, verdict) ==
    /\ topic = "account"
    /\ LET new == Flushed(p, [Seen(p) EXCEPT !.status = verdict]) IN
       Tell(p, "judge_account", "admin", new, {}, VerdictLetter(verdict, new))

\* An advisor's account: each verdict has its letter when it changes something; who is
\* approved is recommended to the seekers that match.
JudgeAccount(p, verdict) ==
    /\ topic = "account"
    /\ LET turns == Seen(p).status # verdict
           welcome == turns /\ verdict = "approved"
           new == Flushed(p, [Seen(p) EXCEPT !.status = verdict]) IN
       Tell(p, "judge_account", "admin", new,
            IF welcome THEN Suggested(new).rings ELSE {},
            (IF turns THEN VerdictLetter(verdict, new) ELSE {})
            \cup (IF welcome THEN Suggested(new).post ELSE {}))

\* Contacting a lead tells the seeker, each time.
ContactLead(p) ==
    /\ topic = "lead"
    /\ LET new == Flushed(p, [Seen(p) EXCEPT !.status = "contacted"]) IN
       Tell(p, "contact", "advisor", new, {Bell("seeker", "contacted")}, {send_lead_contacted_email(new)})

WriteMessage(p, by) ==
    /\ topic = "chat"
    /\ Tell(p, "message", by, AddText(p), {Bell(Counterparty(by), "message")},
            {send_new_message_email(Counterparty(by), AddText(p))})

\* A user registers, or asks for another link; the administrators hear of who is new.
Register(p) ==
    /\ topic = "login" /\ Seen(p).told = 0
    /\ Tell(p, "register", "seeker", AddText(p), {Bell("admin", "registered")},
            {send_verification_email("seeker", AddText(p))})

SendLink(p) ==
    /\ topic = "login" /\ Seen(p).told > 0
    /\ \E letter \in {send_verification_email("seeker", AddText(p)),
                      send_password_reset_email("seeker", AddText(p))} :
          Tell(p, "link", "seeker", AddText(p), {}, {letter})

TidingsNext ==
    \/ \E p \in Clerks :
          \/ Look(p) \/ Commit(p) \/ Abort(p)
          \/ Working(p, "read") /\
                \/ RequestBooking(p) \/ BookForClient(p) \/ Pay(p) \/ AcceptBooking(p)
                \/ RejectBooking(p) \/ ExpireBooking(p) \/ AddNote(p) \/ AskForDocument(p)
                \/ FulfillRequest(p) \/ CommentDocument(p) \/ ContactLead(p) \/ Register(p) \/ SendLink(p)
                \/ \E by \in {"seeker", "advisor"} :
                      CancelBooking(p, by) \/ RescheduleBooking(p, by) \/ WriteMessage(p, by)
                \/ \E status \in {"completed", "no_show"} : EndBooking(p, status)
                \/ \E verdict \in {"pending", "approved", "rejected"}, otherNote \in BOOLEAN :
                      JudgeDocument(p, verdict, otherNote)
                \/ \E verdict \in {"pending", "under_review", "approved", "rejected"} : JudgeAccount(p, verdict)
    \/ \E l \in letters, fate \in {"delivered", "lost"} : Fate(l, fate)
    \/ Halt

TidingsSpec == TidingsInit /\ [][TidingsNext]_tidingVars

-----------------------------------------------------------------------------
\* Properties

PostOf(e) == {l \in letters : l.no = e.no}
RungBy(e) == {b \in bells : b.no = e.no}

\* What concerns both, whoever did it
MoneyAndMeetings == {"payment", "refund", "confirmed", "meeting", "no_meeting"}

\* What a party does is made known to the other by a notification that is there as soon as
\* the change is and never without it; only a booking that is requested, and verdicts that
\* are taken back, are told to nobody, and verdicts on an account by e-mail alone.
OthersTold ==
    /\ \A b \in bells : \E e \in ToSet(journal) : e.no = b.no
    /\ \A e \in ToSet(journal) :
          LET heard == {b.to : b \in RungBy(e)} IN
          /\ e.by \in {"seeker", "advisor"} /\ e.op \notin {"request", "register", "link", "judge_document"}
                => Counterparty(e.by) \in heard
          /\ e.op = "judge_document" /\ e.row.status # "pending" => "seeker" \in heard
          /\ \A b \in RungBy(e) : b.to = e.by => b.kind \in MoneyAndMeetings
          /\ e.op = "expire" => {"seeker", "advisor"} \subseteq heard

\* Two letters give one verdict only if the second request had read the row before the first
\* was committed, brought another note, or something else was decided in between.
VerdictsOnce ==
    \A i, j \in DOMAIN journal :
        LET one == journal[i]  two == journal[j] IN
        i < j /\ one.op \in {"judge_document", "judge_account"}
        /\ (\E l \in PostOf(one), m \in PostOf(two) : l.to = m.to /\ l.kind = m.kind)
          => \/ two.since < i
             \/ two.row.told # journal[two.since].row.told
             \/ \E k \in i .. j : journal[k].row.status # one.row.status

\* Who cancels a paid booking gets one letter that names the refund, the money went back with
\* that change, and the advisor is not told of it.
RefundTold ==
    \A e \in ToSet(journal) :
        /\ \A l \in PostOf(e) : l.refund > 0 =>
              l.to = "seeker" /\ e.row.paid = "refunded" /\ e.before.paid = "paid"
        /\ e.op = "cancel" /\ e.row.paid # e.before.paid => \E l \in PostOf(e) : l.refund > 0
        /\ e.row.paid = "refunded" /\ e.before.paid # "refunded"
              => \E b \in RungBy(e) : b.to = "seeker" /\ b.kind = "refund"

\* A meeting's links go to both parties or to neither, when the booking got its meeting; and
\* a letter names the time that the booking has by that change.
LinksTold ==
    \A e \in ToSet(journal) :
        LET links == {l.kind : l \in PostOf(e)} \cap {"join_link", "host_link"} IN
        /\ links \in {{}, {"join_link", "host_link"}}
        /\ links # {} <=> e.row.meeting /\ ~e.before.meeting
        /\ \A l \in PostOf(e) : l.start = e.row.start

\* notification_service and email_service: whatever is interleaved, rolled back or lost, what
\* was done is told to those it concerns, in the words of what was done.
TidingsTrue == OthersTold /\ VerdictsOnce /\ RefundTold /\ LinksTold

=============================================================================
