------------------------------ MODULE MCCases -------------------------------
(* The components through which a seeker's case passes, on small instances:   *)
(* the assessment, the leads it makes, the services and the links an advisor  *)
(* needs, what the parties of a booking see and are told, what is paid and    *)
(* earned, and the journey.  They share no state with one another; a          *)
(* behaviour takes place in one scene, which says which component is at work, *)
(* which of its operations and on how much of it.                             *)
EXTENDS AdvisorConnections, OfferedServices, AdvisorLeads, Assessments, BookingDesk, VisaJourney,
        FinanceBooks, BookingScreens, Tidings, LiveSockets

CONSTANTS p1, p2, s1, s2, q1, q2, o1, o2, o3, o4, o5, i1, i2, i3, b1, b2

VARIABLE scene

\* Requests are alike.
Symmetry == Permutations({p1, p2})

Open(calls, idle) == Cardinality({p \in DOMAIN calls : calls[p] # idle})

-----------------------------------------------------------------------------
\* What the constants stand for

\* An advisor with everything, one with no more than the gate asks for, one it holds back.
Strong == [country |-> TRUE, visa |-> TRUE, language |-> TRUE, services |-> "offered",
           years |-> 20, rating |-> 5]

SampleCases ==
    {Strong,
     [country |-> TRUE, visa |-> TRUE, language |-> FALSE, services |-> "missing",
      years |-> 0, rating |-> 0],
     [Strong EXCEPT !.visa = FALSE]}

\* Two questions, the second of which is asked only of those who chose o1.
SampleOptionOf == o1 :> q1 @@ o2 :> q1 @@ o5 :> q1 @@ o3 :> q2 @@ o4 :> q2
SampleWorth == o1 :> 100 @@ o2 :> 0 @@ o5 :> 0 @@ o3 :> 100 @@ o4 :> 40
SampleWeight == q1 :> 2 @@ q2 :> 1
SampleTrigger == q1 :> Always @@ q2 :> o1
SampleCategory == q1 :> "money" @@ q2 :> "ties"

\* Two intents with the same first destination and visa type, and one with another.
SamplePrimary == i1 :> "work" @@ i2 :> "work" @@ i3 :> "study"

-----------------------------------------------------------------------------
ConnectionBy(menu) ==
    /\ ConnectionNext
    /\ \A p \in Linkers : linking'[p].op \in menu \cup {"idle"}

ConnectionStep ==
    \/ scene = "zoom"   /\ ConnectionBy({"callback", "token", "disconnect"})
    \/ scene = "stripe" /\ ConnectionBy({"connect", "status", "event", "clear"})

OfferStep ==
    \/ scene = "services" /\ OfferNext /\ catalog' \subseteq {s1}
    \/ scene = "catalog"  /\ OfferNext /\ Open(editing', NotEditing) <= 1

LeadBy(menu, leaders) ==
    /\ LeadNext
    /\ \A p \in Leaders : leading'[p].op \in menu \cup {"idle"}
    /\ Open(leading', NotLeading) <= leaders

LeadStep ==
    \/ scene = "matching" /\ LeadBy({"match"}, 2)
    \/ scene = "leads"    /\ LeadBy({"match", "viewed", "contacted", "dismissed", "link"}, 1)

AssessmentStep ==
    \/ /\ scene = "answers" /\ AssessmentNext
       /\ o5 \notin choices'
       /\ submits > 0 => UNCHANGED questionVars
    \/ /\ scene = "questions" /\ AssessmentNext /\ submits' <= 2
       /\ Open(submitting', NoSubmission) <= 1

DeskBy(menu, visitors, hours) ==
    /\ DeskNext
    /\ \A p \in Visitors : visiting'[p].op \in menu \cup {"idle"}
    /\ Open(visiting', NoVisit) <= visitors
    /\ hour' <= hours

DeskStep ==
    \/ scene = "news"    /\ DeskBy({"note", "ask", "fulfill", "read"}, 2, 0)
    \/ scene = "buttons" /\ DeskBy(RowOps, 1, MaxHour) /\ moment' < MaxMoments - 1

\* One page at a time, that saves an intent or submits
OnePage ==
    /\ Open(page', NoPage) <= 1
    /\ \A p \in Pages : page'[p] # NoPage =>
          page'[p].op \in {"onboarding", "submit"} /\ page'[p].to \in {i1, NoIntent}

JourneyStep ==
    \/ /\ scene = "profile" /\ JourneyNext
       /\ UNCHANGED <<engaged, sessions, papers, spare>>
    \/ /\ scene = "visits" /\ JourneyNext
       /\ UNCHANGED <<engaged, spare>>
       /\ OnePage
    \/ /\ scene = "journey" /\ JourneyNext
       /\ sessions'[b2] = sessions[b2]
       /\ OnePage

-----------------------------------------------------------------------------
\* Changes and what is said of them; the mail server is looked at with one change.
TidingsStep ==
    \/ /\ scene = "tidings" /\ TidingsNext
       /\ \A l \in letters' : l.fate = "waiting"
       /\ topic = "booking" => serial' <= 2
    \/ scene = "post"    /\ TidingsNext /\ serial' <= 1

\* What the parties' browsers show while messages are sent, read and deleted: the scenes
\* differ in who is looking at what and in what is done.
LiveBy(menu, lines, looking) ==
    /\ LiveNext
    /\ taken' <= lines
    /\ \A p \in Handlers : handler'[p].op \in menu \cup {"idle"}
    /\ \A u \in Sides : /\ (<<"window", u>> \notin looking => window'[u].wire = "none")
                         /\ (<<"inbox", u>> \notin looking => inbox'[u].wire = "none")

\* No message is moderated.
Standing == \A t \in LineIds : line'[t] # NoLine => ~line'[t].removed

\* Who does what, of the requests in progress
Doing(op, u) == \A p \in Handlers : handler'[p].op = op => handler'[p].by = u

LiveStep ==
    \/ /\ scene = "thread"
       /\ LiveBy({"send", "read", "receipt"}, 1, {"window"} \X Sides) /\ Standing
       /\ Doing("send", "seeker")
    \/ /\ scene = "badge" /\ LiveBy({"send", "read"}, 2, {<<"inbox", "advisor">>}) /\ Standing
       /\ Doing("send", "seeker") /\ Doing("read", "advisor") /\ inbox'["advisor"].wire # "dead"
    \/ /\ scene = "preview" /\ LiveBy({"send", "delete"}, 2, {<<"inbox", "advisor">>}) /\ Standing
       /\ Doing("send", "seeker") /\ Doing("delete", "seeker") /\ inbox'["advisor"].wire # "dead"
    \/ /\ scene = "looking"
       /\ LiveBy({"send", "edit", "delete", "read"}, 1, {"window", "inbox"} \X {"advisor"})
       /\ handler'[p2] = NoJob /\ Doing("send", "seeker")

-----------------------------------------------------------------------------
LiveScenes == {"thread", "badge", "preview", "looking"}

Scenes == LiveScenes \cup {"books", "agenda", "tidings", "post"} \cup
          {"zoom", "stripe", "services", "catalog", "matching", "leads", "answers", "questions",
           "news", "buttons", "profile", "journey", "visits"}

\* Leads are looked at in their scenes only; everywhere else there is one advisor like another.
MCInit ==
    /\ ConnectionInit /\ OfferInit /\ LeadInit /\ AssessmentInit /\ DeskInit /\ JourneyInit
    /\ BooksInit /\ ScreensInit /\ TidingsInit /\ LiveInit
    /\ scene \in Scenes
    /\ scene \notin {"matching", "leads"} => facts = [a \in Matched |-> Strong] /\ listed = Matched
    /\ scene \notin {"news", "buttons"} => booking.payable /\ booking.by = "seeker"
    /\ scene \notin {"tidings", "post"} => row = Blank("none") /\ topic = "booking"

caseVars == <<connectionVars, offerVars, leadVars, assessmentVars, bookingDeskVars, journeyVars,
              bookVars, screenVars, tidingVars, liveVars, scene>>

MCNext ==
    /\ UNCHANGED scene
    /\ IF scene \in {"zoom", "stripe"} THEN ConnectionStep ELSE UNCHANGED connectionVars
    /\ IF scene \in {"services", "catalog"} THEN OfferStep ELSE UNCHANGED offerVars
    /\ IF scene \in {"matching", "leads"} THEN LeadStep ELSE UNCHANGED leadVars
    /\ IF scene \in {"answers", "questions"} THEN AssessmentStep ELSE UNCHANGED assessmentVars
    /\ IF scene \in {"news", "buttons"} THEN DeskStep ELSE UNCHANGED bookingDeskVars
    /\ IF scene \in {"profile", "journey", "visits"} THEN JourneyStep ELSE UNCHANGED journeyVars
    /\ IF scene = "books" THEN BooksNext ELSE UNCHANGED bookVars
    /\ IF scene = "agenda" THEN ScreensNext ELSE UNCHANGED screenVars
    /\ IF scene \in {"tidings", "post"} THEN TidingsStep ELSE UNCHANGED tidingVars
    /\ IF scene \in LiveScenes THEN LiveStep ELSE UNCHANGED liveVars

MCSpec == MCInit /\ [][MCNext]_caseVars

-----------------------------------------------------------------------------
\* Every row, and what every request in progress has read, has its type: a score is at most
\* a full one, an option belongs to a question that is there, an offering to a catalog row.
CasesTypeOK ==
    /\ ConnectionTypeOK /\ OfferTypeOK /\ LeadTypeOK /\ AssessmentTypeOK /\ DeskTypeOK
    /\ JourneyTypeOK /\ BooksTypeOK /\ ScreensTypeOK /\ TidingsTypeOK /\ LiveTypeOK

\* What a seeker may book with an advisor and pay for is there: the service, and the account.
OffersHonest == GateHonest /\ BookedIsOffered

\* What a seeker is told after an assessment - whom it matches, and what the score stands
\* on - follows from what was found then.
FindingsGrounded == LeadsAsGated /\ ResultExplained

\* Each party's screens agree on what was paid, withheld and paid out,
BooksShown == scene = "books" => BooksAgree

\* and on the bookings;
AgendaShown == scene = "agenda" => ScreensAgree

\* what somebody was told is true,
ToldTrue == scene \in {"tidings", "post"} => TidingsTrue

\* and so is what their browser shows of a conversation.
WindowsTrue == scene \in LiveScenes => LiveTrue

=============================================================================
