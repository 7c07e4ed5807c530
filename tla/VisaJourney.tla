---------------------------- MODULE VisaJourney -----------------------------
(* The seeker's way to a visa (visa_journey_service, seeker_dashboard_service, *)
(* seeker_recommendation_service): the advisors recommended for the intent of *)
(* the profile, which are saved, and the steps, which are not: they are       *)
(* computed from those, from the bookings and from the documents whenever     *)
(* they are shown.  Only the submission is written down.                      *)
(*                                                                            *)
(* Bookings and documents are seen as the journey reads them; how they move   *)
(* is in BookingPayment, BookingDesk and SeekerDocuments.                     *)
EXTENDS Naturals, FiniteSets, FiniteSetsExt, Functions

CONSTANTS
    Intents,    \* what a profile may intend: lists of destinations and visa types
    Primary,    \* the first destination and visa type of an intent
    Served,     \* the intents for which an advisor is found
    NoIntent,
    Sessions,   \* the seeker's bookings
    Required,   \* REQUIRED_CHECKLIST
    Pages       \* requests that may be in progress at once

ASSUME JourneyAssumption ==
    /\ Served \subseteq Intents /\ NoIntent \notin Intents /\ DOMAIN Primary = Intents
    /\ IsFiniteSet(Required) /\ Required # {}

VARIABLES
    intent,    \* of the profile
    matches,   \* the intent of the rows of seeker_advisor_recommendations
    engaged,   \* the seeker has a chat with an advisor, or bookmarked one
    sessions,  \* the bookings: whether active, paid, and what is requested
    papers,    \* the best document of each required category
    spare,     \* some other document is rejected
    submitted, \* application_submitted_at is set
    page,      \* the requests in progress, with what they have read
    outrun     \* history: the matches are of an intent read beside a change of it

journeyVars == <<intent, matches, engaged, sessions, papers, spare, submitted, page, outrun>>

-----------------------------------------------------------------------------
Session == [status : {"none", "active", "over"}, paid : BOOLEAN,
            request : {"none", "requested", "fulfilled"}]

Page == [op : {"onboarding", "profile", "dashboard", "journey", "submit"},
         intent : Intents \cup {NoIntent}, to : Intents \cup {NoIntent}]

NoPage == [op |-> "idle"]

JourneyTypeOK ==
    /\ intent \in Intents \cup {NoIntent} /\ matches \in Served \cup {NoIntent}
    /\ sessions \in [Sessions -> Session]
    /\ papers \in [Required -> {"missing", "under_review", "rejected", "approved"}]
    /\ {engaged, spare, submitted, outrun} \subseteq BOOLEAN
    /\ \A p \in Pages : page[p] = NoPage \/ page[p] \in Page

JourneyInit ==
    /\ intent = NoIntent /\ matches = NoIntent
    /\ engaged = FALSE /\ submitted = FALSE /\ spare = FALSE /\ outrun = FALSE
    /\ sessions = [s \in Sessions |-> [status |-> "none", paid |-> FALSE, request |-> "none"]]
    /\ papers = [k \in Required |-> "missing"]
    /\ page = [p \in Pages |-> NoPage]

-----------------------------------------------------------------------------
\* The recommendations

\* build_profile_match_case and match_from_context
MatchFor(i) == IF i \in Served THEN i ELSE NoIntent

\* _profile_recommendations: refreshed when there are none, and filtered.
Recommended(scope) ==
    LET m == IF matches = NoIntent THEN MatchFor(intent) ELSE matches IN
    m # NoIntent /\ (scope = "all" \/ Primary[m] = scope)

-----------------------------------------------------------------------------
\* The steps.  Each is unlocked by the one before.

Current == {s \in Sessions : sessions[s].status = "active"}

\* _advisor_status
AdvisorStep(unlocked) ==
    CASE unlocked /\ (\E s \in Current : sessions[s].paid) -> "completed"
      [] unlocked /\ (\A s \in Current : ~sessions[s].paid) /\ (Current # {} \/ engaged) -> "in_progress"
      [] OTHER -> "pending"

Rejected == spare \/ \E k \in Required : papers[k] = "rejected"

Approved == {k \in Required : papers[k] = "approved"}

\* _documentation_status: a rejected document keeps the step open.
DocumentStep(unlocked) ==
    CASE unlocked /\ Approved = Required /\ ~Rejected -> "completed"
      [] unlocked /\ (Rejected \/ (Approved # Required /\ \E k \in Required : papers[k] # "missing"))
           -> "in_progress"
      [] OTHER -> "pending"

\* compute_state: one paid booking, or one of all, that has no open request will do.
Prepared ==
    LET paid == {s \in Current : sessions[s].paid} IN
    Current = {} \/ \E s \in (IF paid = {} THEN Current ELSE paid) : sessions[s].request # "requested"

\* _app_prep_status
ReviewStep(unlocked) ==
    CASE unlocked /\ Prepared -> "completed"
      [] unlocked /\ ~Prepared -> "in_progress"
      [] OTHER -> "pending"

\* _submission_status
SubmissionStep(unlocked) ==
    CASE unlocked /\ submitted -> "completed"
      [] unlocked /\ ~submitted -> "in_progress"
      [] OTHER -> "pending"

StepKeys == {"assessment", "advisor", "documentation", "application_preparation", "submission"}

VisibleStepKeys == StepKeys \ {"application_preparation"}

\* compute_state
Statuses(scope) ==
    LET recommended == Recommended(scope)
        advisor == AdvisorStep(recommended)
        documents == DocumentStep(advisor # "pending")
        review == ReviewStep(documents = "completed")
    IN [assessment |-> IF recommended THEN "completed" ELSE "pending",
        advisor |-> advisor, documentation |-> documents, application_preparation |-> review,
        submission |-> SubmissionStep(review = "completed")]

-----------------------------------------------------------------------------
\* The figures

\* int(round(n / d)) of Python: a half goes to the even neighbour.
Nearest(n, d) ==
    LET low == n \div d
        rest == 2 * (n % d)
    IN IF rest > d \/ (rest = d /\ low % 2 = 1) THEN low + 1 ELSE low

\* documentation_progress
DocumentProgress == Nearest(100 * Cardinality(Approved), Cardinality(Required))

\* weighted_progress
Percent(key, status) ==
    CASE status = "completed" -> 100
      [] status = "in_progress" -> IF key = "documentation" THEN DocumentProgress ELSE 50
      [] OTHER -> 0

OverallProgress(statuses) ==
    Nearest(FoldFunctionOnSet(+, 0, [k \in StepKeys |-> Percent(k, statuses[k])], VisibleStepKeys),
            Cardinality(VisibleStepKeys))

\* application_status_state
ApplicationState(statuses) ==
    CASE \A k \in StepKeys : statuses[k] = "completed" -> "completed"
      [] \A k \in StepKeys : statuses[k] = "pending" -> "pending"
      [] OTHER -> "in_progress"

\* get_journey: the step that is shown as the current one
CurrentStatus(statuses) ==
    LET shown == {statuses[k] : k \in VisibleStepKeys} IN
    CASE "in_progress" \in shown -> "in_progress"
      [] "in_progress" \notin shown /\ "pending" \in shown -> "pending"
      [] OTHER -> "completed"

-----------------------------------------------------------------------------
\* The requests, and what each of them reads first.  Of the scopes of resolve_scope none
\* completes more steps than "all".

OpenPage(p, op, to) ==
    /\ page[p] = NoPage
    /\ op \in {"onboarding", "profile"} <=> to # NoIntent
    /\ op = "submit" => Statuses("all")["application_preparation"] = "completed"
    /\ page' = [page EXCEPT ![p] = [op |-> op, intent |-> intent, to |-> to]]
    /\ UNCHANGED <<intent, matches, engaged, sessions, papers, spare, submitted, outrun>>

ClosePage(p) == page' = [page EXCEPT ![p] = NoPage]

\* refresh_for_seeker: what is saved is replaced, for the intent the request has read.
ReplaceMatches(i, current) ==
    /\ matches' = MatchFor(i)
    /\ outrun' = ~current

\* Mutation: a change of the profile does not look at the recommendations.
SaveProfileAlone(p) ==
    LET s == page[p] IN
    /\ s.op \in {"onboarding", "profile"}
    /\ intent' = s.to
    /\ ClosePage(p)
    /\ UNCHANGED <<matches, engaged, sessions, papers, spare, submitted, outrun>>

\* complete_onboarding and update_my_profile: matched again by the onboarding, and when the
\* first destination or visa type changes.  If another request has changed the lists
\* meanwhile, those of the two are merged, and either may come first.
SaveProfile(p) ==
    LET s == page[p]
        current == s.intent = intent
        first(i) == IF i = NoIntent THEN NoIntent ELSE Primary[i]
    IN /\ s.op \in {"onboarding", "profile"}
       /\ intent' \in (IF current THEN {s.to} ELSE {s.to, intent})
       /\ IF s.op = "onboarding" \/ first(s.to) # first(s.intent)
          THEN ReplaceMatches(intent', current)
          ELSE UNCHANGED matches /\ outrun' = (outrun \/ ~current)
       /\ ClosePage(p)
       /\ UNCHANGED <<engaged, sessions, papers, spare, submitted>>

\* matches_for_dashboard, which always matches again; compute_state, when nothing is saved
SaveMatches(p) ==
    LET s == page[p] IN
    /\ s.op = "dashboard" \/ (s.op = "journey" /\ matches = NoIntent)
    /\ ReplaceMatches(s.intent, s.intent = intent)
    /\ ClosePage(p)
    /\ UNCHANGED <<intent, engaged, sessions, papers, spare, submitted>>

ShowJourney(p) ==
    /\ page[p].op = "journey" /\ matches # NoIntent
    /\ ClosePage(p)
    /\ UNCHANGED <<intent, matches, engaged, sessions, papers, spare, submitted, outrun>>

\* submit_application, of what was complete when it was read
SaveSubmitted(p) ==
    /\ page[p].op = "submit"
    /\ submitted' = TRUE
    /\ IF matches = NoIntent THEN ReplaceMatches(page[p].intent, page[p].intent = intent)
       ELSE UNCHANGED <<matches, outrun>>
    /\ ClosePage(p)
    /\ UNCHANGED <<intent, engaged, sessions, papers, spare>>

\* A request fails: of two that replace the recommendations at once the second violates
\* UniqueConstraint("seeker_id", "advisor_id").
StopPage(p) ==
    /\ page[p] # NoPage /\ ClosePage(p)
    /\ UNCHANGED <<intent, matches, engaged, sessions, papers, spare, submitted, outrun>>

-----------------------------------------------------------------------------
\* What the journey depends on

\* A chat is begun or archived, an advisor bookmarked or not any more.
Engage ==
    /\ engaged' = ~engaged
    /\ UNCHANGED <<intent, matches, sessions, papers, spare, submitted, page, outrun>>

\* Booked, paid, refunded, called off or over, asked for a document, answered.
SessionMoves(s) ==
    LET b == sessions[s] IN
    /\ \/ b.status = "none" /\ sessions' = [sessions EXCEPT ![s].status = "active"]
       \/ b.status = "active" /\ \E over \in {"active", "over"}, request \in {"none", "requested", "fulfilled"} :
            sessions' = [sessions EXCEPT ![s] = [status |-> over, paid |-> ~b.paid, request |-> request]]
       \/ b.status = "active" /\ \E request \in {"none", "requested", "fulfilled"} \ {b.request} :
            sessions' = [sessions EXCEPT ![s].request = request]
       \/ b.status = "active" /\ sessions' = [sessions EXCEPT ![s].status = "over"]
    /\ UNCHANGED <<intent, matches, engaged, papers, spare, submitted, page, outrun>>

\* Uploaded, replaced, reviewed, archived.
PaperMoves ==
    /\ \/ \E k \in Required, status \in {"missing", "under_review", "rejected", "approved"} :
            status # papers[k] /\ papers' = [papers EXCEPT ![k] = status] /\ UNCHANGED spare
       \/ spare' = ~spare /\ UNCHANGED papers
    /\ UNCHANGED <<intent, matches, engaged, sessions, submitted, page, outrun>>

JourneyNext ==
    \/ \E p \in Pages :
         \/ \E op \in {"onboarding", "profile"}, to \in Intents : OpenPage(p, op, to)
         \/ \E op \in {"dashboard", "journey", "submit"} : OpenPage(p, op, NoIntent)
         \/ SaveProfile(p) \/ SaveMatches(p) \/ ShowJourney(p) \/ SaveSubmitted(p) \/ StopPage(p)
    \/ Engage
    \/ \E s \in Sessions : SessionMoves(s)
    \/ PaperMoves

JourneySpec == JourneyInit /\ [][JourneyNext]_journeyVars

-----------------------------------------------------------------------------
\* The journey cover is full exactly when the application is shown as completed and there is
\* no step to be taken, hidden ones included, whatever of it is undone after the submission.
FullMeansDone ==
    \A scope \in {"all"} \cup {Primary[i] : i \in Intents} :
        LET statuses == Statuses(scope)
            full == OverallProgress(statuses) = 100
        IN /\ full <=> ApplicationState(statuses) = "completed"
           /\ full <=> CurrentStatus(statuses) = "completed"

\* The advisors that are recommended are those for the first destination and visa type of
\* the profile, unless a request that had read another intent has saved them.
MatchesCurrent == matches # NoIntent => outrun \/ (intent # NoIntent /\ Primary[matches] = Primary[intent])

JourneyHonest == FullMeansDone /\ MatchesCurrent

=============================================================================
