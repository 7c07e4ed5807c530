--------------------------- MODULE PlatformFigures ---------------------------
(* The administrators' home screen and analytics tabs (dashboard_service,     *)
(* analytics_service): who registered, what came of it, how the assessments   *)
(* led to bookings, and what happened lately.  Every figure is computed anew  *)
(* from rows that other components write; the actions are those writes, each  *)
(* at an instant of its own.                                                  *)
EXTENDS Tables, Integers, SequencesExt

CONSTANTS
    VisaTypes,
    DayLength, MonthLength,  \* in instants
    FeedPage,                \* rows of a page of the activity feed
    MaxTime, MaxPeople, MaxCases, MaxSessions

ASSUME LengthAssumption == DayLength \in Nat \ {0} /\ MonthLength \in Nat \ {0}
ASSUME FeedAssumption == FeedPage \in Nat \ {0}
\* The bounds leave room for the founders.
ASSUME RoomAssumption ==
    /\ MaxTime \in Nat \ {0, 1} /\ MaxPeople \in Nat \ {0, 1}
    /\ MaxCases \in Nat /\ MaxSessions \in Nat

VARIABLES
    people,    \* users rows, oldest first
    cases,     \* assessments rows, oldest first
    sessions,  \* bookings rows, oldest first
    attendance,    \* activity_log: who was there on which day
    time

figureVars == <<people, cases, sessions, attendance, time>>

-----------------------------------------------------------------------------
Tiers == {"highly_eligible", "likely_eligible", "borderline", "low_eligibility"}

Person == [role : {"seeker", "advisor", "admin"}, joined : 0 .. MaxTime,
           confirmed : BOOLEAN, approved : BOOLEAN, active : BOOLEAN]
Case == [by : 1 .. MaxPeople, visa : VisaTypes, created : 0 .. MaxTime,
         completed : BOOLEAN, tier : Tiers \cup {"none"}, lead : BOOLEAN]
Session == [seeker : 1 .. MaxPeople, advisor : 1 .. MaxPeople, created : 0 .. MaxTime,
            updated : 0 .. MaxTime, start : 0 .. MaxTime + 1,
            status : {"pending", "confirmed", "completed"}]

FiguresTypeOK ==
    /\ people \in Seq(Person) /\ Len(people) <= MaxPeople
    /\ cases \in Seq(Case) /\ Len(cases) <= MaxCases
    /\ sessions \in Seq(Session) /\ Len(sessions) <= MaxSessions
    /\ attendance \subseteq (DOMAIN people) \X (0 .. MaxTime)
    /\ time \in 0 .. MaxTime

\* The platform is new, or has a seeker and an advisor already.
Founders == <<[role |-> "seeker", joined |-> 0, confirmed |-> TRUE, approved |-> FALSE, active |-> TRUE],
              [role |-> "advisor", joined |-> 1, confirmed |-> TRUE, approved |-> TRUE, active |-> TRUE]>>

FiguresInit ==
    /\ people \in {<<>>, Founders} /\ cases = <<>> /\ sessions = <<>> /\ attendance = {}
    /\ time = Len(people)

Passes == time < MaxTime /\ time' = time + 1

DayOf(t) == t \div DayLength
MonthOf(t) == t \div MonthLength

-----------------------------------------------------------------------------
\* What is written

\* Who registers was there on that day; an administrator's address counts as confirmed.
Register(role) ==
    /\ Passes /\ Len(people) < MaxPeople
    /\ people' = Append(people, [role |-> role, joined |-> time, confirmed |-> role = "admin",
                                 approved |-> FALSE, active |-> TRUE])
    /\ UNCHANGED <<cases, sessions, attendance>>

Return(u) ==
    /\ Passes /\ people[u].active
    /\ attendance' = attendance \cup {<<u, DayOf(time)>>}
    /\ UNCHANGED <<people, cases, sessions>>

Confirm(u) ==
    /\ Passes /\ ~people[u].confirmed
    /\ people' = [people EXCEPT ![u].confirmed = TRUE]
    /\ UNCHANGED <<cases, sessions, attendance>>

Approve(u) ==
    /\ Passes /\ people[u].role = "advisor" /\ ~people[u].approved
    /\ people' = [people EXCEPT ![u].approved = TRUE]
    /\ UNCHANGED <<cases, sessions, attendance>>

Suspend(u) ==
    /\ Passes /\ people[u].active /\ people[u].role # "admin"
    /\ people' = [people EXCEPT ![u].active = FALSE]
    /\ UNCHANGED <<cases, sessions, attendance>>

Assess(u, visa) ==
    /\ Passes /\ people[u].role = "seeker" /\ people[u].active /\ Len(cases) < MaxCases
    /\ cases' = Append(cases, [by |-> u, visa |-> visa, created |-> time, completed |-> FALSE,
                               tier |-> "none", lead |-> FALSE])
    /\ UNCHANGED <<people, sessions, attendance>>

\* Submitted: the tier is given, and the matching may have made a lead of it.
Conclude(k, tier, lead) ==
    /\ Passes /\ ~cases[k].completed
    /\ cases' = [cases EXCEPT ![k].completed = TRUE, ![k].tier = tier, ![k].lead = lead]
    /\ UNCHANGED <<people, sessions, attendance>>

Reserve(s, a) ==
    /\ Passes /\ Len(sessions) < MaxSessions
    /\ people[s].role = "seeker" /\ people[a].role = "advisor" /\ people[a].approved
    /\ sessions' = Append(sessions, [seeker |-> s, advisor |-> a, created |-> time,
                                     updated |-> time, start |-> time + 1, status |-> "pending"])
    /\ UNCHANGED <<people, cases, attendance>>

Proceed(b) ==
    /\ Passes /\ sessions[b].status # "completed"
    /\ sessions' = [sessions EXCEPT
           ![b].status = IF @ = "pending" THEN "confirmed" ELSE "completed", ![b].updated = time]
    /\ UNCHANGED <<people, cases, attendance>>

FiguresNext ==
    \/ \E role \in {"seeker", "advisor", "admin"} : Register(role)
    \/ \E u \in DOMAIN people :
          \/ Return(u) \/ Confirm(u) \/ Approve(u) \/ Suspend(u)
          \/ \E visa \in VisaTypes : Assess(u, visa)
          \/ \E a \in DOMAIN people : Reserve(u, a)
    \/ \E k \in DOMAIN cases, tier \in Tiers, lead \in BOOLEAN : Conclude(k, tier, lead)
    \/ \E b \in DOMAIN sessions : Proceed(b)

FiguresSpec == FiguresInit /\ [][FiguresNext]_figureVars

-----------------------------------------------------------------------------
\* The home screen

JoinedSince(since) == {u \in DOMAIN people : people[u].joined >= since}
Count(S) == Cardinality(S)

\* Mutation: the present month is not counted as one of them.
AMonthTooMany(filter) ==
    IF filter.months = 0 THEN time - filter.days
    ELSE LET first == MonthLength * (MonthOf(time) - filter.months) IN
         IF first < 0 THEN 0 ELSE first

\* _dashboard_since: filters of several months begin with a month, the others count back.
dashboard_since(filter) ==
    IF filter.months = 0 THEN time - filter.days
    ELSE LET first == MonthLength * (MonthOf(time) - (filter.months - 1)) IN
         IF first < 0 THEN 0 ELSE first

\* _user_stat_counts
stat_counts(since) ==
    LET joined == JoinedSince(since)
        advisors == {u \in joined : people[u].role = "advisor"} IN
    [users     |-> Count({u \in joined : people[u].role # "admin"}),
     seekers   |-> Count({u \in joined : people[u].role = "seeker"}),
     confirmed |-> Count({u \in joined : people[u].role = "seeker" /\ people[u].confirmed}),
     advisors  |-> Count(advisors),
     approved  |-> Count({u \in advisors : people[u].approved}),
     active    |-> Count({u \in advisors : people[u].approved /\ people[u].active})]

\* _grouped_timestamp_counts: how many of the rows fall into each bucket
CountsBy(bucket) ==
    [x \in Range(bucket) |-> Count({k \in DOMAIN bucket : bucket[k] = x})]

\* _trend_from_counts: every bucket from the window's first to the present one, empty ones too
ZeroFilled(counts, first, last) ==
    [x \in first .. last |-> IF x \in DOMAIN counts THEN counts[x] ELSE 0]

Bucket(t, daily) == IF daily THEN DayOf(t) ELSE MonthOf(t)

registration_trend(since, daily) ==
    LET S == {u \in JoinedSince(since) : people[u].role # "admin"}
        counts == CountsBy([u \in S |-> Bucket(people[u].joined, daily)]) IN
    ZeroFilled(counts, Bucket(IF since < 0 THEN 0 ELSE since, daily), Bucket(time, daily))

assessment_volume(since, daily) ==
    LET S == {k \in DOMAIN cases : cases[k].created >= since}
        counts == CountsBy([k \in S |-> Bucket(cases[k].created, daily)]) IN
    ZeroFilled(counts, Bucket(IF since < 0 THEN 0 ELSE since, daily), Bucket(time, daily))

\* get_dashboard_summary
dashboard_summary(filter, daily) ==
    LET since == dashboard_since(filter) IN
    [stats |-> stat_counts(since), users |-> registration_trend(since, daily),
     volume |-> assessment_volume(since, daily)]

\* _activity_union_stmt: what happened, from the tables it happened in
ActivityUnion(since) ==
    {[at |-> people[u].joined, kind |-> "registered", of |-> u] :
        u \in {v \in JoinedSince(since) : people[v].role = "seeker"}}
    \cup {[at |-> people[u].joined, kind |-> "applied", of |-> u] :
        u \in {v \in JoinedSince(since) : people[v].role = "advisor"}}
    \cup {[at |-> sessions[b].updated, kind |-> "completed", of |-> b] :
        b \in {c \in DOMAIN sessions : sessions[c].status = "completed" /\ sessions[c].updated >= since}}

Feed(since) ==
    LET union == ActivityUnion(since) IN Descending(union, [e \in union |-> e.at])

\* _activity_rows
FeedRows(since, offset, limit) ==
    LET feed == Feed(since)
        end == IF offset + limit < Len(feed) THEN offset + limit ELSE Len(feed) IN
    SubSeq(feed, offset + 1, end)

\* page_meta
Pages(total) == (total + FeedPage - 1) \div FeedPage

-----------------------------------------------------------------------------
\* The analytics tabs

overview(since) ==
    [users    |-> Count(JoinedSince(since)),
     advisors |-> Count({u \in JoinedSince(since) : people[u].role = "advisor"}),
     active   |-> Count({u \in DOMAIN people : people[u].role = "advisor" /\ people[u].active
                                               /\ people[u].approved}),
     booked   |-> Count({b \in DOMAIN sessions : sessions[b].status \in {"confirmed", "completed"}
                                                 /\ sessions[b].start >= since}),
     assessed |-> Count({k \in DOMAIN cases : cases[k].completed /\ cases[k].created >= since})]

onboarding_funnel(since) ==
    LET verified == {u \in JoinedSince(since) : people[u].confirmed}
        assessed == {cases[k].by : k \in {c \in DOMAIN cases : cases[c].completed}}
        booked == {sessions[b].seeker : b \in DOMAIN sessions}
        served == {sessions[b].advisor : b \in {c \in DOMAIN sessions : sessions[c].status = "completed"}}
        activated == {u \in verified : \/ people[u].role = "seeker" /\ u \in assessed
                                       \/ people[u].role = "advisor" /\ people[u].approved}
        engaged == {u \in activated : \/ people[u].role = "seeker" /\ u \in booked
                                      \/ people[u].role = "advisor" /\ u \in served} IN
    [registered |-> Count(JoinedSince(since)), verified |-> Count(verified),
     activated |-> Count(activated), engaged |-> Count(engaged)]

TooYoung == -1

\* Percentages are in hundredths of a percent.
Whole == 10000

\* round(n / d), of a figure n in hundredths or tenths of a percent; of two integers that are
\* as near this is the larger.
Rounded(n, d) == (2 * n + d) \div (2 * d)

\* _retention: of those who joined on a day, the part that was there so many days later; the
\* attendance that are loaded begin with the window.
retention(since, day, later) ==
    LET cohort == {u \in JoinedSince(since) : DayOf(people[u].joined) = day}
        loaded == {v \in attendance : v[2] >= DayOf(IF since < 0 THEN 0 ELSE since)}
        back == {u \in cohort : <<u, day + later>> \in loaded} IN
    IF day + later > DayOf(time) THEN TooYoung
    ELSE IF cohort = {} THEN 0 ELSE Rounded(Whole * Count(back), Count(cohort))

\* _ai_visa_counts, over a window
VisaCounts(from, to) ==
    [v \in VisaTypes |-> Count({k \in DOMAIN cases : cases[k].visa = v
                                  /\ from <= cases[k].created /\ cases[k].created < to})]

High == {"highly_eligible"}
Medium == {"likely_eligible"}
Low == {"borderline", "low_eligibility"}

\* _ai_eligibility_breakdown, in tenths of a percent
EligibilityOf(visa, since) ==
    LET group == {k \in DOMAIN cases : cases[k].visa = visa /\ cases[k].completed
                                       /\ cases[k].created >= since}
        part(S) == {k \in group : cases[k].tier \in S}
        percent(S) == IF group = {} THEN 0 ELSE Rounded(1000 * Count(part(S)), Count(group)) IN
    [low |-> percent(Low), medium |-> percent(Medium), high |-> percent(High)]

\* _ai_funnel_values: bookings count by who made them, whether before or after the assessment.
match_funnel(from, to) ==
    LET started == {k \in DOMAIN cases : from <= cases[k].created /\ cases[k].created < to}
        completed == {k \in started : cases[k].completed}
        matched == {k \in completed : cases[k].lead}
        seekers == {cases[k].by : k \in completed}
        booked == {b \in DOMAIN sessions : from <= sessions[b].created /\ sessions[b].created < to
                                           /\ sessions[b].seeker \in seekers} IN
    [impressions |-> Count(started),
     shown       |-> IF matched # {} THEN Count(matched) ELSE Count(completed),
     clicked     |-> Count({<<sessions[b].seeker, sessions[b].advisor>> : b \in booked}),
     booked      |-> Count({b \in booked : sessions[b].status \in {"confirmed", "completed"}})]

\* get_advisor_analytics: of the sessions that were not left pending, those held, in hundredths
\* of a percent
Taken(since) ==
    {b \in DOMAIN sessions : sessions[b].start >= since /\ sessions[b].status # "pending"}

completed_percent(since) ==
    LET held == {b \in Taken(since) : sessions[b].status = "completed"} IN
    IF Taken(since) = {} THEN 0 ELSE Rounded(Whole * Count(held), Count(Taken(since)))

session_trend(since) ==
    LET held == {b \in DOMAIN sessions : sessions[b].start >= since /\ sessions[b].status = "completed"} IN
    CountsBy([b \in held |-> MonthOf(sessions[b].start)])

\* get_engagement_analytics, of the sessions: a window and the one before it
engagement(days) ==
    LET held == {b \in DOMAIN sessions : sessions[b].status = "completed" /\ sessions[b].start >= time - 2 * days}
        now == {b \in held : sessions[b].start >= time - days} IN
    [now |-> Count(now), then |-> Count(held \ now),
     trend |-> CountsBy([b \in now |-> MonthOf(sessions[b].start)])]

-----------------------------------------------------------------------------
\* Properties

AddedUp(f) == SumOver(f, DOMAIN f)

Filters == {[days |-> 1, months |-> 0], [days |-> 3, months |-> 0], [days |-> 0, months |-> 1],
            [days |-> 0, months |-> 2]}

\* The trend under a card adds up to the card, shows one point for every month or day of the
\* window, and ends with the present one.
TrendsMatchCards ==
    \A filter \in Filters, daily \in BOOLEAN :
        LET since == dashboard_since(filter)
            home == dashboard_summary(filter, daily) IN
        /\ AddedUp(home.users) = home.stats.users
        /\ AddedUp(home.volume) = Count({k \in DOMAIN cases : cases[k].created >= since})
        /\ Bucket(time, daily) \in DOMAIN home.users
        /\ ~daily /\ filter.months > 0 => Count(DOMAIN home.users) \in 1 .. filter.months

\* Home screen and overview tell of the same people: the overview counts administrators, and
\* its active advisors are not those of the window only.
ScreensTellTheSame ==
    \A days \in {1, 3} :
        LET since == time - days
            home == stat_counts(since)
            tab == overview(since) IN
        /\ home.users = home.seekers + home.advisors
        /\ tab.users = home.users + Count({u \in JoinedSince(since) : people[u].role = "admin"})
        /\ tab.advisors = home.advisors
        /\ home.active <= home.approved /\ home.active <= tab.active
        /\ stat_counts(0).active = tab.active

\* Each stage of a funnel is part of the one before, but that one may be more often booked
\* than distinct advisors were chosen.
FunnelsNarrow ==
    \A days \in {1, 3, MaxTime} :
        LET onboarding == onboarding_funnel(time - days)
            matching == match_funnel(time - days, time) IN
        /\ onboarding.engaged <= onboarding.activated
        /\ onboarding.activated <= onboarding.verified
        /\ onboarding.verified <= onboarding.registered
        /\ matching.shown <= matching.impressions
        /\ matching.booked > 0 => matching.clicked > 0
        /\ matching.clicked > 0 => matching.shown > 0

\* Two windows side by side hold every assessment of both, once.
AssessmentsMeet ==
    \A days \in {1, 2}, v \in VisaTypes :
        VisaCounts(time - 2 * days, time - days)[v] + VisaCounts(time - days, time)[v]
          = VisaCounts(time - 2 * days, time)[v]

\* The tiers of a visa type are shares of one whole, but for what is lost in rounding them.
SharesOfOne ==
    \A v \in VisaTypes, days \in {2, MaxTime} :
        LET parts == EligibilityOf(v, time - days)
            all == parts.low + parts.medium + parts.high IN
        all = 0 \/ all \in 999 .. 1001

\* A cohort's figure says that somebody came back, or that it is too early to say, unless one
\* in it is less than half of what is still shown.
RetentionTrue ==
    \A days \in {2, MaxTime}, later \in {1, 2} : \A u \in JoinedSince(time - days) :
        LET day == DayOf(people[u].joined)
            cohort == {v \in JoinedSince(time - days) : DayOf(people[v].joined) = day}
            shown == retention(time - days, day, later) IN
        /\ shown = TooYoung <=> day + later > DayOf(time)
        /\ <<u, day + later>> \in attendance =>
              shown > 0 \/ shown = TooYoung \/ Count(cohort) >= 2 * Whole
        /\ shown > 0 => \E v \in cohort : <<v, day + later>> \in attendance

\* Page after page, the feed shows everything that happened in the window, each in one place,
\* newest first; no page but the last has room left, and none is empty.
FeedComplete ==
    \A days \in {2, MaxTime} :
        LET since == time - days
            last == Pages(Count(ActivityUnion(since)))
            page == [n \in 1 .. last |-> FeedRows(since, (n - 1) * FeedPage, FeedPage)] IN
        /\ \A n \in 1 .. last : Len(page[n]) > 0 /\ (n < last => Len(page[n]) = FeedPage)
        /\ \A e \in ActivityUnion(since) : \E n \in 1 .. last : e \in ToSet(page[n])
        /\ \A m, n \in 1 .. last : \A i \in DOMAIN page[m], j \in DOMAIN page[n] :
              /\ page[m][i] \in ActivityUnion(since)
              /\ m < n \/ (m = n /\ i < j) =>
                    page[m][i] # page[n][j] /\ page[m][i].at >= page[n][j].at

\* A session that is held is in its month, and in one of two windows side by side; and the part
\* that is held is nothing only where nothing is, or one is less than what is shown.
SessionsInTrend ==
    \A days \in {1, MaxTime} :
        LET held == engagement(days) IN
        /\ held.now + held.then = engagement(2 * days).now
        /\ AddedUp(held.trend) = held.now
        /\ completed_percent(time - days) <= Whole
        /\ completed_percent(time - days) > 0 => AddedUp(session_trend(time - days)) > 0
        /\ AddedUp(session_trend(time - days)) > 0 =>
              completed_percent(time - days) > 0 \/ Count(Taken(time - days)) >= 2 * Whole

\* The modules' docstrings promise aggregates that fit together: what one screen counts,
\* another does not contradict, whatever happened in which order.
FiguresAgree ==
    /\ TrendsMatchCards /\ ScreensTellTheSame /\ FunnelsNarrow /\ AssessmentsMeet /\ SharesOfOne
    /\ RetentionTrue /\ FeedComplete /\ SessionsInTrend

=============================================================================
