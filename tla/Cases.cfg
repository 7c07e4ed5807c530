SPECIFICATION MCSpec
CONSTANTS
    p1 = p1
    p2 = p2
    \* AdvisorConnections
    Accounts = {x1}
    NoAccount = NoAccount
    Linkers = {p1, p2}
    MaxLinks = 2
    \* OfferedServices
    s1 = s1
    s2 = s2
    Services = {s1, s2}
    NoService = NoService
    Booked = {b1}
    Editors = {p1, p2}
    MaxOffers = 3
    \* AdvisorLeads, Matching
    Matched = {a1, a2}
    Cases <- SampleCases
    Stranger = a3
    AiScores = {0, 10000}
    Leaders = {p1, p2}
    Appointments = {b1}
    NoLink = NoLink
    PoolSize = 1
    \* Assessments
    q1 = q1
    q2 = q2
    o1 = o1
    o2 = o2
    o3 = o3
    o4 = o4
    o5 = o5
    Questions = {q1, q2}
    Options = {o1, o2, o3, o4, o5}
    OptionOf <- SampleOptionOf
    Worth <- SampleWorth
    Weight <- SampleWeight
    Trigger <- SampleTrigger
    Always = Always
    Category <- SampleCategory
    Submitters = {p1, p2}
    MaxSubmits = 3
    \* BookingDesk
    Visitors = {p1, p2}
    MaxMoments = 7
    MaxHour = 4
    Notice = 2
    MaxPosts = 1
    \* VisaJourney
    i1 = i1
    i2 = i2
    i3 = i3
    Intents = {i1, i2, i3}
    Primary <- SamplePrimary
    Served = {i1, i3}
    NoIntent = NoIntent
    b1 = b1
    b2 = b2
    Sessions = {b1, b2}
    Required = {k1, k2}
    Pages = {p1, p2}
    \* FinanceBooks
    Payers = {m1, m2}
    Payees = {n1, n2}
    Price = 10
    Commission = 20
    Withheld = 10
    Day = 2
    Month = 2
    ExportLimit = 1
    MaxPayments = 2
    MaxPayouts = 1
    MaxClock = 6
    \* BookingScreens
    Guests = {g1, g2}
    Hosts = {h1}
    Starts = {2, 3}
    SessionLength = 1
    JoinLead = 1
    MaxVisits = 2
    MaxTick = 6
    \* Tidings
    Clerks = {p1, p2}
    Topics = {"booking", "document", "account", "lead", "chat", "login"}
    Unreachable = {}
    Mailing = TRUE
    Subscribed = TRUE
    MaxEvents = 3
    \* LiveSockets
    Handlers = {p1, p2}
    MaxLines = 2
SYMMETRY Symmetry
INVARIANTS
    CasesTypeOK
    OffersHonest
    
    DeskHonest
    
    BooksShown
    AgendaShown
    
    
\* An advisor may use up the rows, an assessment its submissions, a booking its moments.
CHECK_DEADLOCK FALSE
