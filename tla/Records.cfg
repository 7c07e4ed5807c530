SPECIFICATION MCSpec
CONSTANTS
    p1 = p1
    p2 = p2
    \* AuthSessions
    t1 = t1
    t2 = t2
    t3 = t3
    l1 = l1
    l2 = l2
    l3 = l3
    None = None
    Tokens = {t1, t2, t3}
    Links = {l1, l2, l3}
    Callers = {p1, p2}
    MaxVersion = 2
    \* AdvisorAccount
    c1 = c1
    c2 = c2
    Credentials = {c1, c2}
    NoCredential = NoCredential
    Clerks = {p1, p2}
    \* Directory
    ZoomAsked = TRUE
    \* PayoutRequests
    x1 = x1
    x2 = x2
    x3 = x3
    e1 = e1
    e2 = e2
    Earnings = {e1, e2}
    Worth = 1
    Payouts = {x1, x2, x3}
    NoPayout = NoPayout
    PayoutCalls = {p1, p2}
    \* CountryRules
    r1 = r1
    r2 = r2
    Rules = {r1, r2}
    NoRule = NoRule
    Desks = {p1, p2}
    \* DeviceTokens
    Devices = {h1, h2, h3}
    u1 = u1
    u2 = u2
    Owners = {u1, u2}
    Nobody = Nobody
    Registrations = {p1, p2}
    MaxDevices = 1
    \* SeekerDocuments
    f1 = f1
    f2 = f2
    f3 = f3
    a1 = a1
    a2 = a2
    d1 = d1
    d2 = d2
    Documents = {d1, d2}
    Uploads = {f1, f2, f3}
    NoUpload = NoUpload
    Advisors = {a1, a2}
    NoAdvisor = NoAdvisor
    PaperCalls = {p1, p2}
    MaxClock = 2
    \* DocumentScreens
    y1 = y1
    y2 = y2
    Categories = {y1, y2}
    CategoryOf <- SampleCategory
    Given = {"under_review", "approved", "rejected", "expired"}
    MaxRemarks = 3
    \* Reviews
    Sessions = {b1}
    NoSession = NoSession
    ReviewCalls = {p1, p2}
    \* Conversations
    MaxMessages = 3
    Chatters = {p1, p2}
    \* SupportTickets
    Tickets = {k1}
    Agents = {g1, g2}
    NoAgent = NoAgent
    TicketCalls = {p1, p2}
    \* PlatformFigures
    VisaTypes = {v1, v2}
    DayLength = 1
    MonthLength = 2
    FeedPage = 2
    MaxTime = 5
    MaxPeople = 3
    MaxCases = 1
    MaxSessions = 2
SYMMETRY Symmetry
INVARIANTS
    RecordsTypeOK
    KilledForGood
    OneLive
    StatusHonest
    PeopleShown
    OneLivePolicy
    PlaceholdersEnd
    DeviceLimit
    PortfolioSound
    FoldersShown
    ModerationStands
    ResolutionKept
    
PROPERTIES
    PayoutsSound
    PublishedStands
\* An account may use up the versions, tokens, policies and messages the bounds allow.
CHECK_DEADLOCK FALSE
