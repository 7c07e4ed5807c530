SPECIFICATION Spec
CONSTANTS
    r1 = r1
    r2 = r2
    s1 = s1
    s2 = s2
    NoSession = NoSession
    Requests = {r1}
    Sessions = {s1}
    Price = 1
    MaxTransferAttempts = 1
    Ops = {"checkout", "completed", "admin_refund"}
    PaidRequests = FALSE
    StripeRedelivers = TRUE
    DashboardRefunds = FALSE
    Outages = FALSE
PROPERTIES HoldArmedOnce
CHECK_DEADLOCK FALSE
