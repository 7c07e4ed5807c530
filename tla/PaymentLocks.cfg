SPECIFICATION RequestSpec
CONSTANTS
    r1 = r1
    r2 = r2
    s1 = s1
    s2 = s2
    NoSession = NoSession
    Requests = {r1, r2}
    Sessions = {s1, s2}
    Price = 1
    MaxTransferAttempts = 1
    Ops = {"cancel", "reject", "expire", "checkout", "completed", "expired", "refunded", "transfer"}
    PaidRequests = TRUE
    StripeRedelivers = FALSE
    DashboardRefunds = FALSE
    Outages = FALSE
INVARIANTS PayoutOrRefund
PROPERTIES RequestsReturn
CHECK_DEADLOCK FALSE
