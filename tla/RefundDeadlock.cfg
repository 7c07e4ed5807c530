SPECIFICATION Spec
CONSTANTS
    r1 = r1
    r2 = r2
    s1 = s1
    s2 = s2
    NoSession = NoSession
    Requests = {r1, r2}
    Sessions = {s1}
    Price = 1
    MaxTransferAttempts = 1
    Ops = {"cancel", "checkout", "completed", "refunded", "admin_refund", "transfer"}
    PaidRequests = FALSE
    StripeRedelivers = FALSE
    DashboardRefunds = FALSE
    Outages = FALSE
INVARIANTS PayoutOrRefund
CHECK_DEADLOCK FALSE
