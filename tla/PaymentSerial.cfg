SPECIFICATION FairSpec
CONSTANTS
    r1 = r1
    r2 = r2
    s1 = s1
    s2 = s2
    NoSession = NoSession
    Requests = {r1}
    Sessions = {s1}
    Price = 2
    MaxTransferAttempts = 1
    Ops = {"accept", "complete", "no_show", "cancel", "reject", "expire", "expire_stale", "checkout",
           "completed", "expired", "refunded", "admin_refund", "transfer", "disconnect"}
    PaidRequests = TRUE
    StripeRedelivers = FALSE
    DashboardRefunds = TRUE
    Outages = FALSE
INVARIANTS StatusesAgree
PROPERTIES LifecycleSpec RefundedGrows RequestsEnd HoldEnds
CHECK_DEADLOCK FALSE
