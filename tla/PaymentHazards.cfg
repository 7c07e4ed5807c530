SPECIFICATION Spec
CONSTANTS
    r1 = r1
    r2 = r2
    s1 = s1
    s2 = s2
    NoSession = NoSession
    Requests = {r1, r2}
    Sessions = {s1}
    Price = 2
    MaxTransferAttempts = 1
    Ops = {"accept", "cancel", "checkout", "completed", "expired", "refunded", "admin_refund", "transfer"}
    PaidRequests = TRUE
    StripeRedelivers = TRUE
    DashboardRefunds = TRUE
    Outages = TRUE
SYMMETRY Symmetry
INVARIANTS MoneyReal ConfirmedWasPaid InFlightReal
CHECK_DEADLOCK FALSE
