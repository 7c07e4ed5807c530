SPECIFICATION PayoutSpec
CONSTANTS
    Earnings = {e1, e2}
    Worth = 1
    Payouts = {x1, x2}
    NoPayout = NoPayout
    PayoutCalls = {c1, c2}
INVARIANT PaidOnce
\* The earnings and the requests for them may be used up.
CHECK_DEADLOCK FALSE
