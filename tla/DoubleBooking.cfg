SPECIFICATION Spec
CONSTANTS
    r1 = r1
    r2 = r2
    b1 = b1
    b2 = b2
    NoBooking = NoBooking
    NoMeeting = NoMeeting
    Bookings = {b1, b2}
    Requests = {r1, r2}
    Horizon = 3
    LastTick = 0
    Durations = {1, 2}
    Schedules <- MCSchedules
    Ops = {"create", "create_by_advisor", "cancel", "completed"}
SYMMETRY Symmetry
INVARIANTS NeverDoubleBooked
CHECK_DEADLOCK FALSE
