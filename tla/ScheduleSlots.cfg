SPECIFICATION Spec
CONSTANTS
    r1 = r1
    r2 = r2
    b1 = b1
    b2 = b2
    NoBooking = NoBooking
    NoMeeting = NoMeeting
    Bookings = {b1, b2}
    Requests = {r1, r2}
    Horizon = 3
    LastTick = 1
    Durations = {1, 2}
    Schedules <- MCSchedules
    Ops = {"create", "reschedule", "cancel", "accept", "completed", "complete"}
SYMMETRY Symmetry
INVARIANTS SlotHeld SlotsDisjoint MeetingAtStart
CHECK_DEADLOCK FALSE
