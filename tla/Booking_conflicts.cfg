SPECIFICATION Spec
CONSTANTS
    i1 = i1
    s1 = s1
    s2 = s2
    Candidates = {c1, c2}
    Interviewers = {i1}
    Slots = {s1, s2}
    Tokens = {t1, t2}
    Bookings = {b1, b2}
    Cancels = {k1}
    Keys = {key1}
    SlotOwner <- TwoSlotsOwner
    StartsAt <- TwoSlotsStart
    EndsAt <- TwoSlotsEnd
    HoldTtl = 1
    MaxTime = 1
    AdminTargets = {}
    PaymentInputs = {"failed"}
    EligibilityInputs = {"verified"}
    None = None
SYMMETRY Symmetry
\* Requests are finitely many and the clock is bounded: the system may stop.
CHECK_DEADLOCK FALSE
INVARIANTS
    BookedByItsHolder
    OccupiedIsBooked
    OneBookingPerKey
    NoDoubleBooking
