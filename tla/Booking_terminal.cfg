SPECIFICATION Spec
CONSTANTS
    i1 = i1
    s1 = s1
    s2 = s2
    Candidates = {c1}
    Interviewers = {i1}
    Slots = {s1}
    Tokens = {t1}
    Bookings = {b1}
    Cancels = {k1}
    Keys = {key1}
    SlotOwner <- OneSlotOwner
    StartsAt <- OneSlotStart
    EndsAt <- OneSlotEnd
    HoldTtl = 1
    MaxTime = 2
    AdminTargets = {}
    PaymentInputs = {"failed"}
    EligibilityInputs = {"verified"}
    None = None
SYMMETRY Symmetry
\* Requests are finitely many and the clock is bounded: the system may stop.
CHECK_DEADLOCK FALSE
PROPERTIES
    TerminalIsFinal
