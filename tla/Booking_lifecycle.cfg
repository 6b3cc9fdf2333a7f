SPECIFICATION FairSpec
CONSTANTS
    i1 = i1
    s1 = s1
    s2 = s2
    Candidates = {c1}
    Interviewers = {i1}
    Slots = {s1}
    Tokens = {t1, t2}
    Bookings = {b1}
    Cancels = {k1}
    Keys = {key1}
    SlotOwner <- OneSlotOwner
    StartsAt <- OneSlotStart
    EndsAt <- OneSlotEnd
    HoldTtl = 1
    MaxTime = 2
    AdminTargets = {"BOOKED", "PAYMENT_FAILED", "CANCELLED", "CONFIRMED", "REFUNDED", "READY", "RESCHEDULED", "IN_PROGRESS", "CANDIDATE_NO_SHOW", "INTERVIEWER_NO_SHOW", "TECHNICAL_FAILURE", "COMPLETED", "FEEDBACK_PENDING", "FEEDBACK_SUBMITTED", "SETTLED", "PAYMENT_PENDING"}
    PaymentInputs = {"captured", "failed", "refunded"}
    EligibilityInputs = {"verified", "unverified", "deleted"}
    None = None
\* Requests are finitely many and the clock is bounded: the system may stop.
CHECK_DEADLOCK FALSE
INVARIANTS
    OutboxTellsTheStory
PROPERTIES
    HoldHonoured
    HoldKeepsItsKey
    ImplementsCalendar
    ExpiredHoldIsFreed
