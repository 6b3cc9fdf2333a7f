SPECIFICATION Spec
CONSTANTS
    Bookings = {b1, b2}
    Prepared = {b1}
    Requests = {r1, r2}
    Notices = {n1, n2}
    AdminTargets = {"IN_PROGRESS", "COMPLETED", "CANDIDATE_NO_SHOW", "TECHNICAL_FAILURE", "CANCELLED", "FEEDBACK_SUBMITTED"}
    None = None
SYMMETRY Symmetry
\* Every request may end as a delivery of the same booking: the system may stop.
CHECK_DEADLOCK FALSE
INVARIANTS
    OutboxTellsTheInterview
    FeedbackAnnouncedOnce
    ReportFitsStatus
    ArrivalStarts
    ConfirmedHasSession
PROPERTIES
    EndedStaysEnded
