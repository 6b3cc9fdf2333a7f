SPECIFICATION FairSpec
CONSTANTS
    Bookings = {b1}
    Requests = {r1}
    Keys = {key1}
    Attempts = {a1, a2}
    Refunds = {f1, f2}
    Price = 2
    Amounts = {1, 2}
    Development = FALSE
    DevelopmentRef = devref
    None = None
\* Requests, attempts and refunds are finitely many: the system may stop.
CHECK_DEADLOCK FALSE
INVARIANTS
    OutboxTellsTheMoney
    StatusTellsTheRefunds
    CapturedIsPaid
    RecordedRefundIsPaid
    CaptureIsRecorded
PROPERTIES
    ImplementsLedger
    RefundIsSettled
