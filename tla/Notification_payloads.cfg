SPECIFICATION NotificationSpec
CONSTANTS
    MaxEvents = 1
    MaxCopies = 2
    MaxFaults = 0
    BatchSize = 1
    MaxPerType = 1
    Types = {"booking.cancelled.v1", "booking.confirmed.v1", "payment.captured.v1"}
    Publishers = {p1}
    Channels = {"email", "whatsapp"}
    Handlers = {h1}
    MaxAttempts = 2
\* Events, faults and attempts are finitely many: the system may stop.
CHECK_DEADLOCK FALSE
INVARIANTS
    PayloadsSuffice
