SPECIFICATION Spec
CONSTANTS
    Bookings = {b1, b2}
    Requests = {r1, r2, r3}
    Keys = {key1, key2}
    Attempts = {}
    Refunds = {f1, f2, f3}
    Price = 2
    Amounts = {1, 2}
    Development = TRUE
    DevelopmentRef = devref
    None = None
SYMMETRY Symmetry
\* Requests, attempts and refunds are finitely many: the system may stop.
CHECK_DEADLOCK FALSE
PROPERTIES
    OrderIsNeverReplaced
