SPECIFICATION TrustFairSpec
CONSTANTS
    MaxEvents = 3
    Bookings = {b1}
INVARIANTS
    KnownUnlessPending
    DeletedHasNoBookings
PROPERTIES
    Converges
