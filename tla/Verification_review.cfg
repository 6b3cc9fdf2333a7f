SPECIFICATION Spec
CONSTANTS
    Kinds = {"mobile"}
    Evidence = {"linkedin", "certificate"}
    MaxEvents = 3
\* Lifecycle events are finitely many: the system may stop.
CHECK_DEADLOCK FALSE
INVARIANTS
    StatusesAgree
PROPERTIES
    VerifiedPassesAll
    ImplementsLifecycle
