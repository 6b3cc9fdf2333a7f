SPECIFICATION Spec
CONSTANTS
    Kinds = {"mobile"}
    Values = {v1, v2}
    Requests = {q1, q2}
    MaxChallenges = 3
    MaxAttempts = 2
    None = None
SYMMETRY Symmetry
\* Challenges are finitely many: the system may stop.
CHECK_DEADLOCK FALSE
INVARIANTS
    ConfirmedValue
    CheckAgreesWithMark
