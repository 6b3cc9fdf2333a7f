SPECIFICATION Spec
CONSTANTS
    u1 = u1
    e1 = e1
    e2 = e2
    Users = {u1}
    Tokens = {t1, t2, t3}
    Challenges = {h1, h2}
    Requests = {q1, q2}
    MaxUnknown = 1
    Events = {e1, e2}
    UserOf <- EventUser
    Target <- EventTarget
    At <- EventAt
    None = None
SYMMETRY Symmetry
VIEW View
\* Tokens and challenges are finitely many: the system may stop.
CHECK_DEADLOCK FALSE
INVARIANTS
    OneLiveTokenPerFamily
    NoAccessNoSession
    AccessIsTheLatest
    UnverifiedHasALink
