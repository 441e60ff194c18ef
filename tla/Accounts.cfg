\* Two accounts, or two requests in flight.
SPECIFICATION Spec
CONSTANTS
    Emails = {e1, e2}
    Passwords = {p1, p2}
    None = None
    Requests = {r1, r2}
    Bounds <- MCBounds
SYMMETRY Symmetry
INVARIANTS
    ConfirmedOnce
    RefusedOnlyAfterLogout
PROPERTIES
    SignUpIsCompleted
