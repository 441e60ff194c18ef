\* Does a log-out end the session of the account that logs out?
SPECIFICATION Spec
CONSTANTS
    Emails = {e1, e2}
    Passwords = {p1}
    None = None
    Requests = {r1}
    Bounds <- MCBounds
PROPERTIES
    LogoutEndsOwnSession
