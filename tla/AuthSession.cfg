SPECIFICATION Spec
CONSTANTS
    Clients = {c1, c2, c3}
    Services = {s1, s2}
    Overlap = FALSE
    None = None
INVARIANTS
    AuthInv
    StoredSessionIsProved
    OneService
    ListenerIsReachable
    DeadSessionWasInFlight
    LogoutEndsHandshakes
SYMMETRY Symmetry
CHECK_DEADLOCK FALSE
