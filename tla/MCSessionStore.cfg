\* Two concurrent callers, two requests, two sessions, one fault anywhere.
SPECIFICATION Spec
CONSTANTS
    Handlers = {h1, h2}
    RequestIds = {r1, r2}
    SessionIds = {s1, s2}
    NoRequest = noRequest
    NoSession = noSession
    MaxFaults = 1
SYMMETRY IdSymmetry
INVARIANTS
    StoreInv
    ApprovedRequestHasItsSession
    AcknowledgedIsDurable
PROPERTIES
    SessionsAndRequestsOnlyMoveForward
    ImplementsLifecycle
CHECK_DEADLOCK TRUE
