\* One fault, which TLC places between the two writes of an approval.
SPECIFICATION Spec
CONSTANTS
    Handlers = {h1, h2}
    RequestIds = {r1, r2}
    SessionIds = {s1, s2}
    NoRequest = noRequest
    NoSession = noSession
    MaxFaults = 1
SYMMETRY IdSymmetry
INVARIANTS
    DeniedRequestHasNoSession
CHECK_DEADLOCK TRUE
