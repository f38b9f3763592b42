\* Fair: callers queue up behind each other and operations may fail.
SPECIFICATION FairSpec
CONSTANTS
    Handlers = {h1, h2}
    RequestIds = {r1}
    SessionIds = {s1}
    NoRequest = noRequest
    NoSession = noSession
    MaxFaults = 2
PROPERTIES
    EveryCallSettles
CHECK_DEADLOCK TRUE
