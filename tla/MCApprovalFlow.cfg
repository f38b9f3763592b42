\* One handle, one request that needs approval and two sessions; both screens work at once
\* (MaxInFlight) and one thing fails, anywhere (MaxFaults).
SPECIFICATION FairSpec
CONSTANTS
    r1 = r1
    s1 = s1
    s2 = s2
    RequestIds <- MCRequestIds
    SessionIds <- MCSessionIds
    NoRequest = noRequest
    NoSession = noSession
    NoId = noId
    Handles = {h1}
    App = app
    Screen = screen
    Console = console
    Nobody = nobody
    Callers <- MCCallers
    MaxTime = 1
    MaxInFlight = 2
    MaxFaults = 1
INVARIANTS
    FlowInv
    AuditMatchesStore
    QuietStoreIsFullyAudited
    ScreensTellTheTruth
PROPERTIES
    ApprovalBeforeLastPollIsSeen
    EveryWaitEnds
\* People may stop clicking and the clock stops at MaxTime.
CHECK_DEADLOCK FALSE
