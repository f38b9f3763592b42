\* Three calls one after the other, no faults: what the checks alone guarantee
\* across midnight, expiry and revocations; fair.
SPECIFICATION FairSpec
CONSTANTS
    Undefined = undefined
    MaxAmount = 4
    MaxEncodable = 50
    Calls = {c1, c2, c3}
    s1 = s1
    s2 = s2
    h1 = h1
    h2 = h2
    SessionIds = {s1, s2}
    Hashes = {h1}
    NoHash = noHash
    NoSession = noSession
    Terms <- MCTerms
    Intents <- SpendingIntents
    Policies <- OnePolicy
    DayLength = 1
    MaxTime = 1
    MaxInFlight = 1
    MaxFaults = 0
INVARIANTS
    OneShotExecutesOnce
    ExactlyOneAuditEvent
PROPERTIES
    DailyLimitHolds
    EveryCallEnds
\* The behaviour ends when the bounded calls, faults and clock are used up.
CHECK_DEADLOCK FALSE
