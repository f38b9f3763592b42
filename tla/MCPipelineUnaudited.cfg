\* A store write fails after the node has executed the intent.
SPECIFICATION Spec
CONSTANTS
    Undefined = undefined
    MaxAmount = 100
    MaxEncodable = 50
    Calls = {c1, c2}
    s1 = s1
    s2 = s2
    h1 = h1
    h2 = h2
    SessionIds = {s1, s2}
    Hashes = {h1}
    NoHash = noHash
    NoSession = noSession
    Terms <- MCTerms
    Intents <- SpendingIntents
    Policies <- OnePolicy
    DayLength = 1
    MaxTime = 1
    MaxInFlight = 1
    MaxFaults = 1
INVARIANTS
    ExecutedIntentIsAudited
\* The behaviour ends when the bounded calls, faults and clock are used up.
CHECK_DEADLOCK FALSE
