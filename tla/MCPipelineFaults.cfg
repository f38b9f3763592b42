\* Two calls in flight across midnight, one fault anywhere, the policy edited by
\* a restart.
SPECIFICATION Spec
CONSTANTS
    Undefined = undefined
    MaxAmount = 100
    MaxEncodable = 2
    Calls = {c1, c2}
    s1 = s1
    s2 = s2
    h1 = h1
    h2 = h2
    SessionIds = {s1, s2}
    Hashes = {h1, h2}
    NoHash = noHash
    NoSession = noSession
    Terms <- MCTerms
    Intents <- MixedIntents
    Policies <- EditedPolicies
    DayLength = 1
    MaxTime = 1
    MaxInFlight = 2
    MaxFaults = 1
INVARIANTS
    PipelineInv
    ReadsOnlyOwnPayments
    OwnershipIsEarned
    LedgerLagsByCallsInFlight
    AuditTellsTheTruth
    RevokedSessionsStayOut
PROPERTIES
    CurrentPolicyIsObeyed
\* The behaviour ends when the bounded calls, faults and clock are used up.
CHECK_DEADLOCK FALSE
