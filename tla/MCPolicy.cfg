\* Every request of up to two entries under two policies; the sessions of some
\* of them with every intent.
SPECIFICATION PolicySpec
CONSTANTS
    Undefined = undefined
    MaxAmount = 4
    AppPolicies <- MCAppPolicies
    Requests <- MCRequests
    PolicyFiles <- MCPolicyFiles
    Intents <- MCIntents
    OpenedRequests <- MCOpenedRequests
    OtherApps = {"other"}
    Assets <- MCAssets
    AmountRange <- MCAmountRange
    DefaultTtl = 3
    MaxTime = 2
    MaxSpent = 3
INVARIANTS
    GrantIsWithinPolicy
    GrantIsUsable
    EveryEntryIsGranted
    StrictestTermsApply
    RuleOrderIsImmaterial
    FollowsDocumentedOrder
    StatusAgreesWithDecision

    
\* An input ends when the clock and the ledger have reached their bounds.
CHECK_DEADLOCK FALSE
