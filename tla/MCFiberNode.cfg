\* Three calls, two at a time, and one fault: an invoice, its payment, a read.
SPECIFICATION Spec
CONSTANTS
    MaxIntegerDigits = 3
    MaxFractionalDigits = 3
    MaxBaseUnits = 1200
    Calls = {c1, c2, c3}
    Merchant = merchant
    Payer = payer
    NoSession = noSession
    Addresses = {a1, a2, a3}
    ForeignInvoice = foreignInvoice
    NoAddress = noAddress
    Hashes = {h1, h2, h3}
    NoHash = noHash
    Requested <- MCRequested
    Cap <- MCCap
    DailyLimit <- MCDailyLimit
    Decimals = 2
    MaxInFlight = 2
    MaxFaults = 1
SYMMETRY CallSymmetry
INVARIANTS
    NodeInv
    LedgerIsExact
    CapHoldsInBaseUnits
    HandedOutInvoiceIsOwned
    SuccessIsSettled
\* The behaviour ends when the bounded calls and faults are used up.
CHECK_DEADLOCK FALSE
