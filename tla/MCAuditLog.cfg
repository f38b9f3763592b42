\* Four events of two apps and of none, recorded in any order and at the same
\* time, two of their appends cut short.
SPECIFICATION Spec
CONSTANTS
    e1 = e1
    e2 = e2
    e3 = e3
    e4 = e4
    a = a
    b = b
    Events <- MCEvents
    Apps = {a, b}
    NoApp = noApp
    AppOf <- MCAppOf
    StampOf <- MCStampOf
    NoLimit = noLimit
    MaxLimit = 2
    MaxCuts = 2
INVARIANTS
    LossIsBoundedByCuts
    CausalOrder
    NewestOfApp
PROPERTIES
    RecordedStaysListed
\* Every event is recorded once.
CHECK_DEADLOCK FALSE
