CONSTANTS
    b1 = b1
    b2 = b2
    b3 = b3
    b4 = b4
    c1 = c1
    c2 = c2
    NoCustomer = NoCustomer
    Bounces = {b1, b2, b3, b4}
    Customers = {c1, c2}
    CustomerOf <- BounceCustomer
    HardBounces = {b4}
    Limit = 2
    MinAge = 0
    KeepFor = 2
    MaxTime = 5
    MaxFailures = 1
SPECIFICATION Spec
INVARIANTS
    TypeOK
    NoneMissed
    CollectedOnce
    MergedTwiceAtMost
    GivenUpOnEvidence
PROPERTIES
    PurgedOnlyMerged
CHECK_DEADLOCK FALSE
