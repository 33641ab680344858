CONSTANTS
    d1 = d1
    d2 = d2
    d3 = d3
    m1 = m1
    m2 = m2
    r1 = r1
    r2 = r2
    r3 = r3
    ws = ws
    Ruler = Ruler
    NoDrop = NoDrop
    Drops = {d1, d2, d3}
    Mailings = {m1, m2}
    MailingOf <- MixedMailing
    KindOf <- MixedKind
    GenDay <- MixedGenDay
    Requests = {r1}
    ServiceRequests = {}
    SessionOf <- OwnSession
    MaxBlocks = 1
    MaxDay = 2
    MaxFailures = 1
SPECIFICATION Spec
INVARIANTS
    TypeOK
    ClaimedOnce
    NothingStuckWithoutFailure
CHECK_DEADLOCK FALSE
