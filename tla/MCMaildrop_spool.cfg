CONSTANTS
    d1 = d1
    d2 = d2
    d3 = d3
    m1 = m1
    m2 = m2
    r1 = r1
    r2 = r2
    r3 = r3
    ws = ws
    Ruler = Ruler
    NoDrop = NoDrop
    Drops = {d1, d2}
    Mailings = {m1}
    MailingOf <- ServiceMailing
    KindOf <- ServiceKind
    GenDay <- ServiceGenDay
    Requests = {ws}
    ServiceRequests = {ws}
    SessionOf <- OwnSession
    MaxBlocks = 2
    MaxDay = 2
    MaxFailures = 1
SPECIFICATION Spec
INVARIANTS
    FinalComplete
PROPERTIES
    ImplementsSpool
CHECK_DEADLOCK FALSE
