CONSTANTS
    d1 = d1
    d2 = d2
    d3 = d3
    m1 = m1
    m2 = m2
    r1 = r1
    r2 = r2
    r3 = r3
    ws = ws
    Ruler = Ruler
    NoDrop = NoDrop
    Drops = {d1, d2}
    Mailings = {m1}
    MailingOf <- WorldMailing
    KindOf <- WorldKind
    GenDay <- WorldGenDay
    Requests = {r1, ws}
    ServiceRequests = {ws}
    SessionOf <- OwnSession
    MaxBlocks = 1
    MaxDay = 2
    MaxFailures = 0
SPECIFICATION Spec
PROPERTIES
    CancelOnlyUnbegun
CHECK_DEADLOCK FALSE
