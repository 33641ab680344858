CONSTANTS
    d1 = d1
    d2 = d2
    m1 = m1
    m2 = m2
    NoBlock = NoBlock
    Drops = {d1, d2}
    Runs = {0}
    Mailings = {m1}
    MailingOf <- OneMailing
    KindOf <- BothWorld
    IdOf <- MailingIds
    MaxBlocks = 2
    QueueLimit = 1
    MaxFailures = 0
SPECIFICATION Spec
PROPERTIES
    SteppedDelivery
CHECK_DEADLOCK FALSE
