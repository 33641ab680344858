SPECIFICATION DaemonsSpec
CONSTANTS
    MaxFiles = 2
    MaxLines <- Lines
    Checkpoint = 2
    HardReports <- Hard
    BadReports <- Bad
    MaxMishaps = 2
    MaxStarts = 3
    MaxDeaths = 2
    m1 = m1
    Messages = {m1}
    MaxThreads = 2
    Relays = 2
    NoThread = NoThread
    MaxTrouble = 2
INVARIANTS
    DaemonsTypeOK
    LinesFollowed
    CountedOnce
    ReportsKept
    OneHolder
    RobbedInRaceOnly
    AloneGetsTheLock
    OneOutcome
    GoneForAReason
PROPERTY ReportImported
\* Every bounded environment comes to its end.
CHECK_DEADLOCK FALSE
