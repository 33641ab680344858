SPECIFICATION WebSpec
CONSTANTS
    r1 = r1
    r2 = r2
    r3 = r3
    c1 = c1
    c2 = c2
    Requests = {r1, r2, r3}
    Customers = {c1, c2}
    CustomerOf <- CustomerOfRequest
    Lifetime = 2
    MaxClock = 2
    Nobody = Nobody
    FirstTables <- Documents
    Enclosed <- InElements
    MaxCells = 6
    MaxCommands <- Commands
    MaxUndoLevels = 3
    MaxTypes = 1
    MaxEdits = 4
    MaxIdle = 3
    Carets = {1, 2}
    OriginalSpellings <- Spellings
    Replacements <- Answers
INVARIANT SelectedIsRectangle
CHECK_DEADLOCK FALSE
