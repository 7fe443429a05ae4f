SPECIFICATION FairMigrationSpec
CONSTANTS
    r = r
    s = s
    x = x
    y = y
    Rec = {r, s}
    Out = {x, y}
    ConvertOf <- MCConvert
    Source0 <- MCSource
    MaxRecords = 5
    MaxInterruptions = 3
INVARIANTS ReleasedDurable
PROPERTIES PublishesWhole Completes
CHECK_DEADLOCK FALSE
