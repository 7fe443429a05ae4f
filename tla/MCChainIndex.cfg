SPECIFICATION FairIndexSpec
CONSTANTS
    a1 = a1
    a2 = a2
    b = b
    f = f
    k1 = k1
    k2 = k2
    OpId = {1, 2}
    Record = {a1, a2, b}
    IdOf <- MCIdOf
    Key = {k1, k2}
    KeysOf <- MCKeysOf
    Ref = {f}
    RefsOf <- MCRefsOf
    Retained = 2
    MaxLog = 3
    MaxGenerations = 3
INVARIANTS IncrementalExact ConsumerExact
PROPERTIES QuietRefreshComplete ConsumerFollows
CHECK_DEADLOCK FALSE
