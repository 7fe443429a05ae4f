SPECIFICATION TailSpec
CONSTANTS
    r1 = r1
    r2 = r2
    x = x
    OpId = {x}
    Record = {r1, r2}
    IdOf <- MCIdOf
    MaxSegmentBytes = 4
    FrameOverhead = 1
    RecordBytes = 1
    FrameTarget = 2
    MaxSegments = 2
    ReadLimit = 3
    MaxPages = 3

INVARIANT NothingSkipped
