SPECIFICATION Spec
CONSTANTS
    a1 = a1
    a2 = a2
    b1 = b1
    a = a
    b = b
    OpId = {a, b}
    Record = {a1, a2, b1}
    IdOf <- MCIdOf
    MaxSegmentBytes = 4
    FrameOverhead = 1
    RecordBytes = 1
    FrameTarget = 2
    MaxSegments = 2
    MaxBatch = 2
INVARIANTS AnsweredDurable EvidenceExact LegacyBoundary
PROPERTIES KeepsContract KeepsFiles
