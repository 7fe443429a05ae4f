SPECIFICATION SharingSpec
CONSTANTS
    a = a
    f = f
    x = x
    w = w
    Worker = {w}
    Own = {a}
    Foreign = {f}
    Hash = {x}
    LocalHash = {x}
    RefsOf <- MCRefsOf
    MaxSegment = 3
    MaxRevision = 2
    MaxLosses = 1
INVARIANTS ConsentHeld ContentGated ProvenanceExact ReceiptsDurable
