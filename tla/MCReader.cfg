\* Four of ten records, one blob, pages of one identity.
CONSTANTS
  Digits = 3
  ShortDigits = 1
  HistoryLimit = 2
  Key <- MCKey
  Blob <- MCBlob
  Damaged <- MCDamaged
  Query <- MCQuery
  Limits <- MCLimits
  Incoming <- MCIncoming
  MaxReceived = 4
SPECIFICATION ReaderSpec
INVARIANTS ArrivalIndependent ScanComplete AncestorsExact ResolutionExact ContentExact
PROPERTIES ReplayMonotone
CHECK_DEADLOCK FALSE
