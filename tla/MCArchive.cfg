SPECIFICATION Spec
CONSTANTS
  a1 = a1
  a2 = a2
  b1 = b1
  content = content
  image = image
  Record = {a1, a2, b1}
  OpId = {1, 2}
  IdOf <- MCIdOf
  Blob = {content, image}
  Refs <- MCRefs
  KeyOrder <- MCKeyOrder
  BlobOrder <- MCBlobOrder
  CohortSize = 2
  Length <- MCLength
  FlushReplies = 3
  FlushBytes = 5
  Sources <- MCSources
  InitialRecords <- MCInitialRecords
  InitialFiles <- MCInitialFiles
  Offers <- MCOffers
  MaxExports = 2
  MaxSessions = 1
  MaxFaults = 1
INVARIANTS RepliesDurable RestoreExact AdapterExact
PROPERTIES Replayable
CHECK_DEADLOCK FALSE
