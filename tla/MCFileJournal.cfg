CONSTANTS
  MaxRecords = 4
  MaxFileSize = 1
  MaxFiles = 2
SPECIFICATION FairSpec
INVARIANTS
  DiskIsSuffix
  ClosedIsQuiet
  FailureIsOwn
PROPERTIES
  RecordSettles
