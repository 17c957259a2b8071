CONSTANTS
  Entries <- TwoEntries
  Dirs <- TwoDirs
  Images <- OneEntry
  Files <- TwoFiles
  FilesOf <- TwoFilesOf
  Ingests = {i1}
  Delay = 2
  Pause = 1
  MaxSize <- TwoSizes
  Failures = {"connect", "coll", "put_nested"}
  MaxFaults = 1
  NoFile = NoFile
  NoEntry = NoEntry
SPECIFICATION Spec
INVARIANT Accounted
