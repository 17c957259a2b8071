CONSTANTS
  Entries <- TwoEntries
  Dirs <- TwoDirs
  Images <- OneEntry
  Files <- TwoFiles
  FilesOf <- TwoFilesOf
  Ingests = {i1, i2}
  Delay = 2
  Pause = 1
  MaxSize <- TwoSizes
  Failures = {"mkcoll", "connect", "coll", "put_file", "put_nested", "meta", "crash"}
  MaxFaults = 1
  NoFile = NoFile
  NoEntry = NoEntry
SPECIFICATION FairSpec
INVARIANTS TypeOK Whole LostOnlyByHush
PROPERTY Ingested
