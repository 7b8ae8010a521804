CONSTANTS
  Main = main
  FuseThreads = {f1}
  DownloadThreads = {d1}
  Readers <- MCReaders
  NoReader = NoReader
  Files <- MCFiles
SPECIFICATION Spec
INVARIANT FlagsAsGiven
CHECK_DEADLOCK FALSE
