CONSTANTS
  Main = main
  FuseThreads = {f1, f2}
  DownloadThreads = {d1}
  Readers <- MCReaders
  NoReader = NoReader
  Files <- MCFiles
SPECIFICATION Spec
INVARIANTS LayersOverride ReadersStayValid ConfigThereToDelete
CHECK_DEADLOCK FALSE
