SPECIFICATION Spec
CONSTANTS
  p1 = p1  p2 = p2
  f1 = f1  f2 = f2  f2edited = f2edited
  tStock = tStock  tRun = tRun  runKey = runKey  edition = edition
  NoProc = NoProc
  NoRow = NoRow
  Procs <- MCProcs
  Files <- MCFiles
  Tables <- MCTables
  Columns <- MCColumns
  TableOf <- MCTableOf
  UpOf <- MCUpOf
  DownOf <- MCDownOf
  Binaries <- MCBinaries
  Developers <- MCProcs
  ForeignAnytime = TRUE
PROPERTY
  ForeignKept
