SPECIFICATION Spec
CONSTANTS
  PageCount = 3
  Logs <- DataLogs
  InitLens = {1, 2, 3}
  Old = Old
  Zero = Zero
  New = New
  a = a
  b = b
  LogVals = {a, b}
  Stale = Stale
  MayCrash = TRUE
INVARIANTS TypeOK ReplayComplete RegionView
