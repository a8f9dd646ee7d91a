SPECIFICATION Spec
CONSTANTS
  PageCount = 4
  Logs <- AllLogs
  InitLens = {3, 4}
  Old = Old
  Zero = Zero
  New = New
  a = a
  b = b
  LogVals = {a, b}
  Stale = Stale
  MayCrash = FALSE
INVARIANT WritesKept
