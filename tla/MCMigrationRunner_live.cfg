\* The sessions stop once each has made MaxCalls calls.
SPECIFICATION FairSpec
CONSTANTS
  old = old  new = new
  a = a  b = b  c = c
  x1 = x1  x2 = x2
  NoSql = NoSql  NoRow = NoRow  Nobody = Nobody
  Sql = {x1, x2}
  Session = {old, new}
  Name = {a, b}
  Source <- IndexSource
  InitialRows <- Fresh
  UseTransaction = TRUE
  FailOnDrift = TRUE
  OwnTransaction = {}
  WaitsForSnapshots = {a}
  ForceFlags = {FALSE}
  MaxCalls = 2
  MaxCrashes = 1
  MaxCancels = 0
INVARIANTS
  LockFreedOnReturn
PROPERTIES
  CallsReturn
CHECK_DEADLOCK FALSE
