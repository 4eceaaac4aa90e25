\* The sessions stop once each has made MaxCalls calls.
SPECIFICATION Spec
CONSTANTS
  old = old  new = new
  a = a  b = b  c = c
  x1 = x1  x2 = x2
  NoSql = NoSql  NoRow = NoRow  Nobody = Nobody
  Sql = {x1, x2}
  Session = {old, new}
  Name = {a, b, c}
  Source <- MixedSource
  InitialRows <- Fresh
  UseTransaction = TRUE
  FailOnDrift = FALSE
  OwnTransaction = {c}
  WaitsForSnapshots = {a}
  ForceFlags = {TRUE}
  MaxCalls = 2
  MaxCrashes = 1
  MaxCancels = 1
INVARIANTS
  RecordedHasRun
PROPERTIES
  ImplementsLedger
CHECK_DEADLOCK FALSE
