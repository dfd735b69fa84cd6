SPECIFICATION FairSpec

CONSTANTS
  u1 = u1
  u2 = u2
  Nobody = Nobody
  Users = {u1, u2}
  Queries = {u1}
  Lobs = {u1}
  Blocks = {}
  Rows = 3
  Want = 1
  MaxResults = 0
  LobRows = FALSE
  Faults = {"refuse", "start", "deferred", "error", "integrity", "abort"}
  MaxCursors = 3
  MaxMade = 2
  Ops = {"query", "update"}
  MaxOps = 2

INVARIANTS
  ExecuteRuns
  RowsAreDefined

PROPERTIES
  OperationsEnd
