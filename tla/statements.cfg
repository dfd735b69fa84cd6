SPECIFICATION Spec

CONSTANTS
  u1 = u1
  u2 = u2
  Nobody = Nobody
  Users = {u1, u2}
  Queries = {u1}
  Lobs = {u1}
  Blocks = {u2}
  Rows = 2
  Want = 1
  MaxResults = 2
  LobRows = FALSE
  Faults = {"refuse", "start", "error", "integrity", "retry"}
  MaxCursors = 3
  MaxMade = 2
  Ops = {"query", "schema"}
  MaxOps = 2

INVARIANTS
  OwnCursor
  ClosesAreDead
  OpenIsAccounted
  EveryRowOnce

CHECK_DEADLOCK FALSE
