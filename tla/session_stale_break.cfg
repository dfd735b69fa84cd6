SPECIFICATION Spec

CONSTANTS
  c1 = c1
  c2 = c2
  c3 = c3
  NoCall = NoCall
  App = App
  Calls = {c1, c2, c3}
  CtxCalls = {c1, c2}
  Deferrable = {}
  Abortable = {}
  OOB = FALSE
  ReqPkts = 2
  RespPkts = 2
  Replies = {"ok"}
  MaxCancels = 0
  CanLose = FALSE

INVARIANTS
  CancelHitsOwnCall
