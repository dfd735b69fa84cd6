SPECIFICATION FairSpec

CONSTANTS
  c1 = c1
  c2 = c2
  c3 = c3
  NoCall = NoCall
  App = App
  Calls = {c1, c2, c3}
  CtxCalls = {c1}
  Deferrable = {c1}
  Abortable = {c1}
  OOB = TRUE
  ReqPkts = 1
  RespPkts = 2
  Replies = {"ok", "error", "flush"}
  MaxCancels = 1
  CanLose = FALSE

PROPERTIES
  CallsReturn
