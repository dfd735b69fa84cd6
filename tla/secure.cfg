SPECIFICATION SecureSpec

CONSTANTS
  c1 = c1
  c2 = c2
  NoCall = NoCall
  App = App
  Calls = {c1, c2}
  CtxCalls = {c1, c2}
  Deferrable = {}
  Abortable = {}
  OOB = FALSE
  ReqPkts = 1
  RespPkts = 2
  Replies = {"ok", "error", "flush"}
  MaxCancels = 1
  CanLose = TRUE

INVARIANTS
  InStep

PROPERTIES
  CallsReturn
