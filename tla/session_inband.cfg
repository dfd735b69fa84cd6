SPECIFICATION Spec

CONSTANTS
  c1 = c1
  c2 = c2
  c3 = c3
  NoCall = NoCall
  App = App
  Calls = {c1, c2}
  CtxCalls = {c1, c2}
  Deferrable = {}
  Abortable = {c1}
  OOB = FALSE
  ReqPkts = 2
  RespPkts = 2
  Replies = {"ok", "error", "retry", "dead"}
  MaxCancels = 1
  CanLose = TRUE

INVARIANTS
  OwnResponse
  DataBelongsToHolder
  ResetExpected
  OneVictimPerBreak

PROPERTIES
  Implements
