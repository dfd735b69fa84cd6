SPECIFICATION Spec

CONSTANTS
  Db = Db
  Cn = Cn
  s1 = s1
  t1 = t1
  o1 = o1
  o2 = o2
  Stmts = {s1}
  Streams = {t1}
  Options = {o1, o2}
  Refused = {o2}
  MaxContexts = 2
  MaxCancels = 1

INVARIANTS
  HandlesMatch
  OptionsApplied
PROPERTIES
  CancelReaches
  PoisonIsFinal

