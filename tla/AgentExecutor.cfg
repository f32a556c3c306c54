SPECIFICATION FairSpec
CONSTANTS
  k1 = k1
  k2 = k2
  p1 = p1
  x = x
  y = y
  Caller = {c1, c2}
  Key = {k1, k2}
  Path = {p1}
  Content = {x, y}
  None = None
  Request <- MCRequest
  MaxThreads = 2
  MaxRounds = 1
  MaxBatch = 2
  Declared <- MCDeclared
INVARIANTS OneRequestPerKey RecordedIntact AnswerIsBacked
PROPERTIES ExecutionEnds
