SPECIFICATION FairSpec
CONSTANTS
  ExitProcs = {x1, x2}
  ErrorProcs = {r1, r2}
  Priorities = {64, 1}
  NIL = NIL
  FREED = FREED
  MaxDepth = 7
  MaxDeeds = 4
INVARIANTS ExitProcsOnce ErrorLoopsDoNotNest NoCobolAfterTeardown
PROPERTIES NoUnloadUnderCheck EndsComeToAnEnd
CHECK_DEADLOCK FALSE
