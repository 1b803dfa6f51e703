CONSTANTS
  p1 = p1 p2 = p2 NONE = NONE
  Procs = {p1}
  Values = {1, 2}
  N = 1
  Dups = {}
  Suppressed <- MCNoSuppress
  Modes <- MCAllModes
  Access <- MCSequential
  LockMode <- MCAutomatic
  Multiple = {}
  Statements = {"WRITE", "REWRITE", "DELETE", "NEXT", "PREVIOUS"}
  MaxDup = 2 MaxHeld = 1
SPECIFICATION Spec
VIEW MCViewMixed
PROPERTIES RewriteKeepsOthers
CHECK_DEADLOCK FALSE
