CONSTANTS
  p1 = p1 p2 = p2 NONE = NONE
  Procs = {p1}
  Values = {1, 2}
  N = 1
  Dups = {1}
  Suppressed <- MCNoSuppress
  Modes <- MCAllModes
  Access <- MCDynamic
  LockMode <- MCAutomatic
  Multiple = {p1}
  Statements = {"WRITE", "REWRITE", "DELETE", "NEXT", "PREVIOUS", "START", "READ", "UNLOCK"}
  MaxDup = 2 MaxHeld = 1
SPECIFICATION Spec
VIEW MCView
INVARIANTS RecordsIndexed
PROPERTIES NextIsNearest
CHECK_DEADLOCK FALSE
