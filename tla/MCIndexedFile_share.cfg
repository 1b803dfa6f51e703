CONSTANTS
  p1 = p1 p2 = p2 NONE = NONE
  Procs = {p1, p2}
  Values = {1, 2}
  N = 1
  Dups = {}
  Suppressed <- MCNoSuppress
  Modes <- MCAllModes
  Access <- MCMixed
  LockMode <- MCMixedLock
  Multiple = {}
  Statements = {"WRITE", "REWRITE", "DELETE", "READ", "NEXT"}
  MaxDup = 2 MaxHeld = 1
SPECIFICATION Spec
VIEW MCViewMixed
INVARIANTS EntriesLeadBack RecordsIndexed UniqueAlternates LocksTracked
PROPERTIES LockedRecordStays
CHECK_DEADLOCK FALSE
