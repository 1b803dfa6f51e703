\* A run unit with two connectors, the second optional and line sequential, on
\* the file that another run unit uses.
CONSTANTS
  p1 = p1
  p2 = p2
  c1 = c1
  c2 = c2
  n1 = n1
  i1 = i1
  i2 = i2
  NONE = NONE
  Procs = {p1, p2}
  Conns = {c1, c2}
  Paths = {n1}
  Inodes = {i1}
  PathOf <- MCOnePath
  Optional = {c2}
  LineSeq = {c2}
  LockModeExcl = {}
SPECIFICATION Spec
VIEW MCViewNoData
CONSTRAINT MCOneUser
INVARIANTS HandleOK WriterExclusion OpenIsCached
