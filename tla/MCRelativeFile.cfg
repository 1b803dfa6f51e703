\* All access modes, READ PREVIOUS in dynamic access; the RELATIVE KEY is too small for the
\* last slot.
CONSTANTS
  d1 = d1
  d2 = d2
  EMPTY = EMPTY
  Junk = Junk
  UNKNOWN = UNKNOWN
  Max = 4
  KeyLimit = 3
  Data = {d1, d2}
  Accesses = {"SEQUENTIAL", "RANDOM", "DYNAMIC"}
  Previous = {"DYNAMIC"}
SPECIFICATION Spec
VIEW MCView
PROPERTIES RecordsKept UpdatesHitTheReadRecord
