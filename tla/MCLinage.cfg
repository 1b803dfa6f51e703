SPECIFICATION Spec
CONSTANTS
  Files = {f, g}
  Geometries <- MCGeometries
  Advances <- MCAdvances
INVARIANTS CounterIsLine
PROPERTIES RecordsInBody EopWhenDue
VIEW MCView
SYMMETRY MCSymmetry
CHECK_DEADLOCK FALSE
