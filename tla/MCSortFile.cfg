\* Sort memory for four records, so that up to four blocks go to temporary files.
CONSTANTS
  Keys <- MCKeys
  Directions <- MCDirections
  Capacity = 4
  MaxRecords = 8
  Files = 2
  MaxFaulty = 3
SPECIFICATION Spec
VIEW MCView
INVARIANTS TypeOK SortReturnTells
PROPERTIES SortsRecords
