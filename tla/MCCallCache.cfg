CONSTANTS
  prog = prog one = one two = two three = three again = again first = first batch = batch
  Names = {prog, one, two, three, again, first, batch}
  Main = prog
  Libs = {one, two, again, batch}
  EXE = EXE NOWHERE = NOWHERE
  Home <- MCHomeOf
  Preload = {batch}
  Kind <- MCKind
  Literals <- MCLiterals
  Settings = {"yes", "no", "never"}
  MaxDepth = 3 MaxOpens = 2
SPECIFICATION Spec
INVARIANTS HandlesBalanced CountsOK CancelReaches AloneIsLive
PROPERTIES RunningStaysLoaded
CHECK_DEADLOCK FALSE
