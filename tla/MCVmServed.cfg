CONSTANTS
  Proc = {p1, p2}
  Mm = {m1}
  NoMm = NoMm
  Private = {1, 2}
  Shared = {}
  Page = {g1}
  Entry = {1, 2}
  Val = {1, 2}
  Forget = TRUE
SPECIFICATION Spec
CHECK_DEADLOCK FALSE
INVARIANT
  FaultNeeded
