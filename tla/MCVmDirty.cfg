CONSTANTS
  Proc = {p1, p2}
  Mm = {m1, m2}
  NoMm = NoMm
  Private = {1}
  Shared = {}
  Page = {g1, g2}
  Entry = {1, 2}
  Val = {1, 2}
  Forget = FALSE
SPECIFICATION Spec
CHECK_DEADLOCK FALSE
INVARIANTS
  MemoryKept
