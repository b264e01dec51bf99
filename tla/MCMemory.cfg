CONSTANTS
  Proc = {p1, p2}
  Third = p3
  Mm = {m1, m2}
  Single = m3
  NoMm = NoMm
  Page = {g1, g2}
  Entry = {1, 2}
  Val = {x1, x2}
  Forget = TRUE
  s1 = s1
  MaxKey = 9
  MAX_ORDER = 2
  MaxAddr = 8
  PageUnits = 2
  MaxUnits = 3
SPECIFICATION Spec
SYMMETRY MCSymmetry
CHECK_DEADLOCK FALSE
INVARIANTS
  RefsExact
  MemoryKept
  WaiterServed
  AreasSound
  TreeSound
  PagesOwned
  MemoryOwned
PROPERTIES
  ImplementsAddrSpace
