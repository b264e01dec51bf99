CONSTANTS
  p1 = p1
  p2 = p2
  p3 = p3
  p4 = p4
  p5 = p5
  p6 = p6
  root = root
  i1 = i1
  i2 = i2
  i3 = i3
  name1 = name1
  name2 = name2
  NoIno = NoIno
  NoName = NoName
SPECIFICATION Spec
SYMMETRY MCSymmetry
CHECK_DEADLOCK FALSE
INVARIANTS
  RefsExact
  LinksExact
  FoundIsLoadable
  NoCircularWait
  BlocksOwned
  FileContents
