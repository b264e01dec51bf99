CONSTANTS
  Proc = {p1, p2}
  Reader = {}
  Asker = {p1, p2}
  Ino = {root, i1, i2}
  Root = root
  Name = {name1, name2}
  Common = {name1}
  NoIno = NoIno
  NoName = NoName
  LosesName = FALSE
  FromRemoved = TRUE
SPECIFICATION Spec
SYMMETRY MCSymmetry
CHECK_DEADLOCK FALSE
INVARIANT LoadsInodes
