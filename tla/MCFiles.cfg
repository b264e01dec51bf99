CONSTANTS
  Proc = {p1, p2}
  Fs = {f1, f2}
  Pipes = {q1}
  NoFs = NoFs
  NoNode = NoNode
  NFile = 3
  MaxLen = 2
  MaxPos = 3
  PIPE_BUFSIZE = 2
SPECIFICATION Spec
SYMMETRY MCSymmetry
CHECK_DEADLOCK FALSE
INVARIANTS
  CountsExact
  SleeperHasPeer
  PipeInOrder
