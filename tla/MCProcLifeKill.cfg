CONSTANTS
  User = {u1, u2, u3}
  Initproc = Initproc
  Kswapd = Kswapd
  AnyPid = AnyPid
SYMMETRY MCSymmetry
SPECIFICATION Spec
CHECK_DEADLOCK FALSE
INVARIANTS
  KilledNotInUser
