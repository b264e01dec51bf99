CONSTANTS
  Proc = {p1, p2, p3}
  Nobody = Nobody
  Sem = {s1, s2}
  SemQueue = {q1, q2, q3}
  MaxValue = 1
  NoSem = NoSem
  NoQueue = NoQueue
  Mbox = {b1}
  Msg = {q1, q2, q3, x4}
  BigMsg = {x4}
  NoMbox = NoMbox
  NoMsg = NoMsg
  MaxSlots = 2
SPECIFICATION MCSpec
SYMMETRY MCSymmetry
CHECK_DEADLOCK FALSE
INVARIANTS
  CountsExact
  SleeperReachable
  TakenOnce
  NoMissedSender
  MsgOwned
  NoLostWakeup
