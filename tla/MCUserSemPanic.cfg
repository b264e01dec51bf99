CONSTANTS
  Proc = {p1, p2, p3}
  Sem = {s1}
  SemQueue = {q1, q2}
  MaxValue = 1
  NoSem = NoSem
  NoQueue = NoQueue
SPECIFICATION UsemSpec
CHECK_DEADLOCK FALSE
INVARIANTS
  UpFindsSleeper
