CONSTANTS
  Timer = {t1, t2, t3}
  MaxTimeout = 3
  Proc = {p1, p2, p3, p4, p5}
  Value = 2
  MAX_PROCESS = 5
  MAX_PID = 10
  lcpu_count = 1
  Reader = {r1, r2, r3}
  STDIN_BUFSIZE = 2
  MaxRead = 3
  MaxTyped = 5
SPECIFICATION MCSpec
INVARIANTS
  DeltasExact
  UnitsConserved
  UniquePids
  KeyWakesAll
PROPERTIES
  KeysKept
  TimerFires
  ImplementsTimers
  NoOvertaking
  DownReturns
  GetPidReturns
