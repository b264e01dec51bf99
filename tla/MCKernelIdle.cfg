CONSTANTS
  Timer = {t1}
  MaxTimeout = 3
  Proc = {p1, p2}
  Value = 2
  MAX_PROCESS = 5
  MAX_PID = 10
  lcpu_count = 2
  Reader = {r1}
  STDIN_BUFSIZE = 2
  MaxRead = 3
  MaxTyped = 2
SPECIFICATION MCSpec
INVARIANT PidsAboveIdle
