----------------------------- MODULE StdinProofs -----------------------------
(***************************************************************************)
(* Proofs about the keyboard (module Stdin), for any number of readers, any *)
(* size of the buffer and any reads: every reader is woken, and the only    *)
(* character that may be lost is the one to be read next.                   *)
(***************************************************************************)
EXTENDS Stdin, SequenceTheorems, TLAPS

\* KeyWakesAll is not inductive alone: that a second reader finds nothing to take needs
\* that the positions do not cross.
StdinIInv ==
  /\ p_rpos \in Nat /\ p_wpos \in Nat /\ p_rpos <= p_wpos
  /\ reader \in [Reader -> [pc : {"idle", "asleep", "woken", "killed"}, left : Nat]]
  /\ KeyWakesAll

LEMMA StdinInitIInv == StdinInit => StdinIInv
BY DEF StdinInit, StdinIInv, KeyWakesAll, Idle

\* A read of n characters leaves its reader asleep only in front of an empty buffer,
\* and takes nothing while another one sleeps.
LEMMA StdinTakeIInv ==
  ASSUME StdinIInv, NEW r \in Reader, NEW n \in Nat, Take(r, n)
  PROVE  StdinIInv'
<1> DEFINE got == IF n < p_wpos - p_rpos THEN n ELSE p_wpos - p_rpos
<1>1. /\ got \in Nat /\ got <= n /\ got <= p_wpos - p_rpos
      /\ n - got \in Nat
      /\ got # n => got = p_wpos - p_rpos
  BY DEF StdinIInv
<1>2. /\ p_rpos' = p_rpos + got /\ p_wpos' = p_wpos
      /\ reader' = [reader EXCEPT ![r] =
                      IF got = n THEN Idle ELSE [pc |-> "asleep", left |-> n - got]]
  BY DEF Take
<1> HIDE DEF got
<1>3. p_rpos' \in Nat /\ p_wpos' \in Nat /\ p_rpos' <= p_wpos'
  BY <1>1, <1>2 DEF StdinIInv
<1>4. (IF got = n THEN Idle ELSE [pc |-> "asleep", left |-> n - got])
        \in [pc : {"idle", "asleep", "woken", "killed"}, left : Nat]
  BY <1>1 DEF Idle
<1>5. reader' \in [Reader -> [pc : {"idle", "asleep", "woken", "killed"}, left : Nat]]
  BY <1>2, <1>4 DEF StdinIInv
<1>6. ASSUME NEW q \in Reader, reader'[q].pc = "asleep" PROVE p_rpos' = p_wpos'
  <2>1. CASE q = r
    <3>1. got # n BY <1>2, <1>6, <2>1 DEF StdinIInv, Idle
    <3> QED BY <3>1, <1>1, <1>2 DEF StdinIInv
  <2>2. CASE q # r
    <3>1. reader[q].pc = "asleep" BY <1>2, <1>6, <2>2 DEF StdinIInv
    <3>2. p_rpos = p_wpos BY <3>1 DEF StdinIInv, KeyWakesAll
    <3> QED BY <3>2, <1>1, <1>2 DEF StdinIInv
  <2> QED BY <2>1, <2>2
<1> QED BY <1>3, <1>5, <1>6 DEF StdinIInv, KeyWakesAll

LEMMA StdinNextIInv == StdinIInv /\ [StdinNext]_stdinVars => StdinIInv'
<1> SUFFICES ASSUME StdinIInv, [StdinNext]_stdinVars PROVE StdinIInv' OBVIOUS
<1>1. CASE dev_stdin_write
  <2>1. /\ p_rpos' = p_rpos /\ p_wpos' \in {p_wpos, p_wpos + 1} /\ reader' = WakeReaders
    BY <1>1 DEF dev_stdin_write
  <2>2. \A q \in Reader : /\ reader[q] \in [pc : {"idle", "asleep", "woken", "killed"}, left : Nat]
                          /\ [reader[q] EXCEPT !.pc = "woken"]
                               \in [pc : {"idle", "asleep", "woken", "killed"}, left : Nat]
    BY DEF StdinIInv
  <2>3. reader' \in [Reader -> [pc : {"idle", "asleep", "woken", "killed"}, left : Nat]]
    BY <2>1, <2>2 DEF WakeReaders
  <2>4. \A q \in Reader : reader'[q].pc # "asleep"
    BY <2>1, <2>2 DEF WakeReaders
  <2> QED BY <2>1, <2>3, <2>4 DEF StdinIInv, KeyWakesAll
<1>2. ASSUME NEW r \in Reader, ReadWake(r) PROVE StdinIInv'
  <2>1. reader[r].left \in Nat BY DEF StdinIInv
  <2> QED BY <1>2, <2>1, StdinTakeIInv DEF ReadWake
<1>3. ASSUME NEW r \in Reader, NEW n \in 1..MaxRead, ReadBegin(r, n) PROVE StdinIInv'
  BY <1>3, StdinTakeIInv DEF ReadBegin
<1>4. ASSUME NEW r \in Reader, Kill(r) \/ ReadInterrupted(r) PROVE StdinIInv'
  BY <1>4 DEF Kill, ReadInterrupted, StdinIInv, KeyWakesAll, Idle
<1>5. CASE UNCHANGED stdinVars
  BY <1>5 DEF stdinVars, StdinIInv, KeyWakesAll
<1> QED BY <1>1, <1>2, <1>3, <1>4, <1>5 DEF StdinNext

\* A key wakes every reader of the keyboard (wakeup_queue in dev_stdin_write), and none
\* of them goes back to sleep while a character is left in the buffer.
THEOREM ReadersAlwaysWoken == StdinSpec => []KeyWakesAll
<1>1. StdinIInv => KeyWakesAll BY DEF StdinIInv
<1> QED BY StdinInitIInv, StdinNextIInv, <1>1, PTL DEF StdinSpec

\* A number is its quotient times the divisor, plus the remainder.
LEMMA DivMod ==
  ASSUME NEW n \in Nat \ {0}, NEW i \in Nat
  PROVE  (i \div n) \in Int /\ (i % n) \in 0..n - 1 /\ i = (n * (i \div n)) + (i % n)
OBVIOUS

LEMMA NotMultiple ==
  ASSUME NEW n \in Nat \ {0}, NEW q \in Int, NEW d \in 1..n - 1
  PROVE  d # n * q
<1>1. CASE q <= 0 BY <1>1
<1>2. CASE q >= 1 BY <1>2
<1> QED BY <1>1, <1>2

\* Positions less than the size of the buffer apart are in different cells,
LEMMA OtherCell ==
  ASSUME NEW n \in Nat \ {0}, NEW i \in Nat, NEW j \in Nat, i < j, j - i < n
  PROVE  (i % n) # (j % n)
<1> SUFFICES ASSUME (i % n) = (j % n) PROVE FALSE OBVIOUS
<1> DEFINE a == i \div n
           b == j \div n
<1>1. /\ a \in Int /\ b \in Int /\ (i % n) \in Int
      /\ i = n * a + (i % n) /\ j = n * b + (j % n)
  BY DivMod
<1>2. b - a \in Int /\ j - i \in 1..n - 1 BY <1>1
<1> HIDE DEF a, b
<1>3. j - i = n * b - n * a BY <1>1
<1>4. j - i = n * (b - a) BY <1>1, <1>3
<1> QED BY <1>2, <1>4, NotMultiple

\* and positions just that far apart are in the same one.
LEMMA SameCell ==
  ASSUME NEW n \in Nat \ {0}, NEW i \in Nat
  PROVE  ((i + n) % n) = (i % n)
<1> DEFINE a == i \div n
           b == (i + n) \div n
           x == i % n
           y == (i + n) % n
<1>0. i + n \in Nat OBVIOUS
<1>1. a \in Int /\ i = n * a + x /\ x \in 0..n - 1 BY DivMod
<1>2. b \in Int /\ i + n = n * b + y /\ y \in 0..n - 1 BY <1>0, DivMod
<1> HIDE DEF a, b, x, y
<1>3. x - y = n * b - n * a - n /\ b - a - 1 \in Int BY <1>1, <1>2
<1>4. x - y = n * (b - a - 1) BY <1>1, <1>2, <1>3
<1>5. y - x = n * (a + 1 - b) /\ a + 1 - b \in Int BY <1>1, <1>2, <1>3
<1>6. ~(x > y) BY <1>1, <1>2, <1>3, <1>4, NotMultiple
<1>7. ~(x < y) BY <1>1, <1>2, <1>5, NotMultiple
<1>8. x = y BY <1>6, <1>7, <1>1, <1>2
<1> QED BY <1>8 DEF x, y

Cell(b, i) == b[i % STDIN_BUFSIZE]
Near(i, w) == \/ i < w /\ w - i < STDIN_BUFSIZE
              \/ i > w /\ i - w < STDIN_BUFSIZE
Store(b, w, x) == [b EXCEPT ![w % STDIN_BUFSIZE] = x]

\* Storing a character at position w changes no cell of the positions in front of w.
LEMMA Stored ==
  ASSUME NEW b \in [0..STDIN_BUFSIZE - 1 -> Nat], NEW w \in Nat, NEW x \in Nat
  PROVE  /\ Store(b, w, x) \in [0..STDIN_BUFSIZE - 1 -> Nat]
         /\ Cell(Store(b, w, x), w) = x
         /\ \A i \in Nat : Near(i, w) => Cell(Store(b, w, x), i) = Cell(b, i)
<1> DEFINE n == STDIN_BUFSIZE
           c == [b EXCEPT ![w % n] = x]
<1>1. n \in Nat \ {0} BY StdinAssumption
<1> HIDE DEF n
<1>2. b \in [0..n - 1 -> Nat] BY DEF n
<1>3. (w % n) \in 0..n - 1 BY <1>1, DivMod
<1>4. c \in [0..n - 1 -> Nat] BY <1>2, <1>3
<1>5. c[w % n] = x BY Zenon, <1>2, <1>3
<1>6. ASSUME NEW i \in Nat, (i < w /\ w - i < n) \/ (i > w /\ i - w < n)
      PROVE  c[i % n] = b[i % n]
  <2>1. (i % n) \in 0..n - 1 BY <1>1, DivMod
  <2>2. (i % n) # (w % n) BY Zenon, <1>1, <1>6, OtherCell
  <2> QED BY <1>2, <2>1, <2>2
<1> HIDE DEF c
<1>7. \A i \in Nat : ((i < w /\ w - i < n) \/ (i > w /\ i - w < n)) => c[i % n] = b[i % n]
  BY <1>6
<1>8. Cell(c, w) = x BY <1>5 DEF n, Cell
<1>9. ASSUME NEW i \in Nat, Near(i, w) PROVE Cell(c, i) = Cell(b, i)
  <2>1. (i < w /\ w - i < n) \/ (i > w /\ i - w < n) BY <1>9 DEF n, Near
  <2>2. c[i % n] = b[i % n] BY <2>1, <1>7
  <2> QED BY <2>2 DEF n, Cell
<1>10. c = Store(b, w, x) BY DEF c, n, Store
<1> QED BY <1>4, <1>8, <1>9, <1>10 DEF n

\* What is in the buffer, for the positions r..w-1 of the unread characters, the
\* characters g given so far and the number t of those typed.
Unread(b, r, w, g, t) ==
  /\ w - r \in 0..STDIN_BUFSIZE
  /\ \A i, j \in DOMAIN g : i # j => g[i] # g[j]
  /\ \A j \in DOMAIN g : g[j] <= t
  /\ \A i \in r..w - 1 : Cell(b, i) \in 1..t
  /\ \A i \in r..w - 1 : \A j \in DOMAIN g : Cell(b, i) # g[j]
  /\ \A i, j \in r..w - 1 : r < i /\ i < j => Cell(b, i) < Cell(b, j)
  /\ \A i \in r..w - 1 : r < i => Cell(b, i) # Cell(b, r)

\* KeysOnce is not inductive alone: the numbers given are those of typed
\* characters, and the one in the cell of the next character differs from the rest.
KeysIInv ==
  /\ p_rpos \in Nat /\ p_wpos \in Nat /\ typed \in Nat
  /\ stdin_buffer \in [0..STDIN_BUFSIZE - 1 -> Nat]
  /\ given \in Seq(Nat)
  /\ Unread(stdin_buffer, p_rpos, p_wpos, given, typed)

LEMMA KeysInit == StdinInit => KeysIInv
<1> SUFFICES ASSUME StdinInit PROVE KeysIInv OBVIOUS
<1>1. /\ p_rpos = 0 /\ p_wpos = 0 /\ typed = 0 /\ given = << >>
      /\ stdin_buffer \in [0..STDIN_BUFSIZE - 1 -> Nat]
  BY StdinAssumption DEF StdinInit
<1>2. DOMAIN given = {} /\ given \in Seq(Nat) /\ p_rpos..p_wpos - 1 = {} BY <1>1
<1>3. p_wpos - p_rpos \in 0..STDIN_BUFSIZE BY <1>1, StdinAssumption
<1>4. Unread(stdin_buffer, p_rpos, p_wpos, given, typed) BY <1>2, <1>3 DEF Unread
<1> QED BY <1>1, <1>2, <1>4 DEF KeysIInv

\* A character typed into a buffer with room is the last of those waiting.
LEMMA KeysStored ==
  ASSUME KeysIInv, p_wpos - p_rpos < STDIN_BUFSIZE
  PROVE  Unread(Store(stdin_buffer, p_wpos, typed + 1),
                p_rpos, p_wpos + 1, given, typed + 1)
<1> DEFINE c == Store(stdin_buffer, p_wpos, typed + 1)
<1>1. /\ p_rpos \in Nat /\ p_wpos \in Nat /\ typed \in Nat /\ typed + 1 \in Nat
      /\ stdin_buffer \in [0..STDIN_BUFSIZE - 1 -> Nat] /\ given \in Seq(Nat)
      /\ STDIN_BUFSIZE \in Nat \ {0} /\ p_wpos - p_rpos \in 0..STDIN_BUFSIZE
  BY StdinAssumption DEF KeysIInv, Unread
<1>2. /\ Cell(c, p_wpos) = typed + 1
      /\ \A i \in Nat : Near(i, p_wpos) => Cell(c, i) = Cell(stdin_buffer, i)
  <2>1. /\ stdin_buffer \in [0..STDIN_BUFSIZE - 1 -> Nat]
        /\ p_wpos \in Nat /\ typed + 1 \in Nat
    BY <1>1
  <2>2. Cell(Store(stdin_buffer, p_wpos, typed + 1), p_wpos) = typed + 1
    BY ONLY <2>1, Stored
  <2>3. \A i \in Nat : Near(i, p_wpos) => Cell(Store(stdin_buffer, p_wpos, typed + 1), i)
                                        = Cell(stdin_buffer, i)
    BY ONLY <2>1, Stored
  <2> QED BY <2>2, <2>3
<1> HIDE DEF c
<1>3. \A i \in p_rpos..p_wpos - 1 : Cell(c, i) = Cell(stdin_buffer, i)
  BY <1>1, <1>2 DEF Near
<1>4. \A i \in p_rpos..p_wpos - 1 : Cell(c, i) \in 1..typed
  BY <1>3 DEF KeysIInv, Unread
<1>5. \A i \in p_rpos..p_wpos : i = p_wpos \/ i \in p_rpos..p_wpos - 1
  BY <1>1
<1>6. \A j \in DOMAIN given : given[j] \in Nat /\ given[j] <= typed
  BY <1>1 DEF KeysIInv, Unread
<1>7. \A i, j \in DOMAIN given : i # j => given[i] # given[j]
  BY DEF KeysIInv, Unread
<1>8. \A i \in p_rpos..p_wpos : Cell(c, i) \in 1..typed + 1
  BY <1>1, <1>2, <1>4, <1>5
<1>9. \A i \in p_rpos..p_wpos : \A j \in DOMAIN given : Cell(c, i) # given[j]
  <2> TAKE i \in p_rpos..p_wpos
  <2> TAKE j \in DOMAIN given
  <2>1. CASE i = p_wpos BY <2>1, <1>1, <1>2, <1>6
  <2>2. CASE i \in p_rpos..p_wpos - 1
    <3>1. Cell(stdin_buffer, i) # given[j] BY <2>2 DEF KeysIInv, Unread
    <3> QED BY <3>1, <2>2, <1>3
  <2> QED BY <2>1, <2>2, <1>5
<1>10. \A i, j \in p_rpos..p_wpos : p_rpos < i /\ i < j => Cell(c, i) < Cell(c, j)
  <2> SUFFICES ASSUME NEW i \in p_rpos..p_wpos, NEW j \in p_rpos..p_wpos, p_rpos < i, i < j
               PROVE  Cell(c, i) < Cell(c, j)
    OBVIOUS
  <2>0. i \in p_rpos..p_wpos - 1 BY <1>1
  <2>1. CASE j = p_wpos BY <2>0, <2>1, <1>1, <1>2, <1>4
  <2>2. CASE j \in p_rpos..p_wpos - 1
    <3>1. Cell(stdin_buffer, i) < Cell(stdin_buffer, j) BY <2>0, <2>2 DEF KeysIInv, Unread
    <3> QED BY <3>1, <2>0, <2>2, <1>3
  <2> QED BY <2>1, <2>2, <1>5
<1>11. \A i \in p_rpos..p_wpos : p_rpos < i => Cell(c, i) # Cell(c, p_rpos)
  <2> SUFFICES ASSUME NEW i \in p_rpos..p_wpos, p_rpos < i
               PROVE  Cell(c, i) # Cell(c, p_rpos)
    OBVIOUS
  <2>0. p_rpos \in p_rpos..p_wpos - 1 BY <1>1
  <2>1. CASE i = p_wpos BY <2>0, <2>1, <1>1, <1>2, <1>4
  <2>2. CASE i \in p_rpos..p_wpos - 1
    <3>1. Cell(stdin_buffer, i) # Cell(stdin_buffer, p_rpos) BY <2>2 DEF KeysIInv, Unread
    <3> QED BY <3>1, <2>0, <2>2, <1>3
  <2> QED BY <2>1, <2>2, <1>5
<1>12. \A j \in DOMAIN given : given[j] <= typed + 1 BY <1>1, <1>6
<1> DEFINE v == p_wpos + 1
<1>13. v - p_rpos \in 0..STDIN_BUFSIZE /\ p_rpos..v - 1 = p_rpos..p_wpos BY <1>1
<1> HIDE DEF v
<1>14. Unread(c, p_rpos, v, given, typed + 1)
  BY Zenon, <1>7, <1>8, <1>9, <1>10, <1>11, <1>12, <1>13 DEF Unread
<1> QED BY <1>14 DEF c, v

\* A character typed into a full buffer takes the cell of the next one to be read.
LEMMA KeysOver ==
  ASSUME KeysIInv, ~(p_wpos - p_rpos < STDIN_BUFSIZE)
  PROVE  Unread(Store(stdin_buffer, p_wpos, typed + 1),
                p_rpos, p_wpos, given, typed + 1)
<1> DEFINE c == Store(stdin_buffer, p_rpos, typed + 1)
<1>1. /\ p_rpos \in Nat /\ p_wpos \in Nat /\ typed \in Nat /\ typed + 1 \in Nat
      /\ stdin_buffer \in [0..STDIN_BUFSIZE - 1 -> Nat] /\ given \in Seq(Nat)
      /\ STDIN_BUFSIZE \in Nat \ {0} /\ p_wpos - p_rpos \in 0..STDIN_BUFSIZE
  BY StdinAssumption DEF KeysIInv, Unread
<1>0. p_wpos = p_rpos + STDIN_BUFSIZE BY <1>1
<1>01. (p_wpos % STDIN_BUFSIZE) = (p_rpos % STDIN_BUFSIZE) BY Zenon, <1>0, <1>1, SameCell
<1>2. /\ Cell(c, p_rpos) = typed + 1
      /\ \A i \in Nat : Near(i, p_rpos) => Cell(c, i) = Cell(stdin_buffer, i)
  <2>1. /\ stdin_buffer \in [0..STDIN_BUFSIZE - 1 -> Nat]
        /\ p_rpos \in Nat /\ typed + 1 \in Nat
    BY <1>1
  <2>2. Cell(Store(stdin_buffer, p_rpos, typed + 1), p_rpos) = typed + 1
    BY ONLY <2>1, Stored
  <2>3. \A i \in Nat : Near(i, p_rpos) => Cell(Store(stdin_buffer, p_rpos, typed + 1), i)
                                        = Cell(stdin_buffer, i)
    BY ONLY <2>1, Stored
  <2> QED BY <2>2, <2>3
<1> HIDE DEF c
<1>3. \A i \in p_rpos..p_wpos - 1 : p_rpos < i => Cell(c, i) = Cell(stdin_buffer, i)
  BY <1>0, <1>1, <1>2 DEF Near
<1>4. \A i \in p_rpos..p_wpos - 1 : p_rpos < i => Cell(c, i) \in 1..typed
  BY <1>3 DEF KeysIInv, Unread
<1>5. \A i \in p_rpos..p_wpos - 1 : i = p_rpos \/ p_rpos < i
  BY <1>1
<1>6. \A j \in DOMAIN given : given[j] \in Nat /\ given[j] <= typed
  BY <1>1 DEF KeysIInv, Unread
<1>7. \A i, j \in DOMAIN given : i # j => given[i] # given[j]
  BY DEF KeysIInv, Unread
<1>8. \A i \in p_rpos..p_wpos - 1 : Cell(c, i) \in 1..typed + 1
  BY <1>1, <1>2, <1>4, <1>5
<1>9. \A i \in p_rpos..p_wpos - 1 : \A j \in DOMAIN given : Cell(c, i) # given[j]
  <2> TAKE i \in p_rpos..p_wpos - 1
  <2> TAKE j \in DOMAIN given
  <2>1. CASE i = p_rpos BY <2>1, <1>1, <1>2, <1>6
  <2>2. CASE p_rpos < i
    <3>1. Cell(stdin_buffer, i) # given[j] BY DEF KeysIInv, Unread
    <3> QED BY <3>1, <2>2, <1>3
  <2> QED BY <2>1, <2>2, <1>5
<1>10. \A i, j \in p_rpos..p_wpos - 1 : p_rpos < i /\ i < j => Cell(c, i) < Cell(c, j)
  <2> SUFFICES ASSUME NEW i \in p_rpos..p_wpos - 1, NEW j \in p_rpos..p_wpos - 1,
                      p_rpos < i, i < j
               PROVE  Cell(c, i) < Cell(c, j)
    OBVIOUS
  <2>1. Cell(stdin_buffer, i) < Cell(stdin_buffer, j) BY DEF KeysIInv, Unread
  <2>2. p_rpos < j BY <1>1
  <2> QED BY <2>1, <2>2, <1>3
<1>11. \A i \in p_rpos..p_wpos - 1 : p_rpos < i => Cell(c, i) # Cell(c, p_rpos)
  BY <1>1, <1>2, <1>4
<1>13. \A j \in DOMAIN given : given[j] <= typed + 1 BY <1>1, <1>6
<1>14. Unread(c, p_rpos, p_wpos, given, typed + 1)
  BY <1>1, <1>7, <1>8, <1>9, <1>10, <1>11, <1>13 DEF Unread
<1> QED BY Zenon, <1>14, <1>01 DEF c, Store

\* A read takes the first of the waiting characters, each of them once.
LEMMA KeysTaken ==
  ASSUME KeysIInv, NEW r \in Reader, NEW n \in Nat, Take(r, n)
  PROVE  KeysIInv'
<1> DEFINE got == IF n < p_wpos - p_rpos THEN n ELSE p_wpos - p_rpos
           b == stdin_buffer
           new == [i \in 1..got |-> b[(p_rpos + i - 1) % STDIN_BUFSIZE]]
<1>1. /\ p_rpos \in Nat /\ p_wpos \in Nat /\ typed \in Nat
      /\ b \in [0..STDIN_BUFSIZE - 1 -> Nat] /\ given \in Seq(Nat)
      /\ STDIN_BUFSIZE \in Nat \ {0} /\ p_wpos - p_rpos \in 0..STDIN_BUFSIZE
  BY StdinAssumption DEF KeysIInv, Unread
<1>2. got \in Nat /\ got <= p_wpos - p_rpos BY <1>1
<1>3. /\ p_rpos' = p_rpos + got /\ given' = given \o new
      /\ p_wpos' = p_wpos /\ stdin_buffer' = b /\ typed' = typed
  BY DEF Take
<1> HIDE DEF got, b
<1>4. \A i \in 1..got : new[i] = Cell(b, p_rpos + i - 1) BY DEF Cell
<1>5. \A i \in 1..got : p_rpos + i - 1 \in p_rpos..p_wpos - 1 BY <1>1, <1>2
<1>6. /\ \A i \in p_rpos..p_wpos - 1 : Cell(b, i) \in 1..typed
      /\ \A i \in p_rpos..p_wpos - 1 : \A j \in DOMAIN given : Cell(b, i) # given[j]
      /\ \A i, j \in p_rpos..p_wpos - 1 : p_rpos < i /\ i < j => Cell(b, i) < Cell(b, j)
      /\ \A i \in p_rpos..p_wpos - 1 : p_rpos < i => Cell(b, i) # Cell(b, p_rpos)
      /\ \A j \in DOMAIN given : given[j] <= typed
      /\ \A i, j \in DOMAIN given : i # j => given[i] # given[j]
  BY DEF KeysIInv, Unread, b
<1>7. \A i, j \in p_rpos..p_wpos - 1 : i # j => Cell(b, i) # Cell(b, j)
  <2> SUFFICES ASSUME NEW i \in p_rpos..p_wpos - 1, NEW j \in p_rpos..p_wpos - 1, i < j
               PROVE  Cell(b, i) # Cell(b, j)
    BY <1>1
  <2>1. CASE i = p_rpos BY <2>1, <1>1, <1>6
  <2>2. CASE p_rpos < i
    <3>1. Cell(b, i) < Cell(b, j) BY <2>2, <1>6
    <3>2. Cell(b, i) \in Int BY <1>6
    <3> QED BY <3>1, <3>2
  <2> QED BY <2>1, <2>2, <1>1
<1>8. \A i \in 1..got : new[i] \in Nat /\ new[i] <= typed BY <1>1, <1>4, <1>5, <1>6
<1>9. \A i, j \in 1..got : i # j => new[i] # new[j]
  <2> TAKE i, j \in 1..got
  <2> HAVE i # j
  <2>1. p_rpos + i - 1 # p_rpos + j - 1 BY <1>1, <1>2
  <2> QED BY <2>1, <1>4, <1>5, <1>7
<1>10. new \in Seq(Nat) /\ Len(new) = got
  <2>1. new \in [1..got -> Nat] BY <1>8
  <2> QED BY <1>2, <2>1
<1> HIDE DEF new
<1>11. /\ given' \in Seq(Nat) /\ Len(given') = Len(given) + got
       /\ \A i \in 1..Len(given) : given'[i] = given[i]
       /\ \A i \in 1..got : given'[Len(given) + i] = new[i]
  <2>1. /\ given \o new \in Seq(Nat) /\ Len(given \o new) = Len(given) + Len(new)
        /\ \A i \in 1..Len(given) + Len(new) :
             (given \o new)[i] = IF i <= Len(given) THEN given[i] ELSE new[i - Len(given)]
    BY <1>1, <1>10, ConcatProperties
  <2>2. Len(given) \in Nat BY <1>1
  <2>3. ASSUME NEW i \in 1..Len(given) PROVE given'[i] = given[i]
    BY <2>1, <2>2, <1>2, <1>3, <1>10
  <2>4. ASSUME NEW i \in 1..got PROVE given'[Len(given) + i] = new[i]
    <3> DEFINE k == Len(given) + i
    <3>1. k \in 1..Len(given) + Len(new) /\ ~(k <= Len(given)) /\ k - Len(given) = i
      BY <2>2, <1>2, <1>10
    <3> HIDE DEF k
    <3>2. given'[k] = new[k - Len(given)] BY <2>1, <3>1, <1>3
    <3> QED BY <3>1, <3>2 DEF k
  <2> QED BY <2>1, <2>3, <2>4, <1>3, <1>10
<1>12. Len(given) \in Nat /\ DOMAIN given = 1..Len(given) /\ DOMAIN given' = 1..Len(given')
  BY <1>1, <1>11
<1>13. \A i \in DOMAIN given' : \/ i \in DOMAIN given /\ given'[i] = given[i]
                               \/ /\ i - Len(given) \in 1..got
                                  /\ given'[i] = new[i - Len(given)]
                                  /\ p_rpos + (i - Len(given)) - 1 \in p_rpos..p_wpos - 1
                                  /\ p_rpos + (i - Len(given)) - 1 < p_rpos'
                                  /\ given'[i] = Cell(b, p_rpos + (i - Len(given)) - 1)
  <2> TAKE i \in DOMAIN given'
  <2>1. CASE i <= Len(given) BY <2>1, <1>11, <1>12
  <2>2. CASE i > Len(given)
    <3> DEFINE k == i - Len(given)
    <3>1. k \in 1..got /\ i = Len(given) + k BY <2>2, <1>2, <1>11, <1>12
    <3> HIDE DEF k
    <3>2. given'[i] = new[k] BY <3>1, <1>11
    <3>3. p_rpos + k - 1 \in p_rpos..p_wpos - 1 /\ p_rpos + k - 1 < p_rpos'
      BY <3>1, <1>1, <1>2, <1>3
    <3>4. given'[i] = Cell(b, p_rpos + k - 1) BY <3>1, <3>2, <1>4
    <3> QED BY <3>1, <3>2, <3>3, <3>4 DEF k
  <2> QED BY <2>1, <2>2, <1>11, <1>12
<1>14. \A i, j \in DOMAIN given' : i # j => given'[i] # given'[j]
  <2> SUFFICES ASSUME NEW i \in DOMAIN given', NEW j \in DOMAIN given', i < j
               PROVE  given'[i] # given'[j]
    BY <1>11, <1>12
  <2>1. CASE i \in DOMAIN given /\ j \in DOMAIN given
    BY <2>1, <1>6, <1>11, <1>12
  <2>2. CASE i \in DOMAIN given /\ j \notin DOMAIN given
    BY <2>2, <1>6, <1>13, <1>11, <1>12
  <2>3. CASE i \notin DOMAIN given /\ j \notin DOMAIN given
    <3>1. /\ i - Len(given) \in 1..got /\ given'[i] = new[i - Len(given)]
          /\ j - Len(given) \in 1..got /\ given'[j] = new[j - Len(given)]
      BY <2>3, <1>13
    <3>2. i - Len(given) # j - Len(given) BY <1>11, <1>12
    <3> QED BY <3>1, <3>2, <1>9
  <2>4. ~(i \notin DOMAIN given /\ j \in DOMAIN given) BY <1>11, <1>12
  <2> QED BY <2>1, <2>2, <2>3, <2>4
<1>15. \A j \in DOMAIN given' : given'[j] <= typed BY <1>6, <1>8, <1>13
<1>16. p_rpos'..p_wpos - 1 \subseteq p_rpos..p_wpos - 1 BY <1>1, <1>2, <1>3
<1>17. \A i \in p_rpos'..p_wpos - 1 : \A j \in DOMAIN given' : Cell(b, i) # given'[j]
  <2> TAKE i \in p_rpos'..p_wpos - 1
  <2> TAKE j \in DOMAIN given'
  <2>1. CASE j \in DOMAIN given BY <2>1, <1>6, <1>11, <1>12, <1>16
  <2>2. CASE j \notin DOMAIN given
    <3> DEFINE k == p_rpos + (j - Len(given)) - 1
    <3>1. k \in p_rpos..p_wpos - 1 /\ k < p_rpos' /\ given'[j] = Cell(b, k) BY <2>2, <1>13
    <3> HIDE DEF k
    <3>2. i # k BY <3>1, <1>1, <1>2, <1>3
    <3> QED BY <3>1, <3>2, <1>7, <1>16
  <2> QED BY <2>1, <2>2
<1>18. \A i, j \in p_rpos'..p_wpos - 1 : p_rpos' < i /\ i < j => Cell(b, i) < Cell(b, j)
  BY <1>1, <1>2, <1>3, <1>6, <1>16
<1>19. \A i \in p_rpos'..p_wpos - 1 : p_rpos' < i => Cell(b, i) # Cell(b, p_rpos')
  <2> SUFFICES ASSUME NEW i \in p_rpos'..p_wpos - 1, p_rpos' < i
               PROVE  Cell(b, i) # Cell(b, p_rpos')
    OBVIOUS
  <2>1. p_rpos' \in p_rpos'..p_wpos - 1 /\ p_rpos' # i BY <1>1, <1>2, <1>3
  <2> QED BY <2>1, <1>7, <1>16
<1>20. p_rpos' \in Nat /\ p_wpos - p_rpos' \in 0..STDIN_BUFSIZE BY <1>1, <1>2, <1>3
<1>21. \A i \in p_rpos'..p_wpos - 1 : Cell(b, i) \in 1..typed BY <1>6, <1>16
<1>22. Unread(b, p_rpos', p_wpos, given', typed)
  BY <1>14, <1>15, <1>17, <1>18, <1>19, <1>20, <1>21 DEF Unread
<1>23. Unread(stdin_buffer', p_rpos', p_wpos', given', typed') BY <1>3, <1>22
<1> QED BY <1>1, <1>3, <1>11, <1>20, <1>23 DEF KeysIInv, b

LEMMA KeysNext ==
  ASSUME StdinIInv, KeysIInv, [StdinNext]_stdinVars
  PROVE  KeysIInv'
<1>1. CASE dev_stdin_write
  <2>1. /\ p_rpos' = p_rpos /\ given' = given /\ typed' = typed + 1
        /\ stdin_buffer' = Store(stdin_buffer, p_wpos, typed + 1)
        /\ p_wpos' = IF p_wpos - p_rpos < STDIN_BUFSIZE THEN p_wpos + 1 ELSE p_wpos
    BY <1>1 DEF dev_stdin_write, Store
  <2>2. /\ p_rpos' \in Nat /\ p_wpos' \in Nat /\ typed' \in Nat /\ given' \in Seq(Nat)
    BY <2>1 DEF KeysIInv
  <2>3. stdin_buffer' \in [0..STDIN_BUFSIZE - 1 -> Nat]
    <3>1. /\ stdin_buffer \in [0..STDIN_BUFSIZE - 1 -> Nat]
          /\ p_wpos \in Nat /\ typed + 1 \in Nat
      BY DEF KeysIInv
    <3>2. Store(stdin_buffer, p_wpos, typed + 1) \in [0..STDIN_BUFSIZE - 1 -> Nat]
      BY ONLY <3>1, Stored
    <3> QED BY <2>1, <3>2
  <2>4. CASE p_wpos - p_rpos < STDIN_BUFSIZE
    <3>1. Unread(Store(stdin_buffer, p_wpos, typed + 1), p_rpos, p_wpos + 1, given, typed + 1)
      BY <2>4, KeysStored
    <3>2. p_wpos' = p_wpos + 1 BY <2>1, <2>4
    <3>3. Unread(stdin_buffer', p_rpos', p_wpos', given', typed') BY <2>1, <3>1, <3>2
    <3> QED BY <2>2, <2>3, <3>3 DEF KeysIInv
  <2>5. CASE ~(p_wpos - p_rpos < STDIN_BUFSIZE)
    <3>1. Unread(Store(stdin_buffer, p_wpos, typed + 1), p_rpos, p_wpos, given, typed + 1)
      BY <2>5, KeysOver
    <3>2. p_wpos' = p_wpos BY <2>1, <2>5
    <3>3. Unread(stdin_buffer', p_rpos', p_wpos', given', typed') BY <2>1, <3>1, <3>2
    <3> QED BY <2>2, <2>3, <3>3 DEF KeysIInv
  <2> QED BY <2>4, <2>5
<1>2. ASSUME NEW r \in Reader, ReadWake(r) PROVE KeysIInv'
  <2>1. reader[r].left \in Nat BY DEF StdinIInv
  <2> QED BY <1>2, <2>1, KeysTaken DEF ReadWake
<1>3. ASSUME NEW r \in Reader, NEW n \in 1..MaxRead, ReadBegin(r, n) PROVE KeysIInv'
  BY <1>3, KeysTaken DEF ReadBegin
<1>4. CASE \/ UNCHANGED stdinVars
           \/ \E r \in Reader : Kill(r) \/ ReadInterrupted(r)
  <2>1. /\ p_rpos' = p_rpos /\ p_wpos' = p_wpos /\ given' = given /\ typed' = typed
        /\ stdin_buffer' = stdin_buffer
    BY <1>4 DEF stdinVars, Kill, ReadInterrupted
  <2> QED BY <2>1 DEF KeysIInv
<1> QED BY <1>1, <1>2, <1>3, <1>4 DEF StdinNext

\* The characters among g and in the cells of the positions r..w-1 of b.
Has(b, r, w, g, c) ==
  \/ \E j \in DOMAIN g : g[j] = c
  \/ \E i \in r..w - 1 : Cell(b, i) = c

LEMMA HeldHas ==
  ASSUME NEW c
  PROVE  /\ Held(c) <=> Has(stdin_buffer, p_rpos, p_wpos, given, c)
         /\ Held(c)' <=> Has(stdin_buffer', p_rpos', p_wpos', given', c)
BY DEF Held, Has, Cell

\* A read moves characters from the buffer to its reader and loses none.
LEMMA TakeLosesNone ==
  ASSUME KeysIInv, NEW r \in Reader, NEW n \in Nat, Take(r, n), NEW c, Held(c)
  PROVE  Held(c)'
<1> DEFINE got == IF n < p_wpos - p_rpos THEN n ELSE p_wpos - p_rpos
           b == stdin_buffer
           new == [i \in 1..got |-> b[(p_rpos + i - 1) % STDIN_BUFSIZE]]
<1>1. /\ p_rpos \in Nat /\ p_wpos \in Nat /\ given \in Seq(Nat)
      /\ b \in [0..STDIN_BUFSIZE - 1 -> Nat]
      /\ STDIN_BUFSIZE \in Nat \ {0} /\ p_wpos - p_rpos \in 0..STDIN_BUFSIZE
  BY StdinAssumption DEF KeysIInv, Unread
<1>2. got \in Nat /\ got <= p_wpos - p_rpos BY <1>1
<1>3. /\ p_rpos' = p_rpos + got /\ given' = given \o new
      /\ p_wpos' = p_wpos /\ stdin_buffer' = b
  BY DEF Take
<1> HIDE DEF got, b
<1>4. \A i \in 1..got : new[i] = Cell(b, p_rpos + i - 1) BY DEF Cell
<1>5. new \in Seq(Nat) /\ Len(new) = got
  <2>1. \A i \in 1..got : ((p_rpos + i - 1) % STDIN_BUFSIZE) \in 0..STDIN_BUFSIZE - 1
    <3> TAKE i \in 1..got
    <3>1. p_rpos + i - 1 \in Nat BY <1>1, <1>2
    <3> QED BY <3>1, <1>1, DivMod
  <2>2. \A i \in 1..got : new[i] \in Nat BY <1>1, <2>1
  <2>3. new \in [1..got -> Nat] BY <2>2
  <2> QED BY <1>2, <2>3
<1> HIDE DEF new
<1>6. /\ DOMAIN given = 1..Len(given) /\ Len(given) \in Nat
      /\ DOMAIN given' = 1..Len(given) + got
      /\ \A i \in 1..Len(given) + got :
           given'[i] = IF i <= Len(given) THEN given[i] ELSE new[i - Len(given)]
  <2>1. /\ given \o new \in Seq(Nat) /\ Len(given \o new) = Len(given) + Len(new)
        /\ \A i \in 1..Len(given) + Len(new) :
             (given \o new)[i] = IF i <= Len(given) THEN given[i] ELSE new[i - Len(given)]
    BY Zenon, <1>1, <1>5, ConcatProperties
  <2>2. DOMAIN given = 1..Len(given) /\ Len(given) \in Nat BY <1>1
  <2>3. DOMAIN (given \o new) = 1..Len(given \o new) BY <2>1
  <2> QED BY <2>1, <2>2, <2>3, <1>3, <1>5
<1>7. CASE \E j \in DOMAIN given : given[j] = c
  <2>1. PICK j \in 1..Len(given) : given[j] = c BY <1>6, <1>7
  <2>2. j \in 1..Len(given) + got /\ j <= Len(given) BY <1>2, <1>6
  <2>3. j \in DOMAIN given' /\ given'[j] = c BY <2>1, <2>2, <1>6
  <2>4. Has(stdin_buffer', p_rpos', p_wpos', given', c) BY <2>3 DEF Has
  <2> QED BY <2>4, HeldHas
<1>8. CASE \E i \in p_rpos..p_wpos - 1 : Cell(b, i) = c
  <2>1. PICK i \in p_rpos..p_wpos - 1 : Cell(b, i) = c BY <1>8
  <2>2. CASE i < p_rpos + got
    <3> DEFINE k == i - p_rpos + 1
    <3>1. k \in 1..got /\ p_rpos + k - 1 = i BY <2>2, <1>1, <1>2
    <3>2. new[k] = c
      <4>1. new[k] = Cell(b, p_rpos + k - 1) BY <3>1, <1>4
      <4> QED BY <4>1, <3>1, <2>1
    <3> HIDE DEF k
    <3> DEFINE j == Len(given) + k
    <3>3. j \in 1..Len(given) + got /\ ~(j <= Len(given)) /\ j - Len(given) = k
      BY <3>1, <1>2, <1>6
    <3> HIDE DEF j
    <3>4. j \in DOMAIN given' /\ given'[j] = c BY <3>2, <3>3, <1>6
    <3>5. Has(stdin_buffer', p_rpos', p_wpos', given', c) BY <3>4 DEF Has
    <3> QED BY <3>5, HeldHas
  <2>3. CASE ~(i < p_rpos + got)
    <3>1. i \in p_rpos'..p_wpos' - 1 /\ Cell(stdin_buffer', i) = c
      BY <2>1, <2>3, <1>1, <1>2, <1>3
    <3>2. Has(stdin_buffer', p_rpos', p_wpos', given', c) BY <3>1 DEF Has
    <3> QED BY <3>2, HeldHas
  <2> QED BY <2>2, <2>3
<1>9. Has(b, p_rpos, p_wpos, given, c) BY HeldHas DEF b
<1> QED BY <1>7, <1>8, <1>9 DEF Has

\* A key leaves all cells but its own, which is the one of position p_rpos in a full
\* buffer and of no position that waits in any other.
LEMMA KeyLosesNext ==
  ASSUME KeysIInv, dev_stdin_write
  PROVE  LosesNext
<1>1. /\ p_rpos \in Nat /\ p_wpos \in Nat /\ typed \in Nat /\ typed + 1 \in Nat
      /\ stdin_buffer \in [0..STDIN_BUFSIZE - 1 -> Nat]
      /\ STDIN_BUFSIZE \in Nat \ {0} /\ p_wpos - p_rpos \in 0..STDIN_BUFSIZE
  BY StdinAssumption DEF KeysIInv, Unread
<1>2. /\ p_rpos' = p_rpos /\ given' = given /\ typed' = typed + 1
      /\ stdin_buffer' = Store(stdin_buffer, p_wpos, typed + 1)
      /\ p_wpos' = IF p_wpos - p_rpos < STDIN_BUFSIZE THEN p_wpos + 1 ELSE p_wpos
  BY DEF dev_stdin_write, Store
<1>3. /\ Cell(stdin_buffer', p_wpos) = typed + 1
      /\ \A i \in Nat : Near(i, p_wpos) => Cell(stdin_buffer', i) = Cell(stdin_buffer, i)
  <2>1. /\ stdin_buffer \in [0..STDIN_BUFSIZE - 1 -> Nat]
        /\ p_wpos \in Nat /\ typed + 1 \in Nat
    BY <1>1
  <2>2. Cell(Store(stdin_buffer, p_wpos, typed + 1), p_wpos) = typed + 1
    BY ONLY <2>1, Stored
  <2>3. \A i \in Nat : Near(i, p_wpos) => Cell(Store(stdin_buffer, p_wpos, typed + 1), i)
                                        = Cell(stdin_buffer, i)
    BY ONLY <2>1, Stored
  <2> QED BY <2>2, <2>3, <1>2
<1>4. CASE p_wpos - p_rpos < STDIN_BUFSIZE
  <2>1. p_wpos' = p_wpos + 1 /\ p_wpos \in p_rpos'..p_wpos' - 1 BY <1>1, <1>2, <1>4
  <2>2. Has(stdin_buffer', p_rpos', p_wpos', given', typed') BY <1>2, <1>3, <2>1 DEF Has
  <2>3. ASSUME NEW c, Held(c) PROVE Held(c)'
    <3>1. CASE \E j \in DOMAIN given : given[j] = c
      <4>1. Has(stdin_buffer', p_rpos', p_wpos', given', c) BY <3>1, <1>2 DEF Has
      <4> QED BY <4>1, HeldHas
    <3>2. CASE \E i \in p_rpos..p_wpos - 1 : Cell(stdin_buffer, i) = c
      <4>1. PICK i \in p_rpos..p_wpos - 1 : Cell(stdin_buffer, i) = c BY <3>2
      <4>2. i \in Nat /\ Near(i, p_wpos) /\ i \in p_rpos'..p_wpos' - 1
        BY <1>1, <1>2, <1>4, <2>1 DEF Near
      <4>3. Cell(stdin_buffer', i) = c BY <4>1, <4>2, <1>3
      <4>4. Has(stdin_buffer', p_rpos', p_wpos', given', c) BY <4>2, <4>3 DEF Has
      <4> QED BY <4>4, HeldHas
    <3>3. Has(stdin_buffer, p_rpos, p_wpos, given, c) BY <2>3, HeldHas
    <3> QED BY <3>1, <3>2, <3>3 DEF Has
  <2>4. Held(typed)' BY <2>2 DEF Held, Has, Cell
  <2> QED BY <2>3, <2>4 DEF LosesNext
<1>5. CASE ~(p_wpos - p_rpos < STDIN_BUFSIZE)
  <2>0. p_wpos' = p_wpos /\ p_wpos = p_rpos + STDIN_BUFSIZE BY <1>1, <1>2, <1>5
  <2>1. (p_wpos % STDIN_BUFSIZE) = (p_rpos % STDIN_BUFSIZE) BY Zenon, <2>0, <1>1, SameCell
  <2>2. /\ p_rpos \in p_rpos'..p_wpos' - 1 /\ Cell(stdin_buffer', p_rpos) = typed + 1
    BY <1>1, <1>2, <1>3, <2>0, <2>1 DEF Cell
  <2>3. Has(stdin_buffer', p_rpos', p_wpos', given', typed') BY <1>2, <2>2 DEF Has
  <2>4. ASSUME NEW c, Held(c), ~Held(c)' PROVE c = Cell(stdin_buffer, p_rpos)
    <3>1. ~(\E j \in DOMAIN given : given[j] = c)
      <4>1. (\E j \in DOMAIN given : given[j] = c) => Has(stdin_buffer', p_rpos', p_wpos', given', c)
        BY <1>2 DEF Has
      <4> QED BY <4>1, <2>4, HeldHas
    <3>2. Has(stdin_buffer, p_rpos, p_wpos, given, c) BY <2>4, HeldHas
    <3>3. PICK i \in p_rpos..p_wpos - 1 : Cell(stdin_buffer, i) = c BY <3>1, <3>2 DEF Has
    <3>4. CASE i = p_rpos BY <3>3, <3>4
    <3>5. CASE i # p_rpos
      <4>1. i \in Nat /\ Near(i, p_wpos) /\ i \in p_rpos'..p_wpos' - 1
        BY <1>1, <1>2, <2>0, <3>5 DEF Near
      <4>2. Cell(stdin_buffer', i) = c BY <4>1, <3>3, <1>3
      <4>3. Has(stdin_buffer', p_rpos', p_wpos', given', c) BY <4>1, <4>2 DEF Has
      <4> QED BY <4>3, <2>4, HeldHas
    <3> QED BY <3>4, <3>5
  <2>5. Held(typed)' BY <2>3 DEF Held, Has, Cell
  <2>6. p_wpos - p_rpos = STDIN_BUFSIZE BY <1>1, <2>0
  <2> QED BY <2>4, <2>5, <2>6, <1>2 DEF LosesNext, Cell
<1> QED BY <1>4, <1>5

LEMMA StepsLoseNext ==
  ASSUME StdinIInv, KeysIInv, [StdinNext]_stdinVars
  PROVE  [LosesNext]_stdinVars
<1>1. CASE dev_stdin_write BY <1>1, KeyLosesNext
<1>2. ASSUME NEW r \in Reader, NEW n \in Nat, Take(r, n) PROVE LosesNext
  <2>1. typed' = typed BY <1>2 DEF Take
  <2>2. \A c \in 1..typed : Held(c) => Held(c)' BY <1>2, TakeLosesNone
  <2> QED BY <2>1, <2>2 DEF LosesNext
<1>3. ASSUME NEW r \in Reader, ReadWake(r) PROVE LosesNext
  <2>1. reader[r].left \in Nat BY DEF StdinIInv
  <2> QED BY <1>2, <1>3, <2>1 DEF ReadWake
<1>4. ASSUME NEW r \in Reader, NEW n \in 1..MaxRead, ReadBegin(r, n) PROVE LosesNext
  BY <1>2, <1>4 DEF ReadBegin
<1>5. ASSUME NEW r \in Reader, Kill(r) \/ ReadInterrupted(r) PROVE LosesNext
  <2>1. /\ p_rpos' = p_rpos /\ p_wpos' = p_wpos /\ given' = given /\ typed' = typed
        /\ stdin_buffer' = stdin_buffer
    BY <1>5 DEF Kill, ReadInterrupted
  <2>2. \A c \in 1..typed : Held(c) => Held(c)' BY <2>1 DEF Held
  <2> QED BY <2>1, <2>2 DEF LosesNext
<1> QED BY <1>1, <1>3, <1>4, <1>5 DEF StdinNext

\* No character of the keyboard is given twice or made up, and a step loses a character
\* only when a key is typed into a full buffer, and then exactly the one to be read next
\* (dev_stdin_write stores before it tests for room), for any size of the buffer.
THEOREM KeysAlwaysKept == StdinSpec => KeysKept
<1>1. KeysIInv => KeysOnce
  <2> SUFFICES ASSUME KeysIInv PROVE KeysOnce OBVIOUS
  <2>1. /\ p_wpos - p_rpos \in 0..STDIN_BUFSIZE
        /\ \A i, j \in DOMAIN given : i # j => given[i] # given[j]
        /\ \A i \in p_rpos..p_wpos - 1 :
             /\ Cell(stdin_buffer, i) \in 1..typed
             /\ \A j \in DOMAIN given : Cell(stdin_buffer, i) # given[j]
             /\ \A j \in p_rpos..p_wpos - 1 :
                  p_rpos < i /\ i < j => Cell(stdin_buffer, i) < Cell(stdin_buffer, j)
    BY DEF KeysIInv, Unread
  <2> QED BY <2>1 DEF KeysOnce, Cell
<1>2. StdinIInv /\ KeysIInv /\ [StdinNext]_stdinVars => [LosesNext]_stdinVars BY StepsLoseNext
<1>3. StdinIInv /\ KeysIInv /\ [StdinNext]_stdinVars => KeysIInv' BY KeysNext
<1> QED BY StdinInitIInv, StdinNextIInv, KeysInit, <1>1, <1>2, <1>3, PTL DEF StdinSpec, KeysKept
=============================================================================
