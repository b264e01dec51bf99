---------------------------- MODULE KernelProofs ----------------------------
(***************************************************************************)
(* Proofs about two small parts of the kernel, each with its inductive      *)
(* invariant.  Kernel semaphores (KSem): units are conserved, sleepers and  *)
(* the wait queue agree, nobody overtakes a sleeper, for any finite set of  *)
(* processes and any initial value.  Process identifiers (Pid): unique, and *)
(* the window of get_pid is free, for any bound on their number.            *)
(***************************************************************************)
EXTENDS KSem, Pid, FiniteSetTheorems, SequenceTheorems, TLAPS

\* The inductive invariant is the conjunction of the invariants the run checks.
SemIInv == TypeOK /\ UnitsConserved /\ SleepersQueued

\* A process that starts to hold the semaphore adds one to the number of holders.
LEMMA HolderAdded ==
  ASSUME TypeOK, NEW p \in Proc, p \notin Holders, Holders' = Holders \cup {p}
  PROVE  Cardinality(Holders') = Cardinality(Holders) + 1 /\ Cardinality(Holders) \in Nat
  <1>1. Holders \subseteq Proc
    BY DEF Holders
  <1>2. IsFiniteSet(Holders)
    BY <1>1, FS_Subset, KSemAssumption
  <1> QED
    BY Zenon, <1>2, FS_AddElement, FS_CardinalityType

\* A process that stops holding the semaphore takes one from it.
LEMMA HolderRemoved ==
  ASSUME TypeOK, NEW p \in Proc, p \in Holders, Holders' = Holders \ {p}
  PROVE  Cardinality(Holders') = Cardinality(Holders) - 1 /\ Cardinality(Holders) \in Nat
  <1>1. Holders \subseteq Proc
    BY DEF Holders
  <1>2. IsFiniteSet(Holders)
    BY <1>1, FS_Subset, KSemAssumption
  <1> QED
    BY Zenon, <1>2, FS_RemoveElement, FS_CardinalityType

\* Handing the semaphore from one process to another leaves their number alone.
LEMMA HolderReplaced ==
  ASSUME TypeOK, NEW p \in Proc, NEW q \in Proc, p \in Holders, q \notin Holders,
         Holders' = (Holders \ {p}) \cup {q}
  PROVE  Cardinality(Holders') = Cardinality(Holders)
  <1>1. Holders \subseteq Proc
    BY DEF Holders
  <1>2. IsFiniteSet(Holders)
    BY <1>1, FS_Subset, KSemAssumption
  <1>3. /\ IsFiniteSet(Holders \ {p})
        /\ Cardinality(Holders \ {p}) = Cardinality(Holders) - 1
    BY <1>2, FS_RemoveElement
  <1>4. Cardinality(Holders') = Cardinality(Holders \ {p}) + 1
    BY <1>3, FS_AddElement
  <1> QED
    BY <1>2, <1>3, <1>4, FS_CardinalityType

\* sem_init establishes the invariant.
LEMMA SemInit == Init => SemIInv
  <1> SUFFICES ASSUME Init PROVE SemIInv
    OBVIOUS
  <1>1. TypeOK
    BY KSemAssumption DEF Init, TypeOK
  <1>2. UnitsConserved
    <2>1. Holders = {}
      BY DEF Init, Holders
    <2> QED
      BY <2>1, FS_EmptySet, KSemAssumption DEF Init, UnitsConserved
  <1>3. SleepersQueued
    BY DEF Init, SleepersQueued
  <1> QED
    BY <1>1, <1>2, <1>3 DEF SemIInv

\* A free unit is taken, by down() or by try_down().
LEMMA TakePreserves ==
  ASSUME SemIInv, NEW p \in Proc, TryDown(p)
  PROVE  SemIInv'
  <1> USE DEF SemIInv, TryDown
  <1>1. TypeOK'
    BY DEF TypeOK
  <1>2. UnitsConserved'
    <2>1. p \notin Holders /\ Holders' = Holders \cup {p}
      BY DEF Holders, TypeOK
    <2>2. Cardinality(Holders') = Cardinality(Holders) + 1 /\ Cardinality(Holders) \in Nat
      BY <2>1, HolderAdded
    <2> QED
      BY <2>2, KSemAssumption DEF UnitsConserved, TypeOK
  <1>3. SleepersQueued'
    BY DEF SleepersQueued, TypeOK
  <1> QED
    BY <1>1, <1>2, <1>3

\* down() finds no unit and goes to sleep.
LEMMA SleepPreserves ==
  ASSUME SemIInv, NEW p \in Proc, Down(p), ~(value > 0)
  PROVE  SemIInv'
  <1> USE DEF SemIInv, Down
  <1>1. TypeOK'
    BY DEF TypeOK
  <1>2. UnitsConserved'
    <2>1. Holders' = Holders
      BY DEF Holders, TypeOK
    <2> QED
      BY <2>1 DEF UnitsConserved
  <1>3. SleepersQueued'
    <2>1. /\ Len(wait_queue') = Len(wait_queue) + 1
          /\ \A i \in 1..Len(wait_queue) : wait_queue'[i] = wait_queue[i]
          /\ wait_queue'[Len(wait_queue) + 1] = p
          /\ Len(wait_queue) \in Nat
      BY DEF TypeOK
    <2>2. \A i \in 1..Len(wait_queue) : wait_queue[i] # p
      BY DEF SleepersQueued
    <2>3. (\A i, j \in 1..Len(wait_queue) : wait_queue[i] = wait_queue[j] => i = j)'
      BY <2>1, <2>2 DEF SleepersQueued
    <2>4. (\A q \in Proc : pc[q] = "asleep" <=> \E i \in 1..Len(wait_queue) : wait_queue[i] = q)'
      <3> SUFFICES ASSUME NEW q \in Proc
                   PROVE  pc'[q] = "asleep" <=> \E i \in 1..Len(wait_queue') : wait_queue'[i] = q
        OBVIOUS
      <3>1. CASE q = p
        BY <3>1, <2>1 DEF TypeOK
      <3>2. CASE q # p
        <4>1. pc'[q] = pc[q]
          BY <3>2 DEF TypeOK
        <4>2. (\E i \in 1..Len(wait_queue') : wait_queue'[i] = q)
                <=> (\E i \in 1..Len(wait_queue) : wait_queue[i] = q)
          BY <3>2, <2>1
        <4> QED
          BY <4>1, <4>2 DEF SleepersQueued
      <3> QED
        BY <3>1, <3>2
    <2>5. value' = 0
      BY DEF TypeOK
    <2> QED
      BY <2>3, <2>4, <2>5 DEF SleepersQueued
  <1> QED
    BY <1>1, <1>2, <1>3

\* The woken process returns from __down.
LEMMA ReturnPreserves ==
  ASSUME SemIInv, NEW p \in Proc, DownReturn(p)
  PROVE  SemIInv'
  <1> USE DEF SemIInv, DownReturn
  <1>1. TypeOK'
    BY DEF TypeOK
  <1>2. Holders' = Holders
    BY DEF Holders, TypeOK
  <1>3. UnitsConserved'
    BY <1>2 DEF UnitsConserved
  <1>4. SleepersQueued'
    BY DEF SleepersQueued, TypeOK
  <1> QED
    BY <1>1, <1>3, <1>4

\* up() with nobody waiting frees the unit.
LEMMA FreePreserves ==
  ASSUME SemIInv, NEW p \in Proc, Up(p), wait_queue = << >>
  PROVE  SemIInv'
  <1> USE DEF SemIInv, Up
  <1>1. TypeOK'
    BY DEF TypeOK
  <1>2. UnitsConserved'
    <2>1. p \in Holders /\ Holders' = Holders \ {p}
      BY DEF Holders, TypeOK
    <2>2. Cardinality(Holders') = Cardinality(Holders) - 1 /\ Cardinality(Holders) \in Nat
      BY Zenon, <2>1, HolderRemoved
    <2> QED
      BY <2>2, KSemAssumption DEF UnitsConserved, TypeOK
  <1>3. SleepersQueued'
    <2>1. /\ wait_queue' = << >>
          /\ \A q \in Proc : pc'[q] = "asleep" <=> pc[q] = "asleep"
      BY DEF TypeOK
    <2> QED
      BY <2>1 DEF SleepersQueued
  <1> QED
    BY <1>1, <1>2, <1>3

\* up() with somebody waiting hands the unit to the first waiter.
LEMMA HandOverPreserves ==
  ASSUME SemIInv, NEW p \in Proc, Up(p), wait_queue # << >>
  PROVE  SemIInv'
  <1> USE DEF SemIInv, Up
  <1>1. PICK h \in Proc : h = Head(wait_queue)
    BY DEF TypeOK
  <1>2. /\ Len(wait_queue) \in Nat \ {0}
        /\ wait_queue' = Tail(wait_queue)
        /\ Len(wait_queue') = Len(wait_queue) - 1
        /\ \A i \in 1..Len(wait_queue') : wait_queue'[i] = wait_queue[i + 1]
        /\ wait_queue[1] = h
    BY <1>1 DEF TypeOK
  <1>3. pc[h] = "asleep" /\ h # p
    BY <1>2 DEF SleepersQueued
  <1>4. pc' = [pc EXCEPT ![p] = "out", ![h] = "woken"]
    BY <1>1
  <1>5. TypeOK'
    <2>1. wait_queue' \in Seq(Proc)
      BY DEF TypeOK
    <2> QED
      BY <2>1, <1>4 DEF TypeOK
  <1>6. UnitsConserved'
    <2>1. p \in Holders /\ h \notin Holders /\ Holders' = (Holders \ {p}) \cup {h}
      BY <1>3, <1>4 DEF Holders, TypeOK
    <2> QED
      BY Zenon, <2>1, HolderReplaced DEF UnitsConserved
  <1>7. SleepersQueued'
    <2>1. (\A i, j \in 1..Len(wait_queue) : wait_queue[i] = wait_queue[j] => i = j)'
      BY <1>2 DEF SleepersQueued
    <2>2. (\A q \in Proc : pc[q] = "asleep" <=> \E i \in 1..Len(wait_queue) : wait_queue[i] = q)'
      <3> SUFFICES ASSUME NEW q \in Proc
                   PROVE  pc'[q] = "asleep" <=> \E i \in 1..Len(wait_queue') : wait_queue'[i] = q
        OBVIOUS
      <3>1. (\E i \in 1..Len(wait_queue') : wait_queue'[i] = q)
              <=> (\E i \in 2..Len(wait_queue) : wait_queue[i] = q)
        <4>1. ASSUME NEW i \in 1..Len(wait_queue'), wait_queue'[i] = q
              PROVE  \E j \in 2..Len(wait_queue) : wait_queue[j] = q
          BY <1>2, <4>1
        <4>2. ASSUME NEW j \in 2..Len(wait_queue), wait_queue[j] = q
              PROVE  \E i \in 1..Len(wait_queue') : wait_queue'[i] = q
          <5>1. j - 1 \in 1..Len(wait_queue') /\ (j - 1) + 1 = j
            BY <1>2
          <5> QED
            BY Zenon, <5>1, <4>2, <1>2
        <4> QED
          BY <4>1, <4>2
      <3>2. CASE q = h
        <4>1. ~ \E i \in 2..Len(wait_queue) : wait_queue[i] = h
          BY <1>2 DEF SleepersQueued
        <4> QED
          BY <3>1, <3>2, <4>1, <1>4 DEF TypeOK
      <3>3. CASE q # h
        <4>1. (\E i \in 2..Len(wait_queue) : wait_queue[i] = q)
                <=> (\E i \in 1..Len(wait_queue) : wait_queue[i] = q)
          BY <3>3, <1>2
        <4>2. pc'[q] = "asleep" <=> pc[q] = "asleep"
          BY <3>3, <1>4 DEF TypeOK
        <4> QED
          BY <3>1, <4>1, <4>2 DEF SleepersQueued
      <3> QED
        BY <3>2, <3>3
    <2>3. value' = 0
      BY DEF SleepersQueued
    <2> QED
      BY <2>1, <2>2, <2>3 DEF SleepersQueued
  <1> QED
    BY <1>5, <1>6, <1>7

\* Every step of the semaphore preserves the invariant.
LEMMA SemNext == SemIInv /\ [Next]_vars => SemIInv'
  <1> SUFFICES ASSUME SemIInv, [Next]_vars PROVE SemIInv'
    OBVIOUS
  <1>1. ASSUME NEW p \in Proc, Down(p) PROVE SemIInv'
    <2>1. CASE value > 0
      <3>1. TryDown(p)
        BY <1>1, <2>1 DEF Down, TryDown
      <3> QED
        BY <3>1, TakePreserves
    <2>2. CASE ~(value > 0)
      BY <1>1, <2>2, SleepPreserves
    <2> QED
      BY <2>1, <2>2
  <1>2. ASSUME NEW p \in Proc, TryDown(p) PROVE SemIInv'
    BY <1>2, TakePreserves
  <1>3. ASSUME NEW p \in Proc, DownReturn(p) PROVE SemIInv'
    BY <1>3, ReturnPreserves
  <1>4. ASSUME NEW p \in Proc, Up(p) PROVE SemIInv'
    <2>1. CASE wait_queue = << >>
      BY <1>4, <2>1, FreePreserves
    <2>2. CASE wait_queue # << >>
      BY <1>4, <2>2, HandOverPreserves
    <2> QED
      BY <2>1, <2>2
  <1>5. CASE UNCHANGED vars
    <2>1. Holders' = Holders
      BY <1>5 DEF Holders, vars
    <2> QED
      BY <1>5, <2>1 DEF vars, SemIInv, TypeOK, UnitsConserved, SleepersQueued
  <1> QED
    BY <1>1, <1>2, <1>3, <1>4, <1>5 DEF Next

\* The invariant holds in every reachable state.
THEOREM SemInductive == Spec => []SemIInv
  BY SemInit, SemNext, PTL DEF Spec

\* No unit of a kernel semaphore is lost or held twice, hand-over by up() included.
THEOREM UnitsAreConserved == Spec => []UnitsConserved
  <1>1. SemIInv => UnitsConserved
    BY DEF SemIInv
  <1> QED
    BY <1>1, SemInductive, PTL

\* The wait queue is exactly the sleeping processes, and none sleeps beside a free unit.
THEOREM SleepersAreQueued == Spec => []SleepersQueued
  <1>1. SemIInv => SleepersQueued
    BY DEF SemIInv
  <1> QED
    BY <1>1, SemInductive, PTL

\* A process that gets the semaphore while others sleep was the first sleeper.
THEOREM NoneOvertakes == Spec => NoOvertaking
  <1> DEFINE A == \A p \in Proc : p \notin Holders /\ p \in Holders' /\ wait_queue # << >>
                    => p = Head(wait_queue)
  <1>1. SemIInv /\ [Next]_vars => [A]_vars
    <2> SUFFICES ASSUME SemIInv, Next, NEW p \in Proc, p \notin Holders, p \in Holders',
                        wait_queue # << >>
                 PROVE  p = Head(wait_queue)
      OBVIOUS
    <2>1. PICK q \in Proc : Down(q) \/ TryDown(q) \/ DownReturn(q) \/ Up(q)
      BY DEF Next
    <2>2. value = 0
      BY DEF SemIInv, SleepersQueued
    <2>3. CASE Down(q) \/ TryDown(q)
      BY <2>2, <2>3 DEF Down, TryDown, Holders, SemIInv, TypeOK
    <2>4. CASE DownReturn(q)
      BY <2>4 DEF DownReturn, Holders, SemIInv, TypeOK
    <2>5. CASE Up(q)
      BY <2>5 DEF Up, Holders, SemIInv, TypeOK
    <2> QED
      BY <2>1, <2>3, <2>4, <2>5
  <1> QED
    BY <1>1, SemInductive, PTL DEF Spec, NoOvertaking

-----------------------------------------------------------------------------
\* Processes and forks in flight together: the limit check admits a fork only below
\* MAX_PROCESS processes, and each process is in at most one fork.
ForksBounded ==
  /\ Len(proc_list) + forking <= 2 * (MAX_PROCESS - lcpu_count - 1)
  /\ pid_le # 0 => forking > 0

PidIInv == PidTypeOK /\ UniquePids /\ WindowFree /\ ForksBounded

\* What list_add does to the list.
LEMMA AddedFirst ==
  ASSUME NEW S, NEW s \in Seq(S), NEW x \in S
  PROVE  /\ <<x>> \o s \in Seq(S)
         /\ Len(<<x>> \o s) = Len(s) + 1
         /\ (<<x>> \o s)[1] = x
         /\ \A i \in 2..Len(s) + 1 : (<<x>> \o s)[i] = s[i - 1]
  OBVIOUS

\* What joining two lists gives.
LEMMA Joined ==
  ASSUME NEW S, NEW a \in Seq(S), NEW b \in Seq(S)
  PROVE  /\ a \o b \in Seq(S)
         /\ Len(a \o b) = Len(a) + Len(b)
         /\ \A j \in 1..Len(a) : (a \o b)[j] = a[j]
         /\ \A j \in Len(a) + 1..Len(a) + Len(b) : (a \o b)[j] = b[j - Len(a)]
  OBVIOUS

\* What list_del does to the list: the other elements keep their order.
LEMMA Deleted ==
  ASSUME NEW S, NEW s \in Seq(S), NEW i \in 1..Len(s)
  PROVE  LET t == SubSeq(s, 1, i - 1) \o SubSeq(s, i + 1, Len(s)) IN
         /\ t \in Seq(S)
         /\ Len(t) = Len(s) - 1
         /\ \A j \in 1..Len(s) - 1 : t[j] = IF j < i THEN s[j] ELSE s[j + 1]
  <1> DEFINE a == SubSeq(s, 1, i - 1)
             b == SubSeq(s, i + 1, Len(s))
  <1>1. /\ a \in Seq(S) /\ Len(a) = i - 1
        /\ \A j \in 1..i - 1 : a[j] = s[j]
    OBVIOUS
  <1>2. /\ b \in Seq(S) /\ Len(b) = Len(s) - i
        /\ \A j \in 1..Len(s) - i : b[j] = s[j + i]
    OBVIOUS
  <1> HIDE DEF a, b
  <1>3. /\ a \o b \in Seq(S)
        /\ Len(a \o b) = Len(a) + Len(b)
        /\ \A j \in 1..Len(a) : (a \o b)[j] = a[j]
        /\ \A j \in Len(a) + 1..Len(a) + Len(b) : (a \o b)[j] = b[j - Len(a)]
    BY Zenon, <1>1, <1>2, Joined
  <1>4. Len(s) \in Nat /\ Len(a \o b) = Len(s) - 1
    BY <1>1, <1>2, <1>3
  <1>5. ASSUME NEW j \in 1..Len(s) - 1
        PROVE  (j < i => (a \o b)[j] = s[j]) /\ (~(j < i) => (a \o b)[j] = s[j + 1])
    <2>1. CASE j < i
      <3>1. j \in 1..Len(a) /\ j \in 1..i - 1
        BY <2>1, <1>1
      <3> QED
        BY <2>1, <3>1, <1>1, <1>3
    <2>2. CASE ~(j < i)
      <3>1. /\ j \in Len(a) + 1..Len(a) + Len(b)
            /\ j - Len(a) \in 1..Len(s) - i /\ (j - Len(a)) + i = j + 1
        BY <2>2, <1>1, <1>2
      <3> QED
        BY Zenon, <2>2, <3>1, <1>2, <1>3
    <2> QED
      BY Zenon, <2>1, <2>2
  <1> QED
    BY Zenon, <1>3, <1>4, <1>5 DEF a, b

\* The state after proc_init satisfies the invariant.
LEMMA PidInitIInv == PidInit => PidIInv
  <1> SUFFICES ASSUME PidInit PROVE PidIInv
    OBVIOUS
  <1>1. /\ MAX_PID \in Nat /\ lcpu_count \in 1..MAX_PID - 1
        /\ 1 <= 2 * (MAX_PROCESS - lcpu_count - 1)
    BY PidAssumption
  <1>2. Len(proc_list) = 1 /\ proc_list[1] = lcpu_count /\ proc_list \in Seq(1..MAX_PID - 1)
    BY <1>1 DEF PidInit
  <1> QED
    BY <1>1, <1>2 DEF PidInit, PidIInv, PidTypeOK, UniquePids, WindowFree, ForksBounded

\* Adding a process whose pid is the new last_pid and is not in use.
LEMMA AddPreserves ==
  ASSUME PidIInv, NEW pid \in 1..MAX_PID - 1, SetLinks(pid), last_pid' = pid, next_safe' = next_safe,
         \A i \in 1..Len(proc_list) :
           proc_list[i] # pid /\ (proc_list[i] > pid => next_safe <= proc_list[i]),
         forking > 0
  PROVE  PidIInv'
  <1>1. /\ proc_list' \in Seq(1..MAX_PID - 1)
        /\ Len(proc_list') = Len(proc_list) + 1
        /\ proc_list'[1] = pid
        /\ \A i \in 2..Len(proc_list) + 1 : proc_list'[i] = proc_list[i - 1]
    BY AddedFirst DEF SetLinks, PidIInv, PidTypeOK
  <1>2. Len(proc_list) \in Nat /\ forking \in Nat /\ MAX_PID \in Nat
    BY PidAssumption DEF PidIInv, PidTypeOK
  <1>3. PidTypeOK'
    BY <1>1, <1>2 DEF PidIInv, PidTypeOK, SetLinks
  <1>4. ASSUME NEW i \in 2..Len(proc_list') PROVE proc_list'[i] # pid
    <2>1. i \in 2..Len(proc_list) + 1 /\ i - 1 \in 1..Len(proc_list)
      BY <1>1, <1>2
    <2> QED
      BY <2>1, <1>1
  <1>5. \A i, j \in 2..Len(proc_list') : proc_list'[i] = proc_list'[j] => i = j
    <2> SUFFICES ASSUME NEW i \in 2..Len(proc_list'), NEW j \in 2..Len(proc_list'),
                        proc_list'[i] = proc_list'[j]
                 PROVE  i = j
      OBVIOUS
    <2>1. i - 1 \in 1..Len(proc_list) /\ j - 1 \in 1..Len(proc_list)
      BY <1>1, <1>2
    <2>2. proc_list[i - 1] = proc_list[j - 1]
      BY <1>1, <1>2
    <2>3. i - 1 = j - 1
      BY <2>1, <2>2 DEF PidIInv, UniquePids
    <2> QED
      BY <2>3
  <1>6. UniquePids'
    <2> SUFFICES ASSUME NEW i \in 1..Len(proc_list'), NEW j \in 1..Len(proc_list'),
                        proc_list'[i] = proc_list'[j]
                 PROVE  i = j
      BY DEF UniquePids
    <2>1. i = 1 \/ i \in 2..Len(proc_list')
      OBVIOUS
    <2>2. j = 1 \/ j \in 2..Len(proc_list')
      OBVIOUS
    <2> QED
      BY <2>1, <2>2, <1>1, <1>4, <1>5
  <1>7. WindowFree'
    <2>1. pid_le' = 0
      BY DEF SetLinks
    <2> SUFFICES ASSUME NEW i \in 1..Len(proc_list'), proc_list'[i] > pid
                 PROVE  next_safe <= proc_list'[i]
      BY <2>1 DEF WindowFree
    <2>2. i # 1
      BY <1>1
    <2>3. i - 1 \in 1..Len(proc_list) /\ proc_list'[i] = proc_list[i - 1]
      BY <1>1, <1>2, <2>2
    <2> QED
      BY <2>3
  <1>8. ForksBounded'
    BY <1>1, <1>2, PidAssumption DEF PidIInv, ForksBounded, SetLinks
  <1> QED
    BY <1>3, <1>6, <1>7, <1>8 DEF PidIInv

\* do_fork's limit check.
LEMMA ForkCheckPreserves == PidIInv /\ ForkCheck => PidIInv'
  <1> SUFFICES ASSUME PidIInv, ForkCheck PROVE PidIInv'
    OBVIOUS
  <1>1. Len(proc_list) \in Nat /\ forking \in Nat
    BY DEF PidIInv, PidTypeOK
  <1>2. ForksBounded'
    BY <1>1, PidAssumption DEF ForkCheck, nr_process, ForksBounded
  <1>3. PidTypeOK' /\ UniquePids' /\ WindowFree'
    BY <1>1 DEF ForkCheck, PidIInv, PidTypeOK, UniquePids, WindowFree
  <1> QED
    BY <1>2, <1>3 DEF PidIInv

\* get_pid up to its scan, or to its return.
LEMMA GetPidPreserves == PidIInv /\ GetPid => PidIInv'
  <1> SUFFICES ASSUME PidIInv, GetPid PROVE PidIInv'
    OBVIOUS
  <1>1. /\ Len(proc_list) \in Nat /\ forking \in Nat /\ last_pid \in 1..MAX_PID - 1
        /\ MAX_PID \in Nat /\ lcpu_count \in 1..MAX_PID - 1
    BY PidAssumption DEF PidIInv, PidTypeOK
  <1>2. CASE pid_le' = 1 /\ next_safe' = MAX_PID /\ UNCHANGED <<proc_list, forking>>
             /\ last_pid' \in 1..MAX_PID - 1
    <2>1. PidTypeOK'
      BY <1>1, <1>2 DEF PidIInv, PidTypeOK
    <2>2. UniquePids' /\ WindowFree'
      BY <1>2 DEF PidIInv, UniquePids, WindowFree
    <2>3. ForksBounded'
      BY <1>2, <1>1 DEF PidIInv, ForksBounded, GetPid
    <2> QED
      BY <2>1, <2>2, <2>3 DEF PidIInv
  <1>3. CASE /\ last_pid + 1 < MAX_PID /\ last_pid + 1 < next_safe
             /\ last_pid' = last_pid + 1
             /\ SetLinks(last_pid + 1)
             /\ UNCHANGED next_safe
    <2>1. last_pid + 1 \in 1..MAX_PID - 1
      BY <1>1, <1>3
    <2>2. ASSUME NEW i \in 1..Len(proc_list)
          PROVE  proc_list[i] # last_pid + 1
                 /\ (proc_list[i] > last_pid + 1 => next_safe <= proc_list[i])
      <3>1. proc_list[i] > last_pid => next_safe <= proc_list[i]
        BY DEF GetPid, PidIInv, WindowFree
      <3>2. proc_list[i] \in Nat /\ next_safe \in Nat
        BY <1>1 DEF PidIInv, PidTypeOK
      <3> QED
        BY <3>1, <3>2, <1>1, <1>3
    <2>3. forking > 0
      BY DEF GetPid
    <2> QED
      BY <1>3, <2>1, <2>2, <2>3, AddPreserves
  <1> QED
    BY <1>1, <1>2, <1>3 DEF GetPid

\* One element of the scan.
LEMMA ScanPreserves == PidIInv /\ Scan => PidIInv'
  <1> SUFFICES ASSUME PidIInv, Scan PROVE PidIInv'
    OBVIOUS
  <1>1. /\ Len(proc_list) \in Nat /\ last_pid \in 1..MAX_PID - 1 /\ next_safe \in 1..MAX_PID
        /\ MAX_PID \in Nat /\ MAX_PID > 2 /\ pid_le \in 1..Len(proc_list)
        /\ proc_list[pid_le] \in 1..MAX_PID - 1
    BY PidAssumption DEF PidIInv, PidTypeOK, Scan
  <1>2. UniquePids' /\ ForksBounded'
    BY <1>1 DEF PidIInv, UniquePids, ForksBounded, Scan
  <1>3. \A i \in 1..pid_le - 1 :
          /\ proc_list[i] \in 1..MAX_PID - 1
          /\ proc_list[i] # last_pid
          /\ proc_list[i] > last_pid => next_safe <= proc_list[i]
    BY <1>1 DEF PidIInv, PidTypeOK, WindowFree
  <1>4. CASE /\ proc_list[pid_le] = last_pid /\ last_pid + 1 >= next_safe
             /\ last_pid' = (IF last_pid + 1 >= MAX_PID THEN 1 ELSE last_pid + 1)
             /\ next_safe' = MAX_PID
             /\ pid_le' = 1
             /\ UNCHANGED <<proc_list, forking>>
    <2>1. PidTypeOK'
      BY <1>1, <1>4 DEF PidIInv, PidTypeOK
    <2>2. WindowFree'
      BY <1>4 DEF WindowFree
    <2> QED
      BY <1>2, <2>1, <2>2 DEF PidIInv
  <1>5. CASE /\ proc_list[pid_le] = last_pid /\ last_pid + 1 < next_safe
             /\ last_pid' = last_pid + 1
             /\ pid_le' = pid_le + 1
             /\ UNCHANGED <<proc_list, forking, next_safe>>
    <2>1. PidTypeOK'
      BY <1>1, <1>5 DEF PidIInv, PidTypeOK
    <2>2. ASSUME NEW i \in 1..pid_le
          PROVE  /\ proc_list[i] # last_pid + 1
                 /\ proc_list[i] > last_pid + 1 => next_safe <= proc_list[i]
      <3>1. CASE i = pid_le
        BY <3>1, <1>1, <1>5
      <3>2. CASE i \in 1..pid_le - 1
        BY <3>2, <1>1, <1>3, <1>5
      <3> QED
        BY <3>1, <3>2, <1>1
    <2>3. WindowFree'
      BY <1>1, <1>5, <2>2 DEF WindowFree
    <2> QED
      BY <1>2, <2>1, <2>3 DEF PidIInv
  <1>6. CASE /\ proc_list[pid_le] > last_pid /\ next_safe > proc_list[pid_le]
             /\ next_safe' = proc_list[pid_le]
             /\ pid_le' = pid_le + 1
             /\ UNCHANGED <<proc_list, forking, last_pid>>
    <2>1. PidTypeOK'
      BY <1>1, <1>6 DEF PidIInv, PidTypeOK
    <2>2. ASSUME NEW i \in 1..pid_le
          PROVE  /\ proc_list[i] # last_pid
                 /\ proc_list[i] > last_pid => proc_list[pid_le] <= proc_list[i]
      <3>1. CASE i = pid_le
        BY <3>1, <1>1, <1>6
      <3>2. CASE i \in 1..pid_le - 1
        BY <3>2, <1>1, <1>3, <1>6
      <3> QED
        BY <3>1, <3>2, <1>1
    <2>3. WindowFree'
      BY <1>1, <1>6, <2>2 DEF WindowFree
    <2> QED
      BY <1>2, <2>1, <2>3 DEF PidIInv
  <1>7. CASE /\ proc_list[pid_le] < last_pid \/ (proc_list[pid_le] > last_pid /\ next_safe <= proc_list[pid_le])
             /\ pid_le' = pid_le + 1
             /\ UNCHANGED <<proc_list, forking, last_pid, next_safe>>
    <2>1. PidTypeOK'
      BY <1>1, <1>7 DEF PidIInv, PidTypeOK
    <2>2. ASSUME NEW i \in 1..pid_le
          PROVE  /\ proc_list[i] # last_pid
                 /\ proc_list[i] > last_pid => next_safe <= proc_list[i]
      <3>1. CASE i = pid_le
        BY <3>1, <1>1, <1>7
      <3>2. CASE i \in 1..pid_le - 1
        BY <3>2, <1>3
      <3> QED
        BY <3>1, <3>2, <1>1
    <2>3. WindowFree'
      BY <1>1, <1>7, <2>2 DEF WindowFree
    <2> QED
      BY <1>2, <2>1, <2>3 DEF PidIInv
  <1> QED
    BY <1>4, <1>5, <1>6, <1>7 DEF Scan

\* The scan ends: every element has been compared with last_pid.
LEMMA ScanEndPreserves == PidIInv /\ ScanEnd => PidIInv'
  <1> SUFFICES ASSUME PidIInv, ScanEnd PROVE PidIInv'
    OBVIOUS
  <1>1. Len(proc_list) \in Nat /\ pid_le = Len(proc_list) + 1 /\ pid_le # 0
    BY DEF PidIInv, PidTypeOK, ScanEnd
  <1>2. \A i \in 1..Len(proc_list) :
          proc_list[i] # last_pid /\ (proc_list[i] > last_pid => next_safe <= proc_list[i])
    BY <1>1 DEF PidIInv, WindowFree
  <1>3. forking > 0 /\ last_pid \in 1..MAX_PID - 1
    BY <1>1 DEF PidIInv, ForksBounded, PidTypeOK
  <1>4. last_pid' = last_pid /\ next_safe' = next_safe /\ SetLinks(last_pid)
    BY DEF ScanEnd
  <1> QED
    BY <1>2, <1>3, <1>4, AddPreserves

\* do_wait reaps a process.
LEMMA RemovePreserves ==
  ASSUME PidIInv, NEW i \in DOMAIN proc_list, RemoveLinks(i)
  PROVE  PidIInv'
  <1>1. Len(proc_list) \in Nat /\ forking \in Nat /\ i \in 1..Len(proc_list)
    BY DEF PidIInv, PidTypeOK
  <1>2. /\ proc_list' \in Seq(1..MAX_PID - 1)
        /\ Len(proc_list') = Len(proc_list) - 1
        /\ \A j \in 1..Len(proc_list) - 1 :
             proc_list'[j] = IF j < i THEN proc_list[j] ELSE proc_list[j + 1]
    BY Zenon, <1>1, Deleted DEF RemoveLinks, PidIInv, PidTypeOK
  <1>3. PidTypeOK'
    <2>1. pid_le = 0 /\ UNCHANGED <<last_pid, next_safe, forking, pid_le>> BY DEF RemoveLinks
    <2>2. pid_le' \in 0..Len(proc_list') + 1 BY <2>1, <1>1, <1>2
    <2>3. last_pid \in 1..MAX_PID - 1 /\ next_safe \in 1..MAX_PID BY DEF PidIInv, PidTypeOK
    <2> QED BY <2>1, <2>2, <2>3, <1>1, <1>2 DEF PidTypeOK
  <1>4. ASSUME NEW j \in 1..Len(proc_list')
        PROVE  \E k \in 1..Len(proc_list) : k = (IF j < i THEN j ELSE j + 1)
                                            /\ proc_list'[j] = proc_list[k]
    BY <1>1, <1>2
  <1>5. UniquePids'
    <2> SUFFICES ASSUME NEW j \in 1..Len(proc_list'), NEW k \in 1..Len(proc_list'),
                        proc_list'[j] = proc_list'[k]
                 PROVE  j = k
      BY DEF UniquePids
    <2>1. PICK m \in 1..Len(proc_list) : m = (IF j < i THEN j ELSE j + 1)
                                        /\ proc_list'[j] = proc_list[m]
      BY <1>4
    <2>2. PICK n \in 1..Len(proc_list) : n = (IF k < i THEN k ELSE k + 1)
                                        /\ proc_list'[k] = proc_list[n]
      BY <1>4
    <2>3. m = n
      BY Zenon, <2>1, <2>2 DEF PidIInv, UniquePids
    <2> QED
      BY <2>1, <2>2, <2>3, <1>1
  <1>6. WindowFree'
    <2> SUFFICES ASSUME NEW j \in 1..Len(proc_list'), proc_list'[j] > last_pid
                 PROVE  next_safe <= proc_list'[j]
      BY Zenon DEF WindowFree, RemoveLinks
    <2> QED
      BY Zenon, <1>4 DEF PidIInv, WindowFree, RemoveLinks
  <1>7. ForksBounded'
    <2>1. forking' = forking /\ pid_le' = 0
      BY DEF RemoveLinks
    <2>2. Len(proc_list) + forking <= 2 * (MAX_PROCESS - lcpu_count - 1)
      BY DEF PidIInv, ForksBounded
    <2>3. PICK b \in Int : b = 2 * (MAX_PROCESS - lcpu_count - 1)
      BY PidAssumption
    <2>4. Len(proc_list') = Len(proc_list) - 1
      BY <1>2
    <2>5. Len(proc_list') + forking' <= b
      BY <1>1, <2>1, <2>2, <2>3, <2>4
    <2> QED
      BY <2>1, <2>3, <2>5 DEF ForksBounded
  <1> QED
    BY <1>3, <1>5, <1>6, <1>7 DEF PidIInv

\* Every step preserves the invariant.
LEMMA PidNextIInv == PidIInv /\ [PidNext]_pidVars => PidIInv'
  <1> SUFFICES ASSUME PidIInv, [PidNext]_pidVars PROVE PidIInv'
    OBVIOUS
  <1>1. CASE ForkFail
    <2>1. forking \in Nat /\ Len(proc_list) \in Nat
      BY DEF PidIInv, PidTypeOK
    <2>2. ForksBounded'
      BY <1>1, <2>1, PidAssumption DEF PidIInv, ForksBounded, ForkFail
    <2>3. PidTypeOK' /\ UniquePids' /\ WindowFree'
      BY <1>1, <2>1 DEF ForkFail, PidIInv, PidTypeOK, UniquePids, WindowFree
    <2> QED
      BY <2>2, <2>3 DEF PidIInv
  <1>2. CASE UNCHANGED pidVars
    BY <1>2 DEF pidVars, PidIInv, PidTypeOK, UniquePids, WindowFree, ForksBounded
  <1> QED
    BY <1>1, <1>2, ForkCheckPreserves, GetPidPreserves, ScanPreserves, ScanEndPreserves,
       RemovePreserves DEF PidNext

\* The invariant holds in every reachable state.
THEOREM PidInductive == PidSpec => []PidIInv
  BY PidInitIInv, PidNextIInv, PTL DEF PidSpec

\* get_pid never returns a pid that a listed process has.
THEOREM PidsAreUnique == PidSpec => []UniquePids
  <1>1. PidIInv => UniquePids
    BY DEF PidIInv
  <1> QED
    BY <1>1, PidInductive, PTL

\* The pids between last_pid and next_safe are free whenever get_pid is called.
THEOREM WindowIsFree == PidSpec => []WindowFree
  <1>1. PidIInv => WindowFree
    BY DEF PidIInv
  <1> QED
    BY <1>1, PidInductive, PTL

\* With MAX_PID twice MAX_PROCESS a pid is left for every fork that passed the check.
THEOREM PidsAlwaysSuffice == PidSpec => []PidsSuffice
  <1>1. PidIInv => PidsSuffice
    <2> SUFFICES ASSUME PidIInv PROVE PidsSuffice
      OBVIOUS
    <2>1. Len(proc_list) \in Nat /\ forking \in Nat
      BY DEF PidIInv, PidTypeOK
    <2> QED
      BY <2>1, PidAssumption DEF PidIInv, ForksBounded, PidsSuffice
  <1> QED
    BY <1>1, PidInductive, PTL
=============================================================================
