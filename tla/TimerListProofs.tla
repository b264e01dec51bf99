-------------------------- MODULE TimerListProofs --------------------------
(***************************************************************************)
(* Proofs about the timer list for any number of timers and any timeouts:   *)
(* the deltas stay exact, no timer is overdue when a tick arrives, and the   *)
(* list implements module Timers.                                           *)
(***************************************************************************)
EXTENDS TimerList, TLAPS

\* The inductive invariant.  DeltasExact alone is not inductive: linking the
\* new timer keeps it only because the remainder carried by add_timer's loop is
\* exact (AddExact), and that loop passes only timers that have ticks left.
IInv == TimerTypeOK /\ DeltasExact /\ NoneOverdue /\ AddExact

LEMMA InitIInv == TimerInit => IInv
BY TimeoutAssumption DEF TimerInit, IInv, TimerTypeOK, DeltasExact, NoneOverdue, AddExact, Linked

\* Facts about a state of the invariant that every step below starts from.
LEMMA Facts ==
  ASSUME IInv
  PROVE  /\ Len(list) \in Nat
         /\ \A i \in 1..Len(list) : /\ list[i] \in Timer
                                    /\ due[list[i]] \in 0..MaxTimeout
                                    /\ expires[list[i]] \in 0..MaxTimeout
         /\ \A i, j \in 1..Len(list) : list[i] = list[j] => i = j
         /\ \A i \in 1..Len(list) : due[list[i]] = Base(i) + expires[list[i]]
         /\ \A i \in 1..(Len(list) + 1) : Base(i) \in 0..MaxTimeout
<1>1. /\ Len(list) \in Nat
      /\ \A i \in 1..Len(list) : /\ list[i] \in Timer
                                 /\ due[list[i]] \in 0..MaxTimeout
                                 /\ expires[list[i]] \in 0..MaxTimeout
  BY DEF IInv, TimerTypeOK
<1>2. ASSUME NEW i \in 1..(Len(list) + 1) PROVE Base(i) \in 0..MaxTimeout
  <2>1. CASE i = 1 BY <2>1, TimeoutAssumption DEF Base
  <2>2. CASE i # 1
    <3>1. i - 1 \in 1..Len(list) BY <2>2, <1>1
    <3>2. QED BY <2>2, <3>1, <1>1 DEF Base
  <2>3. QED BY <2>1, <2>2
<1>3. QED BY <1>1, <1>2 DEF IInv, DeltasExact

\* The list is sorted, with the bounds that comparisons of its entries need.
LEMMA Sorted ==
  ASSUME IInv, NEW i \in 1..Len(list), NEW j \in 1..Len(list), i <= j
  PROVE  /\ due[list[i]] <= due[list[j]]
         /\ due[list[i]] \in 0..MaxTimeout /\ due[list[j]] \in 0..MaxTimeout
<1>1. due[list[i]] \in 0..MaxTimeout /\ due[list[j]] \in 0..MaxTimeout BY Facts
<1>2. i < j => due[list[i]] <= due[list[j]] BY DEF IInv, DeltasExact
<1>3. i = j \/ i < j BY Facts
<1> QED BY <1>1, <1>2, <1>3, TimeoutAssumption

TicksLeft == \A i \in 1..Len(list) : due[list[i]] > 0

\* NoneOverdue follows from DeltasExact when every linked timer has ticks left.
LEMMA NoneOverdueIntro ==
  TimerTypeOK /\ DeltasExact /\ TicksLeft => NoneOverdue
<1> SUFFICES ASSUME TimerTypeOK, DeltasExact, TicksLeft, NEW i \in 1..Len(list)
             PROVE  expires[list[1]] # 0
  BY DEF NoneOverdue, TicksLeft
<1>1. 1 \in 1..Len(list)
  BY DEF TimerTypeOK
<1>2. due[list[1]] = Base(1) + expires[list[1]]
  BY <1>1 DEF DeltasExact
<1>3. Base(1) = 0
  BY DEF Base
<1>4. expires[list[1]] \in Nat /\ due[list[1]] > 0
  BY <1>1, TimeoutAssumption DEF TimerTypeOK, TicksLeft
<1> QED BY <1>2, <1>3, <1>4

LEMMA AddTimerBeginIInv ==
  ASSUME IInv, NEW t \in Timer, NEW n \in 1..MaxTimeout, AddTimerBegin(t, n)
  PROVE  IInv'
<1> USE TimeoutAssumption
<1>1. TimerTypeOK'
  BY DEF IInv, TimerTypeOK, AddTimerBegin
<1>2. \A i \in 1..Len(list) : /\ list[i] # t
                              /\ due'[list[i]] = due[list[i]]
                              /\ expires'[list[i]] = expires[list[i]]
  BY Facts DEF AddTimerBegin, Linked, IInv, TimerTypeOK
<1>3. \A i \in 1..Len(list) : Base(i)' = Base(i)
  BY <1>2 DEF Base, AddTimerBegin, IInv, TimerTypeOK
<1>4. DeltasExact'
  BY <1>2, <1>3, Facts DEF DeltasExact, AddTimerBegin, IInv
<1>5. NoneOverdue'
  BY <1>2, Facts DEF NoneOverdue, AddTimerBegin, IInv
<1>6. AddExact'
  BY Facts DEF AddExact, AddTimerBegin, Linked, Base, IInv, TimerTypeOK
<1> QED BY <1>1, <1>4, <1>5, <1>6 DEF IInv

LEMMA AddTimerSkipIInv ==
  ASSUME IInv, AddTimerSkip
  PROVE  IInv'
<1> USE TimeoutAssumption
<1>1. le \in 1..Len(list) /\ timer \in Timer /\ expires[timer] \in 0..MaxTimeout
  BY DEF IInv, TimerTypeOK, AddTimerSkip
<1>2. /\ expires[timer] - expires[list[le]] \in 0..MaxTimeout
      /\ \A i \in 1..Len(list) : list[i] # timer
  BY <1>1, Facts DEF AddTimerSkip, IInv, AddExact, Linked
<1>3. TimerTypeOK'
  BY <1>1, <1>2 DEF IInv, TimerTypeOK, AddTimerSkip
<1>4. \A i \in 1..Len(list) : Base(i)' = Base(i) /\ expires'[list[i]] = expires[list[i]]
  BY <1>2, Facts DEF Base, AddTimerSkip, IInv, TimerTypeOK
<1>5. DeltasExact'
  BY <1>4, Facts DEF DeltasExact, AddTimerSkip, IInv
<1>6. NoneOverdue'
  BY <1>1, <1>4, Facts DEF NoneOverdue, AddTimerSkip, IInv
<1>7. expires'[timer] = expires[timer] - expires[list[le]]
  BY <1>1 DEF AddTimerSkip, IInv, TimerTypeOK
<1>8. Base(le)' = due[list[le]]
  BY <1>1 DEF Base, AddTimerSkip
<1>9. due[timer] = Base(le) + expires[timer] /\ due[list[le]] = Base(le) + expires[list[le]]
  BY <1>1, Facts DEF IInv, AddExact, AddTimerSkip
<1>10. Base(le) \in 0..MaxTimeout
  BY <1>1, Facts
<1>11. due[timer] = Base(le)' + expires'[timer]
  BY <1>1, <1>7, <1>8, <1>9, <1>10, Facts
<1>12. AddExact'
  BY <1>1, <1>11, Facts DEF AddExact, AddTimerSkip, Linked, IInv
<1> QED BY <1>3, <1>5, <1>6, <1>12 DEF IInv

LEMMA AddTimerLinkIInv ==
  ASSUME IInv, AddTimerLink
  PROVE  IInv'
<1> USE TimeoutAssumption
<1>1. /\ mode = "add_timer" /\ le \in 1..(Len(list) + 1)
      /\ list \in Seq(Timer) /\ timer \in Timer /\ expires[timer] \in 0..MaxTimeout
      /\ list' = InsertAt(list, le, timer) /\ mode' = "idle" /\ timer' = timer
      /\ le' = le /\ due' = due
  BY DEF AddTimerLink, IInv, TimerTypeOK, AddExact
<1>2. /\ list' \in Seq(Timer)
      /\ Len(list') = Len(list) + 1
      /\ \A j \in 1..(Len(list) + 1) :
           list'[j] = IF j < le THEN list[j] ELSE IF j = le THEN timer ELSE list[j - 1]
  BY <1>1, Facts DEF InsertAt
<1>3. /\ \A j \in 1..Len(list) : list[j] # timer
      /\ due[timer] > 0 /\ due[timer] = Base(le) + expires[timer]
  BY <1>1 DEF IInv, AddExact, Linked
\* Only the successor of the new timer changes its delta.
<1>4. /\ expires' \in [Timer -> 0..MaxTimeout]
      /\ expires'[timer] = expires[timer]
      /\ \A j \in 1..Len(list) : j # le => expires'[list[j]] = expires[list[j]]
      /\ le <= Len(list) => expires'[list[le]] = expires[list[le]] - expires[timer]
  <2>1. CASE le > Len(list)
    <3>1. expires' = expires BY <1>1, <2>1, Facts DEF AddTimerLink
    <3>2. ~(le <= Len(list)) BY <1>1, <2>1, Facts
    <3> QED BY <3>1, <3>2 DEF IInv, TimerTypeOK
  <2>2. CASE le <= Len(list)
    <3>1. /\ expires[timer] < expires[list[le]]
          /\ expires' = [expires EXCEPT ![list[le]] = @ - expires[timer]]
          /\ le \in 1..Len(list)
      BY <2>2, <1>1 DEF AddTimerLink
    <3>2. list[le] \in Timer /\ expires[list[le]] - expires[timer] \in 0..MaxTimeout
      BY <3>1, <1>1, Facts
    <3>3. \A j \in 1..Len(list) : j # le => list[j] # list[le] /\ list[j] \in Timer
      BY <3>1, Facts
    <3>4. expires \in [Timer -> 0..MaxTimeout] /\ timer # list[le]
      BY <1>3, <3>1 DEF IInv, TimerTypeOK
    <3> QED BY <1>1, <3>1, <3>2, <3>3, <3>4
  <2> QED BY <2>1, <2>2, <1>1, Facts
<1>5. TimerTypeOK'
  BY <1>1, <1>2, <1>4 DEF IInv, TimerTypeOK
<1>6. \A j, k \in 1..Len(list') : list'[j] = list'[k] => j = k
  <2> SUFFICES ASSUME NEW j \in 1..(Len(list) + 1), NEW k \in 1..(Len(list) + 1), list'[j] = list'[k]
               PROVE  j = k
    BY <1>2
  <2>1. ASSUME NEW m \in 1..(Len(list) + 1)
        PROVE  \/ m < le /\ m \in 1..Len(list) /\ list'[m] = list[m] /\ list'[m] # timer
               \/ m = le /\ list'[m] = timer
               \/ m > le /\ m - 1 \in 1..Len(list) /\ list'[m] = list[m - 1] /\ list'[m] # timer
    <3>1. CASE m < le
      <4>0. m \in 1..Len(list) BY <3>1, <1>1, Facts
      <4>1. m \in 1..Len(list) /\ list'[m] = list[m] BY <4>0, <3>1, <1>2
      <4> QED BY <4>1, <3>1, <1>3
    <3>2. CASE m = le BY <3>2, <1>2
    <3>3. CASE m > le
      <4>1. m - 1 \in 1..Len(list) /\ list'[m] = list[m - 1] BY <3>3, <1>1, <1>2, Facts
      <4> QED BY <4>1, <3>3, <1>3
    <3> QED BY <3>1, <3>2, <3>3, <1>1
  <2>2. CASE j < le /\ k < le
    BY <2>1, <2>2, Facts, <1>1
  <2>3. CASE j > le /\ k > le
    <3>0. /\ j - 1 \in 1..Len(list) /\ k - 1 \in 1..Len(list) /\ list[j - 1] = list[k - 1]
      BY <2>1, <2>3, <1>1
    <3>1. j - 1 = k - 1 BY <3>0, Facts
    <3> QED BY <3>1
  <2>4. CASE (j < le /\ k > le) \/ (k < le /\ j > le)
    <3>1. j = k - 1 \/ k = j - 1 BY <2>1, <2>4, Facts, <1>1
    <3> QED BY <3>1, <2>4, <1>1
  <2>5. CASE j = le \/ k = le
    BY <2>1, <2>5, <1>1
  <2> QED BY <2>2, <2>3, <2>4, <2>5, <1>1
<1>7. ASSUME NEW i \in 1..Len(list')
      PROVE  due'[list'[i]] = (IF i = 1 THEN 0 ELSE due'[list'[i - 1]]) + expires'[list'[i]]
  <2>1. i \in 1..(Len(list) + 1) /\ (i # 1 => i - 1 \in 1..(Len(list) + 1))
    BY <1>2, Facts
  <2>2. CASE i < le
    <3>1. i \in 1..Len(list) /\ list'[i] = list[i]
      BY <2>1, <2>2, <1>1, <1>2, Facts
    <3>3. expires'[list[i]] = expires[list[i]]
      BY <3>1, <2>2, <1>1, <1>4
    <3>2. i # 1 => list'[i - 1] = list[i - 1]
      BY <2>1, <2>2, <1>1, <1>2, Facts
    <3> QED BY <3>1, <3>2, <3>3, <1>1, Facts DEF Base
  <2>3. CASE i = le
    <3>1. list'[i] = timer /\ (i # 1 => list'[i - 1] = list[i - 1])
      BY <2>1, <2>3, <1>1, <1>2, Facts
    <3> QED BY <3>1, <2>3, <1>1, <1>3, <1>4 DEF Base
  <2>4. CASE i = le + 1
    <3>4. le \in 1..Len(list) /\ i # 1 /\ i - 1 = le /\ le \in 1..(Len(list) + 1)
      BY <2>1, <2>4, <1>1, Facts
    <3>1. le \in 1..Len(list) /\ list'[i] = list[le] /\ list'[i - 1] = timer /\ i # 1
      BY <2>1, <2>4, <3>4, <1>2
    <3>2. expires'[list[le]] = expires[list[le]] - expires[timer]
      BY <3>1, <1>4
    <3>3. due[list[le]] = Base(le) + expires[list[le]] /\ Base(le) \in 0..MaxTimeout
          /\ expires[list[le]] \in 0..MaxTimeout
      BY <3>1, Facts
    <3> QED BY <3>1, <3>2, <3>3, <1>1, <1>3
  <2>5. CASE i > le + 1
    <3>4. /\ i - 1 \in 1..Len(list) /\ i - 1 # le /\ i - 1 # 1 /\ i # 1
          /\ i - 1 \in 1..(Len(list) + 1) /\ i - 1 > le
      BY <2>1, <2>5, <1>1, Facts
    <3>1. /\ i - 1 \in 1..Len(list) /\ i - 1 # le /\ i - 1 # 1 /\ i # 1
          /\ list'[i] = list[i - 1] /\ list'[i - 1] = list[i - 1 - 1]
      BY <3>4, <2>1, <2>5, <1>1, <1>2
    <3>2. due[list[i - 1]] = due[list[i - 1 - 1]] + expires[list[i - 1]]
      BY <3>1, Facts DEF Base
    <3>3. expires'[list[i - 1]] = expires[list[i - 1]]
      BY <3>1, <1>4
    <3> QED BY <3>1, <3>2, <3>3, <1>1
  <2> QED BY <2>1, <2>2, <2>3, <2>4, <2>5, <1>1, Facts
<1>12. ASSUME NEW j \in 1..Len(list'), NEW k \in 1..Len(list'), j < k
       PROVE  due'[list'[j]] <= due'[list'[k]]
  <2>1. j \in 1..(Len(list) + 1) /\ k \in 1..(Len(list) + 1) BY <1>2
  <2>2. CASE k < le
    <3>1. /\ j \in 1..Len(list) /\ k \in 1..Len(list)
          /\ list'[j] = list[j] /\ list'[k] = list[k]
      BY <2>1, <2>2, <1>12, <1>1, <1>2, Facts
    <3> QED BY <3>1, <1>12, <1>1, Sorted
  <2>3. CASE k = le
    <3>1. /\ j \in 1..Len(list) /\ le - 1 \in 1..Len(list) /\ j <= le - 1 /\ le # 1
      BY <2>1, <2>3, <1>12, <1>1, Facts
    <3>2. list'[j] = list[j] /\ list'[k] = timer
      BY <2>1, <2>3, <1>12, <1>2
    <3>3. Base(le) = due[list[le - 1]]
      BY <3>1 DEF Base
    <3>4. /\ due[list[j]] <= due[list[le - 1]]
          /\ due[list[j]] \in 0..MaxTimeout /\ due[list[le - 1]] \in 0..MaxTimeout
      BY <3>1, Sorted
    <3>5. due[timer] = Base(le) + expires[timer] /\ expires[timer] \in 0..MaxTimeout
      BY <1>3, <1>1 DEF IInv, TimerTypeOK
    <3>6. due[list[le - 1]] <= due[timer] BY <3>3, <3>4, <3>5
    <3>7. due[timer] \in 0..MaxTimeout /\ due' = due BY <1>1 DEF IInv, TimerTypeOK
    <3>8. due[list[j]] <= due[timer] BY <3>4, <3>6, <3>7
    <3> QED BY <3>2, <3>7, <3>8
  <2>4. CASE k > le
    <3>1. k - 1 \in 1..Len(list) /\ le \in 1..Len(list) /\ le <= k - 1 /\ list'[k] = list[k - 1]
      BY <2>1, <2>4, <1>1, <1>2, Facts
    <3>2. /\ due[list[le]] <= due[list[k - 1]]
          /\ due[list[le]] \in 0..MaxTimeout /\ due[list[k - 1]] \in 0..MaxTimeout
      BY <3>1, Sorted
    <3>3. CASE j < le
      <4>1. j \in 1..Len(list) /\ list'[j] = list[j] /\ j < k - 1
        BY <3>3, <3>1, <2>1, <1>2
      <4> QED BY <4>1, <3>1, <1>1, Sorted
    <3>4. CASE j = le
      <4>1. due[timer] <= due[list[le]]
        <5>1. /\ due[list[le]] = Base(le) + expires[list[le]] /\ Base(le) \in 0..MaxTimeout
              /\ expires[list[le]] \in 0..MaxTimeout
          BY <3>1, Facts
        <5>2. expires[timer] < expires[list[le]]
          BY <3>1, Facts DEF AddTimerLink
        <5>3. due[timer] = Base(le) + expires[timer] /\ expires[timer] \in 0..MaxTimeout
          BY <1>3, <1>1 DEF IInv, TimerTypeOK
        <5>4. \A b, e, f \in 0..MaxTimeout : e < f => b + e <= b + f BY TimeoutAssumption
        <5> QED BY <5>1, <5>2, <5>3, <5>4
      <4>2. due[timer] \in 0..MaxTimeout /\ list'[j] = timer
        BY <3>4, <2>1, <1>2, <1>1 DEF IInv, TimerTypeOK
      <4>3. due[timer] <= due[list[k - 1]] BY <4>1, <4>2, <3>2
      <4> QED BY <4>2, <4>3, <3>1, <1>1
    <3>5. CASE j > le
      <4>1. j - 1 \in 1..Len(list) /\ list'[j] = list[j - 1] /\ j - 1 < k - 1
        BY <3>5, <3>1, <2>1, <1>1, <1>2, <1>12
      <4> QED BY <4>1, <3>1, <1>1, Sorted
    <3> QED BY <3>3, <3>4, <3>5, <1>1
  <2> QED BY <2>1, <2>2, <2>3, <2>4, <1>1
<1>8. DeltasExact'
  BY <1>6, <1>7, <1>12 DEF DeltasExact, Base
<1>9. TicksLeft'
  <2> SUFFICES ASSUME NEW i \in 1..(Len(list) + 1) PROVE due[list'[i]] > 0
    BY <1>1, <1>2 DEF TicksLeft
  <2>1. \A j \in 1..Len(list) : due[list[j]] > 0
    BY <1>1 DEF IInv, NoneOverdue
  <2>2. CASE i < le BY <2>1, <2>2, <1>1, <1>2, Facts
  <2>3. CASE i = le BY <2>3, <1>2, <1>3
  <2>4. CASE i > le
    <3>1. i - 1 \in 1..Len(list) /\ list'[i] = list[i - 1] BY <2>4, <1>1, <1>2, Facts
    <3> QED BY <3>1, <2>1
  <2> QED BY <2>2, <2>3, <2>4, <1>1
<1>10. NoneOverdue'
  BY <1>5, <1>8, <1>9, NoneOverdueIntro, PTL
<1>11. AddExact'
  BY <1>1 DEF AddExact
<1> QED BY <1>5, <1>8, <1>10, <1>11 DEF IInv

LEMMA DelTimerIInv ==
  ASSUME IInv, NEW d \in 1..Len(list), DelTimer(d)
  PROVE  IInv'
<1> USE TimeoutAssumption
<1>1. /\ mode = "idle" /\ mode' = "idle" /\ timer' = timer /\ le' = le
      /\ list \in Seq(Timer) /\ list' = RemoveAt(list, d)
      /\ due' = [due EXCEPT ![list[d]] = 0]
      /\ due \in [Timer -> 0..MaxTimeout] /\ expires \in [Timer -> 0..MaxTimeout]
  BY DEF DelTimer, IInv, TimerTypeOK
<1>2. /\ list' \in Seq(Timer)
      /\ Len(list') = Len(list) - 1
      /\ \A j \in 1..(Len(list) - 1) : list'[j] = IF j < d THEN list[j] ELSE list[j + 1]
  BY <1>1, Facts DEF RemoveAt
\* Where an entry of the new list stood in the old one.
<1>3. ASSUME NEW j \in 1..(Len(list) - 1)
      PROVE  /\ j < d => j \in 1..Len(list) /\ list'[j] = list[j]
             /\ j >= d => j + 1 \in 1..Len(list) /\ list'[j] = list[j + 1]
             /\ list'[j] # list[d]
             /\ due'[list'[j]] = due[list'[j]]
  <2>1. CASE j < d
    <3>1. j \in 1..Len(list) /\ list'[j] = list[j] BY <2>1, <1>2, Facts
    <3>2. list[j] # list[d] /\ list[j] \in Timer BY <2>1, <3>1, Facts
    <3> QED BY <2>1, <3>1, <3>2, <1>1
  <2>2. CASE j >= d
    <3>1. j + 1 \in 1..Len(list) /\ list'[j] = list[j + 1] BY <2>2, <1>2, Facts
    <3>2. list[j + 1] # list[d] /\ list[j + 1] \in Timer BY <2>2, <3>1, Facts
    <3> QED BY <2>2, <3>1, <3>2, <1>1
  <2> QED BY <2>1, <2>2
\* The successor's delta grows by the one that is removed.
<1>4. /\ expires' \in [Timer -> 0..MaxTimeout]
      /\ \A j \in 1..Len(list) : j # d + 1 => expires'[list[j]] = expires[list[j]]
      /\ d < Len(list) => expires'[list[d + 1]] = expires[list[d + 1]] + expires[list[d]]
  <2>1. CASE d >= Len(list)
    BY <2>1, <1>1, Facts DEF DelTimer
  <2>2. CASE d < Len(list)
    <3>1. d + 1 \in 1..Len(list) /\ d + 1 # 1 /\ d + 1 - 1 = d BY <2>2, Facts
    <3>2. expires' = [expires EXCEPT ![list[d + 1]] = @ + expires[list[d]]]
      BY <2>2 DEF DelTimer
    <3>3. due[list[d + 1]] = due[list[d]] + expires[list[d + 1]]
      BY <3>1, Facts DEF Base
    <3>6. due[list[d]] = Base(d) + expires[list[d]] /\ Base(d) \in 0..MaxTimeout
      BY Facts
    <3>4. list[d + 1] \in Timer /\ expires[list[d + 1]] + expires[list[d]] \in 0..MaxTimeout
      <4>1. /\ list[d + 1] \in Timer /\ due[list[d + 1]] \in 0..MaxTimeout
            /\ expires[list[d]] \in 0..MaxTimeout /\ expires[list[d + 1]] \in 0..MaxTimeout
        BY <3>1, Facts
      <4>2. \A b, e, f \in 0..MaxTimeout : (b + e) + f \in 0..MaxTimeout => f + e \in 0..MaxTimeout
        BY TimeoutAssumption
      <4>3. (Base(d) + expires[list[d]]) + expires[list[d + 1]] \in 0..MaxTimeout
        BY <4>1, <3>3, <3>6
      <4> QED BY <4>1, <4>2, <4>3, <3>6
    <3>5. ASSUME NEW j \in 1..Len(list), j # d + 1 PROVE list[j] # list[d + 1] /\ list[j] \in Timer
      BY <3>1, <3>5, Facts
    <3> QED BY <1>1, <3>2, <3>4, <3>5
  <2> QED BY <2>1, <2>2, Facts
<1>5. TimerTypeOK'
  <2>1. due' \in [Timer -> 0..MaxTimeout] BY <1>1
  <2> QED BY Zenon, <2>1, <1>1, <1>2, <1>4 DEF IInv, TimerTypeOK
<1>6. \A j, k \in 1..Len(list') : list'[j] = list'[k] => j = k
  <2> SUFFICES ASSUME NEW j \in 1..(Len(list) - 1), NEW k \in 1..(Len(list) - 1), list'[j] = list'[k]
               PROVE  j = k
    BY <1>2
  <2>1. CASE j < d /\ k < d BY <2>1, <1>3, Facts
  <2>2. CASE j >= d /\ k >= d
    <3>1. j + 1 = k + 1 BY <2>2, <1>3, Facts
    <3> QED BY <3>1
  <2>3. CASE j < d /\ k >= d
    <3>1. j = k + 1 BY <2>3, <1>3, Facts
    <3> QED BY <3>1, <2>3
  <2>4. CASE k < d /\ j >= d
    <3>1. k = j + 1 BY <2>4, <1>3, Facts
    <3> QED BY <3>1, <2>4
  <2> QED BY <2>1, <2>2, <2>3, <2>4
<1>7. ASSUME NEW i \in 1..Len(list')
      PROVE  due'[list'[i]] = (IF i = 1 THEN 0 ELSE due'[list'[i - 1]]) + expires'[list'[i]]
  <2>1. i \in 1..(Len(list) - 1) /\ (i # 1 => i - 1 \in 1..(Len(list) - 1))
    BY <1>2, Facts
  <2>2. CASE i < d
    <3>1. i \in 1..Len(list) /\ list'[i] = list[i] /\ due'[list'[i]] = due[list[i]]
      BY <2>1, <2>2, <1>3
    <3>2. i # 1 => due'[list'[i - 1]] = due[list[i - 1]]
      BY <2>1, <2>2, <1>3
    <3>3. expires'[list[i]] = expires[list[i]]
      BY <3>1, <2>2, <1>4
    <3> QED BY <3>1, <3>2, <3>3, Facts DEF Base
  <2>3. CASE i = d
    <3>1. /\ d + 1 \in 1..Len(list) /\ d < Len(list)
          /\ list'[i] = list[d + 1] /\ due'[list'[i]] = due[list[d + 1]]
      BY <2>1, <2>3, <1>3, Facts
    <3>2. i # 1 => due'[list'[i - 1]] = due[list[i - 1]]
      BY <2>1, <2>3, <1>3
    <3>3. expires'[list[d + 1]] = expires[list[d + 1]] + expires[list[d]]
      BY <3>1, <1>4
    <3>4. due[list[d]] = Base(d) + expires[list[d]]
      BY Facts
    <3>8. d + 1 # 1 /\ d + 1 - 1 = d
      OBVIOUS
    <3>7. due[list[d + 1]] = due[list[d]] + expires[list[d + 1]]
      BY <3>1, <3>8, Facts DEF Base
    <3>5. Base(d) \in 0..MaxTimeout /\ expires[list[d]] \in 0..MaxTimeout
          /\ expires[list[d + 1]] \in 0..MaxTimeout
      BY <3>1, Facts
    <3>6. Base(d) = IF i = 1 THEN 0 ELSE due'[list'[i - 1]]
      BY <3>2, <2>3 DEF Base
    <3> QED BY <3>1, <3>3, <3>4, <3>5, <3>6, <3>7
  <2>4. CASE i > d
    <3>5. i # 1 /\ i + 1 # 1 /\ i + 1 - 1 = i /\ i + 1 # d + 1 /\ i >= d
      BY <2>1, <2>4
    <3>1. /\ i + 1 \in 1..Len(list) /\ i # 1 /\ i + 1 # 1 /\ i + 1 - 1 = i /\ i + 1 # d + 1
          /\ list'[i] = list[i + 1] /\ due'[list'[i]] = due[list[i + 1]]
      BY <2>1, <3>5, <1>3
    <3>2. due'[list'[i - 1]] = due[list[i]]
      <4>1. i - 1 \in 1..(Len(list) - 1) /\ i - 1 >= d /\ i - 1 + 1 = i BY <2>1, <2>4, <3>1
      <4> QED BY <4>1, <1>3
    <3>3. expires'[list[i + 1]] = expires[list[i + 1]]
      BY <3>1, <1>4
    <3>4. due[list[i + 1]] = due[list[i]] + expires[list[i + 1]]
      BY <3>1, Facts DEF Base
    <3> QED BY <3>1, <3>2, <3>3, <3>4
  <2> QED BY <2>1, <2>2, <2>3, <2>4
<1>12. ASSUME NEW j \in 1..Len(list'), NEW k \in 1..Len(list'), j < k
       PROVE  due'[list'[j]] <= due'[list'[k]]
  <2> DEFINE old(m) == IF m < d THEN m ELSE m + 1
  <2>1. ASSUME NEW m \in 1..Len(list')
        PROVE  old(m) \in 1..Len(list) /\ list'[m] = list[old(m)] /\ due'[list'[m]] = due[list[old(m)]]
    <3>1. CASE m < d BY <3>1, <1>2, <1>3
    <3>2. CASE m >= d BY <3>2, <1>2, <1>3
    <3> QED BY <3>1, <3>2, <1>2
  <2>2. old(j) <= old(k) BY <1>12, <1>2
  <2> HIDE DEF old
  <2>3. old(j) \in 1..Len(list) /\ old(k) \in 1..Len(list) BY <2>1
  <2>4. due[list[old(j)]] <= due[list[old(k)]] BY <2>2, <2>3, Sorted
  <2> QED BY <2>1, <2>4
<1>8. DeltasExact'
  BY <1>6, <1>7, <1>12 DEF DeltasExact, Base
<1>9. TicksLeft'
  <2> SUFFICES ASSUME NEW i \in 1..(Len(list) - 1) PROVE due'[list'[i]] > 0
    BY <1>2 DEF TicksLeft
  <2>1. \A j \in 1..Len(list) : due[list[j]] > 0
    BY <1>1 DEF IInv, NoneOverdue
  <2>2. \E j \in 1..Len(list) : list'[i] = list[j]
    BY <1>3
  <2> QED BY <2>1, <2>2, <1>3
<1>10. NoneOverdue'
  BY <1>5, <1>8, <1>9, NoneOverdueIntro, PTL
<1>11. AddExact'
  BY <1>1 DEF AddExact
<1> QED BY <1>5, <1>8, <1>10, <1>11 DEF IInv

LEMMA RunTimerListBeginIInv ==
  ASSUME IInv, RunTimerListBegin
  PROVE  IInv'
<1> USE TimeoutAssumption
<1>1. /\ mode = "idle" /\ mode' = "run_timer_list" /\ list' = list /\ timer' = timer /\ le' = le
      /\ due \in [Timer -> 0..MaxTimeout] /\ expires \in [Timer -> 0..MaxTimeout]
      /\ due' = [t \in Timer |-> IF Linked(t) THEN due[t] - 1 ELSE due[t]]
  BY DEF RunTimerListBegin, IInv, TimerTypeOK
<1>2. \A i \in 1..Len(list) : due[list[i]] > 0 /\ expires[list[1]] # 0
  BY <1>1 DEF IInv, NoneOverdue
<1>3. \A i \in 1..Len(list) : due'[list[i]] = due[list[i]] - 1
  BY <1>1, Facts DEF Linked
<1>4. due' \in [Timer -> 0..MaxTimeout]
  <2>1. ASSUME NEW t \in Timer PROVE (IF Linked(t) THEN due[t] - 1 ELSE due[t]) \in 0..MaxTimeout
    <3>1. Linked(t) => due[t] > 0 BY <1>2 DEF Linked
    <3> QED BY <3>1, <1>1
  <2> QED BY <2>1, <1>1
<1>5. /\ expires' \in [Timer -> 0..MaxTimeout]
      /\ \A i \in 1..Len(list) : expires'[list[i]] = IF i = 1 THEN expires[list[i]] - 1 ELSE expires[list[i]]
  <2>1. CASE list = << >>
    BY <2>1, <1>1, Facts DEF RunTimerListBegin
  <2>2. CASE list # << >>
    <3>1. 1 \in 1..Len(list) BY <2>2, Facts DEF IInv, TimerTypeOK
    <3>2. /\ expires' = [expires EXCEPT ![list[1]] = @ - 1]
          /\ list[1] \in Timer /\ expires[list[1]] - 1 \in 0..MaxTimeout
      BY <2>2, <3>1, <1>1, <1>2, Facts DEF RunTimerListBegin
    <3>3. ASSUME NEW i \in 1..Len(list) PROVE list[i] \in Timer /\ (i # 1 => list[i] # list[1])
      BY <3>1, Facts
    <3> QED BY <3>2, <3>3, <1>1
  <2> QED BY <2>1, <2>2
<1>6. TimerTypeOK'
  BY <1>1, <1>4, <1>5 DEF IInv, TimerTypeOK
<1>7. ASSUME NEW i \in 1..Len(list)
      PROVE  due'[list[i]] = (IF i = 1 THEN 0 ELSE due'[list[i - 1]]) + expires'[list[i]]
  <2>1. /\ due[list[i]] = Base(i) + expires[list[i]] /\ Base(i) \in 0..MaxTimeout
        /\ expires[list[i]] \in 0..MaxTimeout
    BY Facts
  <2>2. CASE i = 1 BY <2>1, <2>2, <1>3, <1>5 DEF Base
  <2>3. CASE i # 1
    <3>1. i - 1 \in 1..Len(list) BY <2>3, Facts
    <3>2. Base(i) = due[list[i - 1]] BY <2>3 DEF Base
    <3>3. due'[list[i]] = due[list[i]] - 1 /\ due'[list[i - 1]] = due[list[i - 1]] - 1
      BY <3>1, <1>3
    <3>4. expires'[list[i]] = expires[list[i]]
      BY <2>3, <1>5
    <3>5. due'[list[i - 1]] = Base(i) - 1 BY <3>2, <3>3
    <3>6. due'[list[i]] = due'[list[i - 1]] + expires'[list[i]] BY <2>1, <3>3, <3>4, <3>5
    <3> QED BY <2>3, <3>6
  <2> QED BY <2>2, <2>3
<1>8. ASSUME NEW i \in 1..Len(list), NEW j \in 1..Len(list), i < j
      PROVE  due'[list[i]] <= due'[list[j]]
  <2>1. /\ due[list[i]] <= due[list[j]]
        /\ due[list[i]] \in 0..MaxTimeout /\ due[list[j]] \in 0..MaxTimeout
    BY <1>8, Sorted
  <2> QED BY <2>1, <1>3
<1>9. DeltasExact'
  BY <1>1, <1>7, <1>8, Facts DEF DeltasExact, Base
<1> QED BY <1>1, <1>6, <1>9 DEF IInv, NoneOverdue, AddExact

LEMMA RunTimerListFireIInv ==
  ASSUME IInv, RunTimerListFire
  PROVE  IInv'
<1> USE TimeoutAssumption
<1>1. /\ mode = "run_timer_list" /\ mode' = mode /\ timer' = timer /\ le' = le
      /\ due' = due /\ expires' = expires
      /\ list \in Seq(Timer) /\ list # << >> /\ 1 \in 1..Len(list)
      /\ expires[list[1]] = 0 /\ list' = RemoveAt(list, 1)
  BY Facts DEF RunTimerListFire, IInv, TimerTypeOK
<1>2. /\ list' \in Seq(Timer)
      /\ Len(list') = Len(list) - 1
      /\ \A j \in 1..(Len(list) - 1) : list'[j] = list[j + 1]
  BY <1>1, Facts DEF RemoveAt
<1>3. TimerTypeOK'
  BY <1>1, <1>2 DEF IInv, TimerTypeOK
<1>4. ASSUME NEW j \in 1..Len(list')
      PROVE  j + 1 \in 1..Len(list) /\ list'[j] = list[j + 1]
  BY <1>2, Facts
<1>5. ASSUME NEW j \in 1..Len(list'), NEW k \in 1..Len(list'), list'[j] = list'[k]
      PROVE  j = k
  <2>1. j + 1 = k + 1 BY <1>4, <1>5, Facts
  <2> QED BY <2>1
<1>6. ASSUME NEW j \in 1..Len(list'), NEW k \in 1..Len(list'), j < k
      PROVE  due'[list'[j]] <= due'[list'[k]]
  <2>1. j + 1 \in 1..Len(list) /\ k + 1 \in 1..Len(list) /\ j + 1 <= k + 1 BY <1>4, <1>6
  <2>2. due[list[j + 1]] <= due[list[k + 1]] BY <2>1, Sorted
  <2> QED BY <2>2, <1>1, <1>4
<1>7. ASSUME NEW i \in 1..Len(list')
      PROVE  due'[list'[i]] = (IF i = 1 THEN 0 ELSE due'[list'[i - 1]]) + expires'[list'[i]]
  <2>1. i + 1 \in 1..Len(list) /\ list'[i] = list[i + 1] /\ i + 1 # 1 /\ i + 1 - 1 = i
    BY <1>4
  <2>2. due[list[i + 1]] = due[list[i]] + expires[list[i + 1]]
    <3>1. due[list[i + 1]] = Base(i + 1) + expires[list[i + 1]] BY Zenon, <2>1, Facts
    <3> QED BY <3>1, <2>1 DEF Base
  <2>3. CASE i = 1
    <3>1. due[list[1]] = 0
      <4>1. due[list[1]] = Base(1) + expires[list[1]] BY <1>1, Facts
      <4> QED BY <4>1, <1>1 DEF Base
    <3>2. expires[list[i + 1]] \in Nat BY <2>1, Facts
    <3> QED BY <2>1, <2>2, <2>3, <3>1, <3>2, <1>1
  <2>4. CASE i # 1
    <3>1. i - 1 \in 1..Len(list') /\ i - 1 + 1 = i BY <2>4, <1>2, Facts
    <3>2. list'[i - 1] = list[i] BY <3>1, <1>4
    <3> QED BY <2>1, <2>2, <2>4, <3>2, <1>1
  <2> QED BY <2>3, <2>4
<1>8. DeltasExact'
  BY <1>5, <1>6, <1>7 DEF DeltasExact, Base
<1> QED BY <1>1, <1>3, <1>8 DEF IInv, NoneOverdue, AddExact

LEMMA RunTimerListEndIInv ==
  ASSUME IInv, RunTimerListEnd
  PROVE  IInv'
<1> USE TimeoutAssumption
<1>1. /\ mode' = "idle" /\ list' = list /\ expires' = expires
      /\ timer' = timer /\ le' = le /\ due' = due
      /\ list # << >> => expires[list[1]] # 0
  BY DEF RunTimerListEnd
<1>2. TimerTypeOK' /\ DeltasExact' /\ AddExact'
  BY <1>1 DEF IInv, TimerTypeOK, DeltasExact, Base, AddExact
\* The list is sorted, so the loop may stop at the first timer with ticks left.
<1>3. ASSUME NEW i \in 1..Len(list) PROVE due[list[i]] > 0 /\ expires[list[1]] # 0
  <2>1. 1 \in 1..Len(list) /\ list # << >> BY Facts DEF IInv, TimerTypeOK
  <2>2. /\ due[list[1]] = expires[list[1]] /\ expires[list[1]] \in 0..MaxTimeout
        /\ due[list[i]] \in 0..MaxTimeout
    BY <2>1, Facts DEF Base
  <2>3. due[list[1]] <= due[list[i]] BY <2>1, Sorted
  <2> QED BY <2>1, <2>2, <2>3, <1>1
<1>4. NoneOverdue'
  BY <1>1, <1>3 DEF NoneOverdue
<1> QED BY <1>2, <1>4 DEF IInv

LEMMA NextIInv == IInv /\ [TimerNext]_timerVars => IInv'
<1> SUFFICES ASSUME IInv, [TimerNext]_timerVars PROVE IInv'
  OBVIOUS
<1>1. ASSUME NEW t \in Timer, NEW n \in 1..MaxTimeout, AddTimerBegin(t, n) PROVE IInv'
  BY <1>1, AddTimerBeginIInv
<1>2. CASE AddTimerSkip BY <1>2, AddTimerSkipIInv
<1>3. CASE AddTimerLink BY <1>3, AddTimerLinkIInv
<1>4. ASSUME NEW i \in 1..Len(list), DelTimer(i) PROVE IInv'
  BY <1>4, DelTimerIInv
<1>5. CASE RunTimerListBegin BY <1>5, RunTimerListBeginIInv
<1>6. CASE RunTimerListFire BY <1>6, RunTimerListFireIInv
<1>7. CASE RunTimerListEnd BY <1>7, RunTimerListEndIInv
<1>8. CASE UNCHANGED timerVars
  BY <1>8 DEF timerVars, IInv, TimerTypeOK, DeltasExact, NoneOverdue, AddExact, Base, Linked
<1> QED BY <1>1, <1>2, <1>3, <1>4, <1>5, <1>6, <1>7, <1>8 DEF TimerNext

THEOREM Inductive == TimerSpec => []IInv
BY InitIInv, NextIInv, PTL DEF TimerSpec

\* The deltas of the timer list are exact, for any number of timers and any timeouts.
THEOREM DeltasAlwaysExact == TimerSpec => []DeltasExact
<1>1. IInv => DeltasExact BY DEF IInv
<1> QED BY <1>1, Inductive, PTL

\* The assertion at the head of run_timer_list cannot fail.
THEOREM NeverOverdue == TimerSpec => []NoneOverdue
<1>1. IInv => NoneOverdue BY DEF IInv
<1> QED BY <1>1, Inductive, PTL

-----------------------------------------------------------------------------
\* The state of module Timers that a state of the list stands for.
Armed == {t \in Timer : Linked(t)}
Due == [t \in Timer |-> IF Linked(t) THEN due[t] ELSE 0]

\* Linking adds exactly the new timer to the pending ones.
LEMMA LinkArms ==
  ASSUME IInv, AddTimerLink
  PROVE  \A t \in Timer : Linked(t)' <=> Linked(t) \/ t = timer
<1>1. /\ le \in 1..(Len(list) + 1) /\ timer \in Timer /\ Len(list) \in Nat
      /\ Len(list') = Len(list) + 1
      /\ \A j \in 1..(Len(list) + 1) :
           list'[j] = IF j < le THEN list[j] ELSE IF j = le THEN timer ELSE list[j - 1]
  BY Facts DEF AddTimerLink, InsertAt, IInv, TimerTypeOK, AddExact
<1>2. ASSUME NEW t \in Timer, NEW j \in 1..Len(list'), list'[j] = t PROVE Linked(t) \/ t = timer
  <2>1. CASE j < le
    <3>1. j \in 1..Len(list) /\ list[j] = t BY <2>1, <1>1, <1>2
    <3> QED BY <3>1 DEF Linked
  <2>2. CASE j = le BY <2>2, <1>1, <1>2
  <2>3. CASE j > le
    <3>1. j - 1 \in 1..Len(list) /\ list[j - 1] = t BY <2>3, <1>1, <1>2
    <3> QED BY <3>1 DEF Linked
  <2> QED BY <2>1, <2>2, <2>3, <1>1
<1>3. ASSUME NEW t \in Timer, t = timer PROVE Linked(t)'
  <2>1. le \in 1..Len(list') /\ list'[le] = t BY <1>1, <1>3
  <2> QED BY <2>1 DEF Linked
<1>4. ASSUME NEW t \in Timer, NEW j \in 1..Len(list), list[j] = t PROVE Linked(t)'
  <2>1. CASE j < le
    <3>1. j \in 1..Len(list') /\ list'[j] = t BY <2>1, <1>1, <1>4
    <3> QED BY <3>1 DEF Linked
  <2>2. CASE j >= le
    <3>1. j + 1 \in 1..(Len(list) + 1) /\ ~(j + 1 < le) /\ j + 1 # le /\ j + 1 - 1 = j BY <2>2, <1>1
    <3>2. j + 1 \in 1..Len(list') /\ list'[j + 1] = t BY <3>1, <1>1, <1>4
    <3> QED BY <3>2 DEF Linked
  <2> QED BY <2>1, <2>2, <1>1
<1> QED BY <1>2, <1>3, <1>4 DEF Linked

\* Removing an entry removes exactly its timer from the pending ones.
LEMMA RemoveDisarms ==
  ASSUME IInv, NEW d \in 1..Len(list), list' = RemoveAt(list, d)
  PROVE  \A t \in Timer : Linked(t)' <=> Linked(t) /\ t # list[d]
<1>1. /\ Len(list) \in Nat /\ Len(list') = Len(list) - 1
      /\ \A j \in 1..(Len(list) - 1) : list'[j] = IF j < d THEN list[j] ELSE list[j + 1]
  BY Facts DEF RemoveAt, IInv, TimerTypeOK
<1>2. ASSUME NEW t \in Timer, NEW j \in 1..Len(list'), list'[j] = t PROVE Linked(t) /\ t # list[d]
  <2>1. CASE j < d
    <3>1. j \in 1..Len(list) /\ list[j] = t /\ j # d BY <2>1, <1>1, <1>2
    <3> QED BY <3>1, Facts DEF Linked
  <2>2. CASE j >= d
    <3>1. j + 1 \in 1..Len(list) /\ list[j + 1] = t /\ j + 1 # d BY <2>2, <1>1, <1>2
    <3> QED BY <3>1, Facts DEF Linked
  <2> QED BY <2>1, <2>2, <1>1
<1>3. ASSUME NEW t \in Timer, NEW j \in 1..Len(list), list[j] = t, t # list[d] PROVE Linked(t)'
  <2>1. CASE j < d
    <3>1. j \in 1..Len(list') /\ list'[j] = t BY <2>1, <1>1, <1>3
    <3> QED BY <3>1 DEF Linked
  <2>2. CASE j > d
    <3>1. j - 1 \in 1..(Len(list) - 1) /\ ~(j - 1 < d) /\ j - 1 + 1 = j BY <2>2, <1>1
    <3>2. j - 1 \in 1..Len(list') /\ list'[j - 1] = t BY <3>1, <1>1, <1>3
    <3> QED BY <3>2 DEF Linked
  <2> QED BY <2>1, <2>2, <1>1, <1>3
<1> QED BY <1>2, <1>3 DEF Linked

\* Every step of the list is a step of Timers or leaves its state unchanged.
LEMMA StepSimulation == IInv /\ [TimerNext]_timerVars => [Abs!Next]_(Abs!vars)
<1> SUFFICES ASSUME IInv, [TimerNext]_timerVars PROVE Abs!Next \/ (Armed' = Armed /\ Due' = Due)
  BY DEF Abs!vars, Armed, Due
<1> USE TimeoutAssumption
<1>0. due \in [Timer -> 0..MaxTimeout] BY DEF IInv, TimerTypeOK
<1>1. ASSUME NEW t \in Timer, NEW n \in 1..MaxTimeout, AddTimerBegin(t, n)
      PROVE  Armed' = Armed /\ Due' = Due
  BY <1>0, <1>1 DEF AddTimerBegin, Armed, Due, Linked
<1>2. CASE AddTimerSkip \/ RunTimerListEnd \/ UNCHANGED timerVars
  BY <1>2 DEF AddTimerSkip, RunTimerListEnd, timerVars, Armed, Due, Linked
<1>3. CASE AddTimerLink
  <2>1. /\ timer \in Timer /\ due[timer] \in 1..MaxTimeout /\ ~Linked(timer) /\ due' = due
    BY <1>0, <1>3 DEF AddTimerLink, IInv, TimerTypeOK, AddExact
  <2>2. \A t \in Timer : Linked(t)' <=> Linked(t) \/ t = timer BY <1>3, LinkArms
  <2>3. Armed' = Armed \cup {timer} /\ timer \notin Armed BY <2>1, <2>2 DEF Armed
  <2>4. Due' = [Due EXCEPT ![timer] = due[timer]] BY Zenon, <2>1, <2>2 DEF Due
  <2>5. PICK t \in Timer, n \in 1..MaxTimeout : t = timer /\ n = due[timer] BY <2>1
  <2>6. Abs!Arm(t, n) BY <2>3, <2>4, <2>5 DEF Abs!Arm, Armed, Due
  <2> QED BY <2>6 DEF Abs!Next
<1>4. ASSUME NEW d \in 1..Len(list), DelTimer(d) PROVE Abs!Next
  <2>1. /\ list[d] \in Timer /\ Linked(list[d]) /\ due' = [due EXCEPT ![list[d]] = 0]
        /\ list' = RemoveAt(list, d)
    BY <1>4, Facts DEF DelTimer, Linked
  <2>2. \A t \in Timer : Linked(t)' <=> Linked(t) /\ t # list[d] BY <2>1, RemoveDisarms
  <2>3. Armed' = Armed \ {list[d]} /\ list[d] \in Armed BY <2>1, <2>2 DEF Armed
  <2>4. Due' = [Due EXCEPT ![list[d]] = 0] BY Zenon, <1>0, <2>1, <2>2 DEF Due
  <2>5. PICK t \in Timer : t = list[d] BY <2>1
  <2>6. Abs!Disarm(t) BY <2>3, <2>4, <2>5 DEF Abs!Disarm, Armed, Due
  <2> QED BY <2>6 DEF Abs!Next
<1>5. CASE RunTimerListBegin
  <2>1. /\ list' = list /\ due' = [t \in Timer |-> IF Linked(t) THEN due[t] - 1 ELSE due[t]]
        /\ \A i \in 1..Len(list) : due[list[i]] > 0
    BY <1>5 DEF RunTimerListBegin, IInv, NoneOverdue
  <2>2. Armed' = Armed /\ \A t \in Armed : Due[t] > 0 BY <2>1 DEF Armed, Due, Linked
  <2>3. Due' = [t \in Timer |-> IF t \in Armed THEN Due[t] - 1 ELSE Due[t]]
    BY <1>0, <2>1 DEF Armed, Due, Linked
  <2>4. Abs!Tick BY <2>2, <2>3 DEF Abs!Tick, Armed, Due
  <2> QED BY <2>4 DEF Abs!Next
<1>6. CASE RunTimerListFire
  <2>1. 1 \in 1..Len(list) BY <1>6, Facts DEF RunTimerListFire, IInv, TimerTypeOK
  <2>2. /\ list[1] \in Timer /\ Linked(list[1]) /\ due' = due
        /\ list' = RemoveAt(list, 1) /\ expires[list[1]] = 0
    BY <1>6, <2>1, Facts DEF RunTimerListFire, Linked
  <2>3. due[list[1]] = 0
    <3>1. due[list[1]] = Base(1) + expires[list[1]] BY <2>1, Facts
    <3> QED BY <3>1, <2>2 DEF Base
  <2>4. \A t \in Timer : Linked(t)' <=> Linked(t) /\ t # list[1] BY <2>1, <2>2, RemoveDisarms
  <2>5. Armed' = Armed \ {list[1]} /\ list[1] \in Armed BY <2>2, <2>4 DEF Armed
  <2>6. Due' = Due /\ Due[list[1]] = 0 BY <1>0, <2>2, <2>3, <2>4 DEF Due
  <2>7. Abs!Fire(list[1]) BY <2>5, <2>6 DEF Abs!Fire, Armed, Due
  <2> QED BY <2>2, <2>7 DEF Abs!Next
<1> QED BY <1>1, <1>2, <1>3, <1>4, <1>5, <1>6 DEF TimerNext

\* add_timer, del_timer and run_timer_list implement module Timers: whatever the
\* timers and timeouts, each timer fires at exactly the tick it was armed for.
THEOREM TimerListImplementsTimers == TimerSpec => ImplementsTimers
<1>1. TimerInit => Abs!Init
  BY DEF TimerInit, Abs!Init, Linked
<1> QED BY <1>1, Inductive, StepSimulation, PTL DEF TimerSpec, ImplementsTimers, Abs!Spec

=============================================================================
