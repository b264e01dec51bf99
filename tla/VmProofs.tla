------------------------------- MODULE VmProofs ------------------------------
(***************************************************************************)
(* Proof about waiting for memory (module Vm) for any number of processes,  *)
(* address spaces, pages and swap entries.                                  *)
(***************************************************************************)
EXTENDS Vm, FiniteSetTheorems, TLAPS

Fields == {"mm", "pc", "va", "write", "newpage", "asleep", "child", "todo"}

\* WaiterServed, with what try_free_pages and kswapd_main need: the pressure is a
\* number.
IInv ==
  /\ DOMAIN proc = Proc /\ \A p \in Proc : DOMAIN proc[p] = Fields
  /\ pressure \in Nat
  /\ WaiterServed

\* What every step does except the two that deal with waiting.
Keeps ==
  /\ DOMAIN proc' = Proc /\ \A p \in Proc : DOMAIN proc'[p] = Fields
  /\ \A p \in Proc : proc'[p].asleep => proc[p].asleep
  /\ kswapd' \in {kswapd, "ready"}
  /\ pressure' = pressure

LEMMA KeepsIInv == ASSUME IInv, Keeps PROVE IInv'
BY DEF IInv, Keeps, WaiterServed

LEMMA UserFields ==
  ASSUME NEW m
  PROVE  DOMAIN User(m) = Fields /\ User(m).asleep = FALSE
BY DEF User, Fields

LEMMA InitIInv == Init => IInv
<1> SUFFICES ASSUME Init PROVE IInv OBVIOUS
<1>1. PICK q \in Proc, m \in Mm : proc = [p \in Proc |-> User(IF p = q THEN m ELSE NoMm)]
  BY DEF Init
<1>2. DOMAIN proc = Proc /\ \A p \in Proc : DOMAIN proc[p] = Fields /\ proc[p].asleep = FALSE
  BY Zenon, <1>1, UserFields
<1>3. pressure = 0 BY DEF Init
<1> QED BY <1>2, <1>3 DEF IInv, WaiterServed
-----------------------------------------------------------------------------
\* The ends of the steps of a fault.
LEMMA ReturnKeeps == ASSUME IInv, NEW p \in Proc, NEW k, Return(p, k) PROVE Keeps
BY DEF IInv, Return, Keeps, Fields

LEMMA GotoKeeps ==
  ASSUME IInv, NEW p \in Proc, NEW k, NEW pc, NEW n, Goto(p, k, pc, n)
  PROVE  Keeps
BY DEF IInv, Goto, Keeps, Fields

LEMMA FinishKeeps ==
  ASSUME IInv, NEW p \in Proc, NEW k, NEW g, NEW n, Finish(p, k, g, n)
  PROVE  Keeps
<1>1. \E j : Return(p, j) BY Zenon DEF Finish
<1> QED BY <1>1, ReturnKeeps

LEMMA SwapInKeeps ==
  ASSUME IInv, NEW p \in Proc, NEW k, NEW n, SwapIn(p, k, n)
  PROVE  Keeps
<1>1. Goto(p, k, "in", n) \/ \E g : Finish(p, k, g, n) BY DEF SwapIn
<1> QED BY <1>1, GotoKeeps, FinishKeeps

LEMMA HandleKeeps ==
  ASSUME IInv, NEW p \in Proc, NEW v, NEW w, Handle(p, v, w), UNCHANGED <<kswapd, pressure>>
  PROVE  Keeps
<1>1. \/ UNCHANGED proc
      \/ \E pc : proc' = [proc EXCEPT ![p] = [@ EXCEPT !.pc = pc, !.va = v, !.write = w]]
  BY Zenon DEF Handle
<1> QED BY <1>1 DEF IInv, Keeps, Fields

LEMMA FaultKeeps ==
  ASSUME IInv, NEW p \in Proc, FaultLocked(p) \/ \E v \in Va, w \in BOOLEAN : Fault(p, v, w)
  PROVE  Keeps
<1>1. CASE \E v, w : Handle(p, v, w) /\ UNCHANGED <<kswapd, pressure>> BY <1>1, HandleKeeps
<1>2. CASE /\ \E v, w : proc' = [proc EXCEPT ![p] = [@ EXCEPT !.pc = "lock", !.va = v, !.write = w]]
           /\ UNCHANGED <<kswapd, pressure>>
  BY <1>2 DEF IInv, Keeps, Fields
<1>3. CASE FaultLocked(p) BY Zenon, <1>1, <1>3 DEF FaultLocked
<1>4. ASSUME NEW v \in Va, NEW w \in BOOLEAN, Fault(p, v, w) PROVE Keeps
  BY Zenon, <1>1, <1>2, <1>4 DEF Fault
<1> QED BY <1>3, <1>4

LEMMA FaultSharedKeeps == ASSUME IInv, NEW p \in Proc, FaultShared(p) PROVE Keeps
<1>1. \/ SwapIn(p, State, 0)
      \/ Goto(p, State, "shm", 0)
      \/ \E k : Return(p, k)
      \/ UNCHANGED <<proc, kswapd, pressure>>
  BY Zenon DEF FaultShared
<1>2. CASE UNCHANGED <<proc, kswapd, pressure>> BY <1>2 DEF IInv, Keeps
<1> QED BY <1>1, <1>2, SwapInKeeps, GotoKeeps, ReturnKeeps

LEMMA AllocatedKeeps ==
  ASSUME IInv, NEW p \in Proc, NEW g \in Page, Allocated(p, g)
  PROVE  Keeps
<1>1. \/ \E k : Return(p, k)
      \/ \E k, h, n : Finish(p, k, h, n)
      \/ \E k, n : SwapIn(p, k, n)
  BY Zenon DEF Allocated
<1> QED BY <1>1, ReturnKeeps, FinishKeeps, SwapInKeeps
-----------------------------------------------------------------------------
\* A round of kswapd that leaves pressure goes on; else it wakes all who wait.
LEMMA KswapdIInv ==
  ASSUME IsFiniteSet(Page), IInv, NEW out, kswapd_main(out)
  PROVE  IInv'
<1> DEFINE j == FoldSet(LAMBDA x, i : swap_out(i, x), State, out)
           k == page_launder(j)
           n == Cardinality(FreePages(k) \ FreePages(j))
<1>1. n \in Nat
  <2>1. FreePages(k) \ FreePages(j) \subseteq Page BY Zenon DEF FreePages
  <2>2. IsFiniteSet(FreePages(k) \ FreePages(j)) BY Zenon, <2>1, FS_Subset
  <2> QED BY Zenon, <2>2, FS_CardinalityType
<1>2. IF pressure - n > 0
      THEN pressure' = pressure - n /\ UNCHANGED <<kswapd, proc>>
      ELSE /\ pressure' = 0
           /\ proc' = [p \in Proc |-> [proc[p] EXCEPT !.asleep = FALSE]]
  BY Zenon DEF kswapd_main
<1> HIDE DEF n
<1>3. CASE pressure - n > 0
  BY <1>1, <1>2, <1>3 DEF IInv, WaiterServed
<1>4. CASE ~(pressure - n > 0)
  <2>1. /\ DOMAIN proc' = Proc
        /\ \A p \in Proc : DOMAIN proc'[p] = Fields /\ proc'[p].asleep = FALSE
    BY <1>2, <1>4 DEF IInv, Fields
  <2> QED BY <1>2, <1>4, <2>1 DEF IInv, WaiterServed
<1> QED BY <1>3, <1>4

LEMMA TryFreeIInv == ASSUME IInv, NEW p \in Proc, try_free_pages(p) PROVE IInv'
<1>1. DOMAIN proc' = Proc /\ \A q \in Proc : DOMAIN proc'[q] = Fields
  BY DEF try_free_pages, IInv
<1>2. pressure' = pressure + 1 /\ kswapd' = "ready" BY DEF try_free_pages
<1> QED BY <1>1, <1>2 DEF IInv, WaiterServed

LEMMA NextIInv == ASSUME IsFiniteSet(Page), IInv, [Next]_vars PROVE IInv'
<1>1. CASE \E out \in SUBSET Resident : kswapd_main(out) BY <1>1, KswapdIInv
<1>2. ASSUME NEW p \in Proc, try_free_pages(p) PROVE IInv' BY <1>2, TryFreeIInv
<1>3. CASE UNCHANGED vars BY <1>3 DEF IInv, WaiterServed, vars
<1>4. CASE KswapdTimer BY <1>4, KeepsIInv DEF KswapdTimer, Keeps, IInv
<1>5. ASSUME NEW p \in Proc, NEW g \in Page, Allocated(p, g) PROVE IInv'
  BY <1>5, AllocatedKeeps, KeepsIInv
<1>6. ASSUME NEW p \in Proc,
             \/ FaultShared(p) \/ FaultLocked(p)
             \/ \E v \in Va, w \in BOOLEAN : Fault(p, v, w)
      PROVE IInv'
  BY <1>6, FaultSharedKeeps, FaultKeeps, KeepsIInv
<1>7. ASSUME NEW p \in Proc, NEW v \in Va,
             mm_unmap(p, v) \/ mm_map(p, v)
      PROVE IInv'
  <2>1. Keeps BY Zenon, <1>7 DEF mm_unmap, mm_map, Keeps, IInv
  <2> QED BY <2>1, KeepsIInv
<1>8. ASSUME NEW p \in Proc, NEW v \in Va, Read(p, v) \/ \E x \in Val : Write(p, v, x)
      PROVE IInv'
  <2>1. /\ proc' = [proc EXCEPT ![p] = User(proc[p].mm)]
        /\ UNCHANGED <<kswapd, pressure>>
    BY Zenon, <1>8 DEF Read, Write
  <2> QED BY Zenon, <2>1, UserFields, KeepsIInv DEF Keeps, IInv
<1>9. ASSUME NEW p \in Proc, NEW c \in Proc, Clone(p, c) \/ Forked(p, c) PROVE IInv'
  <2>1. /\ \E m : \/ proc' = [proc EXCEPT ![c] = User(m)]
                  \/ proc' = [proc EXCEPT ![p] = User(proc[p].mm), ![c] = User(m)]
        /\ UNCHANGED <<kswapd, pressure>>
    BY <1>9 DEF Clone, Forked
  <2>2. Keeps BY Zenon, <2>1, UserFields DEF Keeps, IInv
  <2> QED BY <2>2, KeepsIInv
<1>10. ASSUME NEW p \in Proc, Exit(p) PROVE IInv'
  <2>1. Keeps BY Zenon, <1>10, UserFields DEF Exit, Keeps, IInv
  <2> QED BY <2>1, KeepsIInv
<1>11. ASSUME NEW p \in Proc, dup_mmap(p) \/ \E m \in Mm : Fork(p, m) PROVE IInv'
  <2>1. Keeps BY Zenon, <1>11 DEF dup_mmap, Fork, Keeps, IInv, Fields
  <2> QED BY <2>1, KeepsIInv
<1> QED BY <1>1, <1>2, <1>3, <1>4, <1>5, <1>6, <1>7, <1>8, <1>9, <1>10, <1>11 DEF Next

\* Whoever sleeps in try_free_pages has a kswapd that is awake and has pressure to
\* serve, however rounds of kswapd, its timer and other faults interleave: no wakeup
\* is lost.
THEOREM WaitersAlwaysServed ==
  ASSUME IsFiniteSet(Page)
  PROVE  Spec => []WaiterServed
<1>1. IInv /\ [Next]_vars => IInv' BY NextIInv
<1>2. IInv => WaiterServed BY DEF IInv
<1> QED BY InitIInv, <1>1, <1>2, PTL DEF Spec
=============================================================================
