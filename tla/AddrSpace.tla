----------------------------- MODULE AddrSpace -------------------------------
(***************************************************************************)
(* What mmap, munmap, shmem, brk, fork and exit promise: an address space   *)
(* says of each page what backs it, and a call changes the pages of its     *)
(* range and no others.  The exception is a hole in the middle of shared    *)
(* memory: the pages below it stay mapped, but nothing backs them ("null"). *)
(***************************************************************************)
EXTENDS Integers

CONSTANTS Mm, Shm, N,         \* N: the pages of user space
          Kinds                \* the protections of private memory

VARIABLE space        \* of each mm and page: what it belongs to ("none", a kind, "null"
                      \* or shared memory), and which page of the shared memory it is

Pages == 1 .. N
Of(x, i) == [of |-> x, at |-> i]
Nowhere == [i \in Pages |-> Of("none", 0)]
Init == space = [m \in Mm |-> Nowhere]

\* The pages lo .. hi - 1 of m become x(i), and the others stay.
Set(m, lo, hi, x(_)) ==
  \A n \in Mm, i \in Pages :
    space'[n][i] = IF n = m /\ lo <= i /\ i < hi THEN x(i) ELSE space[n][i]

Vacant(m, lo, hi) == \A i \in Pages : lo <= i /\ i < hi => space[m][i].of = "none"
Unused(s) == \A m \in Mm, i \in Pages : space[m][i].of # s

Map(m, lo, hi, kind) == Vacant(m, lo, hi) /\ Set(m, lo, hi, LAMBDA i : Of(kind, 0))
MapShared(m, lo, hi, s) ==
  Vacant(m, lo, hi) /\ Unused(s) /\ Set(m, lo, hi, LAMBDA i : Of(s, i - lo))
Unmap(m, lo, hi) == Set(m, lo, hi, LAMBDA i : Of("none", 0))

\* The pages lo .. hi - 1 in the middle of shared memory that begins at first.
Split(m, first, lo, hi) ==
  /\ \E s \in Shm :
       /\ \A i \in first .. hi : space[m][i] = Of(s, space[m][first].at + i - first)
       /\ first > 1 => space[m][first - 1].of # s
  /\ \A n \in Mm, i \in Pages :
       space'[n][i] = IF n # m \/ i < first \/ hi <= i THEN space[n][i]
                      ELSE Of(IF i < lo THEN "null" ELSE "none", 0)

Fork(m, n) == Vacant(n, 1, N + 1) /\ \A l \in Mm, i \in Pages :
                space'[l][i] = IF l = n THEN space[m][i] ELSE space[l][i]

Next ==
  \E m \in Mm :
    \/ \E n \in Mm : Fork(m, n)
    \/ \E lo \in Pages : \E hi \in lo + 1 .. N + 1 :
         \/ \E kind \in Kinds : Map(m, lo, hi, kind)
         \/ \E s \in Shm : MapShared(m, lo, hi, s)
         \/ Unmap(m, lo, hi)
         \/ hi <= N /\ \E first \in 1 .. lo - 1 : Split(m, first, lo, hi)

Spec == Init /\ [][Next]_space
=============================================================================
