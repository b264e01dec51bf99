--------------------------------- MODULE Vma ---------------------------------
(***************************************************************************)
(* The areas of an address space (vma_struct, mm_struct of mm/vmm.c) and    *)
(* the system calls on them (do_mmap, do_munmap, do_shmem, do_brk, copy_mm, *)
(* __do_exit of process/proc.c).                                            *)
(*                                                                         *)
(* A call holds the lock of its mm from beginning to end, so it is one step *)
(* here.  Addresses are page numbers, user space is 1 .. N.  The red-black  *)
(* tree, which an mm with many areas has besides its list, is left out.     *)
(***************************************************************************)
EXTENDS Integers, FiniteSets

CONSTANTS Mm, Shm, N, Kinds,
          BrkStart           \* mm->brk_start

VARIABLES mm,         \* of each mm: its areas, mmap_cache, brk, and whether it exists
          shmem,      \* the references of each shmem_struct; 0 if it does not exist
          stopped     \* whether the kernel has used a shmem_struct at NULL

vars == <<mm, shmem, stopped>>

USERBASE == 1
USERTOP == N + 1
None == [lo |-> 0, hi |-> 0, back |-> "none", off |-> 0]
Area(lo, hi, back, off) == [lo |-> lo, hi |-> hi, back |-> back, off |-> off]
NewMm == [live |-> FALSE, areas |-> {}, cache |-> None, brk |-> BrkStart]

Init ==
  /\ \E m \in Mm : mm = [n \in Mm |-> [NewMm EXCEPT !.live = (n = m)]]
  /\ shmem = [s \in Shm |-> 0]
  /\ stopped = FALSE
-----------------------------------------------------------------------------
\* find_vma: the area with a, or the next one after it; it is cached.
Lookup(r, a) ==
  LET later == {x \in r.areas : a < x.hi} IN
    IF r.cache # None /\ r.cache.lo <= a /\ a < r.cache.hi THEN r.cache
    ELSE IF later = {} THEN None ELSE CHOOSE x \in later : \A y \in later : x.lo <= y.lo

find_vma(r, a) == [r EXCEPT !.cache = IF Lookup(r, a) = None THEN @ ELSE Lookup(r, a)]

\* find_vma_intersection
Intersects(r, lo, hi) == Lookup(r, lo) # None /\ Lookup(r, lo).lo < hi

\* Mutant: the offset into the shared memory stays.
vma_resize_still(x, lo, hi) == [x EXCEPT !.lo = lo, !.hi = hi]

\* vma_resize
vma_resize(x, lo, hi) ==
  [x EXCEPT !.lo = lo, !.hi = hi, !.off = IF x.back \in Shm THEN @ + lo - x.lo ELSE @]

\* Mutant: mmap_cache stays.
remove_vma_struct_cached(r, X) == [r EXCEPT !.areas = @ \ X]

\* remove_vma_struct, of a set of areas
remove_vma_struct(r, X) ==
  [r EXCEPT !.areas = @ \ X, !.cache = IF @ \in X THEN None ELSE @]

\* vma_destroy, of a set of areas
vma_destroy(sh, X) == [s \in Shm |-> sh[s] - Cardinality({x \in X : x.back = s})]

\* mm_unmap: a hole in one area, or all areas from the first one that is hit.
Holed(r, lo, hi) == LET x == Lookup(r, lo) IN x # None /\ x.lo < lo /\ hi < x.hi

Hit(r, lo, hi) ==
  LET x == Lookup(r, lo) IN {y \in r.areas : x # None /\ x.lo <= y.lo /\ y.lo < hi}

mm_unmap(r, lo, hi) ==
  LET x == Lookup(r, lo)
      upper == vma_resize(x, hi, x.hi)
      \* nvma has the flags of x, and no shmem
      nvma == Area(x.lo, lo, IF x.back \in Shm THEN "null" ELSE x.back, 0)
      gone == Hit(r, lo, hi)
      cut == {vma_resize(y, y.lo, lo) : y \in {y \in gone : y.lo < lo}}
             \cup {vma_resize(y, hi, y.hi) : y \in {y \in gone : lo <= y.lo /\ hi < y.hi}}
  IN IF x = None \/ hi <= x.lo THEN find_vma(r, lo)
     ELSE IF Holed(r, lo, hi)
     THEN [r EXCEPT !.areas = (@ \ {x}) \cup {upper, nvma}, !.cache = upper]
     ELSE [remove_vma_struct(find_vma(r, lo), gone) EXCEPT !.areas = @ \cup cut]

Destroyed(r, lo, hi) ==
  IF Holed(r, lo, hi) THEN {} ELSE {y \in Hit(r, lo, hi) : lo <= y.lo /\ y.hi <= hi}

\* mm_brk
mm_brk(r, lo, hi) ==
  LET u == mm_unmap(r, lo, hi)
      x == Lookup(u, lo - 1)
      f == find_vma(u, lo - 1)
  IN IF x # None /\ x.hi = lo /\ x.back = "rw"
     THEN [f EXCEPT !.areas = (@ \ {x}) \cup {[x EXCEPT !.hi = hi]}, !.cache = [x EXCEPT !.hi = hi]]
     ELSE [f EXCEPT !.areas = @ \cup {Area(lo, hi, "rw", 0)}]

\* get_unmapped_area: below the areas, from the last one to the first; 0 if there is
\* no room.
get_unmapped_area(r, len) ==
  LET walk[start \in 0 .. USERTOP, X \in SUBSET r.areas] ==
        IF X = {} THEN IF start >= USERBASE THEN start ELSE 0
        ELSE LET x == CHOOSE x \in X : \A y \in X : y.lo <= x.lo IN
             IF start >= x.hi THEN start
             ELSE IF start + len <= x.lo THEN walk[start, X \ {x}]
             ELSE IF len >= x.lo THEN 0
             ELSE walk[x.lo - len, X \ {x}]
  IN walk[USERTOP - len, r.areas]
-----------------------------------------------------------------------------
\* The addresses that USER_ACCESS lets pass.  Those of a call with addr = 0 are the
\* ones that get_unmapped_area finds, see RoomFound.
Ranges == {x \in (USERBASE .. N) \X (USERBASE + 1 .. USERTOP) : x[1] < x[2]}

\* mm_map refuses a range in which there is an area.
CanMap(m, lo, hi) == mm[m].live /\ ~Intersects(mm[m], lo, hi)

\* The lower part of a shared area that mm_unmap has split has no shmem_struct.
NullIn(X) == \E x \in X : x.back = "null"
Stop == stopped' = TRUE /\ UNCHANGED <<mm, shmem>>

\* do_mmap
do_mmap(m, lo, hi, kind) ==
  /\ CanMap(m, lo, hi)
  /\ mm' = [mm EXCEPT ![m] = [find_vma(mm[m], lo) EXCEPT !.areas = @ \cup {Area(lo, hi, kind, 0)}]]
  /\ UNCHANGED <<shmem, stopped>>

\* do_shmem
do_shmem(m, lo, hi, s) ==
  /\ CanMap(m, lo, hi) /\ shmem[s] = 0
  /\ mm' = [mm EXCEPT ![m] = [find_vma(mm[m], lo) EXCEPT !.areas = @ \cup {Area(lo, hi, s, 0)}]]
  /\ shmem' = [shmem EXCEPT ![s] = 1]
  /\ UNCHANGED stopped

\* mm_unmap, after which r is the mm; vma_destroy stops the kernel for a shared area
\* that has no shmem_struct.
Unmap(m, lo, hi, r) ==
  LET gone == Destroyed(mm[m], lo, hi) IN
    IF NullIn(gone) THEN Stop
    ELSE mm' = [mm EXCEPT ![m] = r] /\ shmem' = vma_destroy(shmem, gone) /\ UNCHANGED stopped

\* do_munmap
do_munmap(m, lo, hi) == mm[m].live /\ Unmap(m, lo, hi, mm_unmap(mm[m], lo, hi))

\* do_brk
do_brk(m, newbrk) ==
  LET r == mm[m] IN
    /\ r.live /\ newbrk # r.brk
    /\ \/ /\ newbrk < r.brk
          /\ Unmap(m, newbrk, r.brk, [mm_unmap(r, newbrk, r.brk) EXCEPT !.brk = newbrk])
       \/ /\ newbrk > r.brk /\ ~Intersects(r, r.brk, newbrk + 1)
          /\ mm' = [mm EXCEPT ![m] = [mm_brk(r, r.brk, newbrk) EXCEPT !.brk = newbrk]]
          /\ UNCHANGED <<shmem, stopped>>

\* A look at address a: do_pgfault, user_mem_check and kswapd.
Touch(m, a) ==
  /\ mm[m].live
  /\ mm' = [mm EXCEPT ![m] = find_vma(@, a)]
  /\ UNCHANGED <<shmem, stopped>>

\* do_pgfault or kswapd at an address whose shmem_struct is missing
TouchNull(m, a) ==
  /\ mm[m].live /\ NullIn({x \in mm[m].areas : x.lo <= a /\ a < x.hi})
  /\ Stop

\* copy_mm: dup_mmap gives the new mm n an area for each one.
dup_mmap(m, n) ==
  /\ mm[m].live /\ ~mm[n].live
  /\ IF NullIn(mm[m].areas) THEN Stop
     ELSE /\ mm' = [mm EXCEPT ![n] = [NewMm EXCEPT !.live = TRUE, !.areas = mm[m].areas,
                                                   !.brk = mm[m].brk]]
          /\ shmem' = [s \in Shm |-> shmem[s] + Cardinality({x \in mm[m].areas : x.back = s})]
          /\ UNCHANGED stopped

\* The last process of an mm exits: mm_destroy
mm_destroy(m) ==
  /\ mm[m].live /\ \E n \in Mm \ {m} : mm[n].live
  /\ IF NullIn(mm[m].areas) THEN Stop
     ELSE /\ mm' = [mm EXCEPT ![m] = NewMm]
          /\ shmem' = vma_destroy(shmem, mm[m].areas)
          /\ UNCHANGED stopped

Next ==
  /\ ~stopped
  /\ \E m \in Mm :
       \/ \E x \in Ranges :
            \/ do_munmap(m, x[1], x[2])
            \/ \E kind \in Kinds : do_mmap(m, x[1], x[2], kind)
            \/ \E s \in Shm : do_shmem(m, x[1], x[2], s)
       \/ \E b \in BrkStart .. USERTOP : do_brk(m, b)
       \/ \E a \in USERBASE .. N : Touch(m, a) \/ TouchNull(m, a)
       \/ \E n \in Mm : dup_mmap(m, n)
       \/ mm_destroy(m)

Spec == Init /\ [][Next]_vars
-----------------------------------------------------------------------------
\* The assertions of check_vma_overlap for every pair of areas; mmap_cache is an area
\* of its mm, so no call goes on with a freed vma_struct.
AreasDisjoint ==
  \A m \in Mm :
    /\ \A x \in mm[m].areas : USERBASE <= x.lo /\ x.lo < x.hi /\ x.hi <= USERTOP
    /\ \A x, y \in mm[m].areas : x = y \/ x.hi <= y.lo \/ y.hi <= x.lo
    /\ mm[m].cache \in mm[m].areas \cup {None}

\* get_unmapped_area finds the highest range of its length in which there is no area,
\* so the mm_map after it does not fail.
RoomFound(m, len) ==
  LET room == {a \in USERBASE .. USERTOP - len : ~Intersects(mm[m], a, a + len)} IN
    IF room = {} THEN get_unmapped_area(mm[m], len) = 0
    ELSE /\ get_unmapped_area(mm[m], len) \in room
         /\ \A a \in room : a <= get_unmapped_area(mm[m], len)

\* Areas do not overlap; room for a new one is found when there is any; the references
\* of shared memory are its areas, so it lives exactly as long as one of them.
AreasSound ==
  /\ AreasDisjoint
  /\ \A m \in Mm, len \in 1 .. N : RoomFound(m, len)
  /\ \A s \in Shm : shmem[s] = Cardinality({x \in Mm \X UNION {mm[m].areas : m \in Mm} :
                                               x[2] \in mm[x[1]].areas /\ x[2].back = s})

\* What backs a page.
Backing(m, i) ==
  LET X == {x \in mm[m].areas : x.lo <= i /\ i < x.hi}
      x == CHOOSE x \in X : TRUE
  IN [of |-> IF X = {} THEN "none" ELSE x.back,
      at |-> IF X # {} /\ x.back \in Shm THEN x.off + i - x.lo ELSE 0]

Mapping == [m \in Mm |-> [i \in 1 .. N |-> Backing(m, i)]]

Space == INSTANCE AddrSpace WITH space <- Mapping, Kinds <- Kinds \cup {"rw"}

\* Through all the cutting, joining and copying of areas, each call changes what backs
\* the pages of its range and nothing else, and new shared memory is nobody else's;
\* except that a hole in shared memory takes away what backs the pages below the hole.
ImplementsAddrSpace == Space!Spec
=============================================================================
