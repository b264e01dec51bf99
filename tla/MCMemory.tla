------------------------------ MODULE MCMemory -------------------------------
(***************************************************************************)
(* Models of modules Vm, Vma, RbTree, Buddy and Malloc for TLC.  The part   *)
(* that moves is chosen at the beginning; the variables of the others stay  *)
(* as they are.                                                             *)
(***************************************************************************)
EXTENDS Integers, Sequences, TLC

CONSTANTS Proc, Third, Mm, Single, NoMm, Page, Entry, Val, Forget,
          s1, MaxKey, MAX_ORDER, MaxAddr, PageUnits, MaxUnits

VARIABLES part, pte, mapped, sh, page, mem_map, slot, proc, cpu, kswapd, pressure, mem,
          mm, shmem, stopped, tree, keys, free_area, held, heap, used

paging == <<pte, mapped, sh, page, mem_map, slot, proc, cpu, kswapd, pressure, mem>>
areas == <<mm, shmem, stopped>>
rb == <<tree, keys>>
frames == <<free_area, held>>
malloc == <<heap, used>>

\* Two processes with a private page, and three with a page of shared memory.
Own == INSTANCE Vm WITH Private <- {1}, Shared <- {}
Common == INSTANCE Vm WITH Proc <- Proc \cup {Third}, Private <- {}, Shared <- {1}

\* One address space of four pages; two of two pages; and two of three pages in which
\* there is nothing but shared memory.
One == INSTANCE Vma WITH Mm <- {Single}, N <- 4, Shm <- {s1}, Kinds <- {"ro"}, BrkStart <- 2
Two == INSTANCE Vma WITH N <- 2, Shm <- {s1}, Kinds <- {"rw"}, BrkStart <- 1
Both == INSTANCE Vma WITH N <- 3, Shm <- {s1}, Kinds <- {}, BrkStart <- 4

\* A zone whose size is no power of two, and a small one.
B == INSTANCE Buddy WITH Size <- <<7, 2>>
R == INSTANCE RbTree
L == INSTANCE Malloc

Init ==
  /\ part \in {"own page", "common page", "one mm", "two mms", "shared", "rb", "frames", "malloc"}
  /\ IF part = "common page" THEN Common!Init ELSE Own!Init
  /\ CASE part = "two mms" -> Two!Init [] part = "shared" -> Both!Init [] OTHER -> One!Init
  /\ R!Init /\ B!Init /\ L!Init

Next ==
  /\ UNCHANGED part
  /\ \/ part = "own page" /\ Own!Next /\ UNCHANGED <<areas, rb, frames, malloc>>
     \/ part = "common page" /\ Common!Next /\ UNCHANGED <<areas, rb, frames, malloc>>
     \/ part = "one mm" /\ One!Next /\ UNCHANGED <<paging, rb, frames, malloc>>
     \/ part = "two mms" /\ Two!Next /\ UNCHANGED <<paging, rb, frames, malloc>>
     \/ part = "shared" /\ Both!Next /\ UNCHANGED <<paging, rb, frames, malloc>>
     \/ part = "rb" /\ R!Next /\ UNCHANGED <<paging, areas, frames, malloc>>
     \/ part = "frames" /\ B!Next /\ UNCHANGED <<paging, areas, rb, malloc>>
     \/ part = "malloc" /\ L!Next /\ UNCHANGED <<paging, areas, rb, frames>>

Spec == Init /\ [][Next]_<<part, paging, areas, rb, frames, malloc>>

MCSymmetry == Permutations(Proc) \cup Permutations(Mm) \cup Permutations(Page)
              \cup Permutations(Val)
-----------------------------------------------------------------------------
\* Vm: the counters of frames and of swap entries are exact.
RefsExact ==
  (part = "own page" => Own!RefsExact) /\ (part = "common page" => Common!RefsExact)

\* Vm: a process reads what was written last.
MemoryKept ==
  (part = "own page" => Own!MemoryKept) /\ (part = "common page" => Common!MemoryKept)

\* Vm: whoever waits for memory has called kswapd.
WaiterServed ==
  (part = "own page" => Own!WaiterServed) /\ (part = "common page" => Common!WaiterServed)

\* Vma: areas do not overlap, mmap_cache is one of them, room for a new area is found,
\* and the references of shared memory are exact.
AreasSound ==
  /\ part = "one mm" => One!AreasSound
  /\ part = "two mms" => Two!AreasSound
  /\ part = "shared" => Both!AreasSound

\* Vma: each call changes what backs the pages of its range and nothing else, but for
\* the pages below a hole in shared memory.  This is Space!Spec for the instance that
\* moves.
ImplementsAddrSpace ==
  /\ part = "one mm" => One!Space!Init
  /\ part = "two mms" => Two!Space!Init
  /\ part = "shared" => Both!Space!Init
  /\ [][part = "one mm" => One!Space!Next]_(One!Mapping)
  /\ [][part = "two mms" => Two!Space!Next]_(Two!Mapping)
  /\ [][part = "shared" => Both!Space!Next]_(Both!Mapping)

\* RbTree: the tree is a balanced search tree of the nodes that belong to it.
TreeSound == R!TreeSound

\* Buddy: every page is in one place, and free buddies are joined.
PagesOwned == B!PagesOwned

\* Malloc: blocks do not overlap and are all the memory, and free neighbours are joined.
MemoryOwned == L!MemoryOwned
=============================================================================
