--------------------------------- MODULE Vm ----------------------------------
(***************************************************************************)
(* Pages of user memory: first touch, copy on write, fork, shared memory    *)
(* and swapping (do_pgfault of mm/vmm.c, mm/swap.c, mm/shmem.c and the page *)
(* tables of glue-ucore/pmm.c).                                             *)
(*                                                                         *)
(* The kernel is not preempted, and a process that runs in it gives the     *)
(* processor away only when alloc_page finds no page: cpu is the process in *)
(* the kernel that has not slept since, or "none".  Until kswapd wakes it,  *)
(* the sleeper keeps the lock of its mm; kswapd does not take that lock.    *)
(* Bits of user memory are not told apart: a page holds one value.  The     *)
(* frames of page tables and of the kernel's own data are not in Page.      *)
(***************************************************************************)
EXTENDS Integers, FiniteSets, FiniteSetsExt

CONSTANTS Proc, Mm, NoMm,
          Private, Shared,     \* the pages of an address space: areas of one page each
          Page,                \* the page frames
          Entry,               \* the offsets of the swap space
          Val,
          Forget               \* whether MemoryKept leaves out a lost dirty bit, see Finish

VARIABLES pte,         \* the page table of each mm
          mapped,      \* the pages of each mm that are in an area
          sh,          \* the entries of the shmem_struct of each shared page
          page,        \* the struct Page of each frame, and what it holds
          mem_map, slot,       \* of each swap entry: its references, what the disk holds
          proc,        \* the processes, see User
          cpu,
          kswapd,      \* "asleep" in do_sleep, or "ready"
          pressure,
          mem          \* history: what was written last to each page, or Unknown

vars == <<pte, mapped, sh, page, mem_map, slot, proc, cpu, kswapd, pressure, mem>>

Va == Private \cup Shared
SWAP_UNUSED == -1
Unknown == 0
FreeFrame == [free |-> TRUE, ref |-> 0, entry |-> 0, active |-> FALSE, dirty |-> FALSE, data |-> Unknown]

\* A page table entry: invalid, present (frame at, writable, dirty) or a swap entry.
Invalid == [kind |-> "none", at |-> 0, w |-> FALSE, d |-> FALSE]
Present(g, w, d) == [kind |-> "page", at |-> g, w |-> w, d |-> d]
Swapped(e) == [kind |-> "swap", at |-> e, w |-> FALSE, d |-> FALSE]

\* A process in user mode, with an access to va to repeat after a fault if va # 0.
\* Else pc is where its fault waits for the lock ("lock"), or its fault or fork for a
\* page.
User(m) == [mm |-> m, pc |-> "user", va |-> 0, write |-> FALSE, newpage |-> 0,
            asleep |-> FALSE, child |-> NoMm, todo |-> {}]

Init ==
  /\ \E p \in Proc, m \in Mm :
       /\ proc = [q \in Proc |-> User(IF q = p THEN m ELSE NoMm)]
       /\ mapped = [n \in Mm |-> IF n = m THEN Va ELSE {}]
  /\ pte = [m \in Mm |-> [v \in Va |-> Invalid]]
  /\ sh = [v \in Shared |-> Invalid]
  /\ page = [g \in Page |-> FreeFrame]
  /\ mem_map = [e \in Entry |-> SWAP_UNUSED] /\ slot = [e \in Entry |-> Unknown]
  /\ cpu = "none" /\ kswapd = "asleep" /\ pressure = 0
  /\ mem = [m \in Mm \cup {NoMm} |-> [v \in Va |-> Unknown]]
-----------------------------------------------------------------------------
\* The part of the state that the operations below work on, as a record.
State == [pte |-> pte, sh |-> sh, page |-> page, mem_map |-> mem_map, slot |-> slot]
Store(k) == /\ pte' = k.pte /\ sh' = k.sh /\ page' = k.page
            /\ mem_map' = k.mem_map /\ slot' = k.slot

FreePages(k) == {g \in Page : k.page[g].free}
Freed(k, G) == [k EXCEPT !.page = [g \in Page |-> IF g \in G THEN FreeFrame ELSE @[g]]]

\* alloc_page, when there is one; its flags were cleared when it was freed.
Taken(k, g) == [k EXCEPT !.page[g].free = FALSE]

\* swap_hash_find: the frame with the entry, as a set.
swap_hash_find(k, e) == {g \in Page : k.page[g].entry = e}

\* Mutant: the entry is given up also when a frame in use has it.
swap_remove_entry_now(k, e) ==
  LET G == swap_hash_find(k, e) IN
    IF k.mem_map[e] > 1 THEN [k EXCEPT !.mem_map[e] = @ - 1]
    ELSE [Freed(k, {g \in G : k.page[g].ref = 0}) EXCEPT !.mem_map[e] = SWAP_UNUSED, !.slot[e] = Unknown]

\* swap_remove_entry
swap_remove_entry(k, e) ==
  LET G == swap_hash_find(k, e) IN
    IF k.mem_map[e] > 1 \/ \E g \in G : k.page[g].ref # 0
    THEN [k EXCEPT !.mem_map[e] = @ - 1]
    ELSE [Freed(k, G) EXCEPT !.mem_map[e] = SWAP_UNUSED, !.slot[e] = Unknown]

\* Mutant: the dirty bit of the entry is not passed on to the frame.
DropClean(k, x) ==
  IF x.kind = "none" THEN k
  ELSE IF x.kind = "swap" THEN swap_remove_entry(k, x.at)
  ELSE IF k.page[x.at].entry = 0 /\ k.page[x.at].ref = 1 THEN Freed(k, {x.at})
  ELSE [k EXCEPT !.page[x.at].ref = @ - 1]

\* page_remove_pte and shmem_remove_entry_pte on the entry x.
Drop(k, x) ==
  IF x.kind = "none" THEN k
  ELSE IF x.kind = "swap" THEN swap_remove_entry(k, x.at)
  ELSE IF k.page[x.at].entry = 0 /\ k.page[x.at].ref = 1 THEN Freed(k, {x.at})
  ELSE [k EXCEPT !.page[x.at] = [@ EXCEPT !.ref = @ - 1, !.dirty = @ \/ (k.page[x.at].entry # 0 /\ x.d)]]

\* page_insert of frame g at v.  The entry is written anew, without its dirty bit,
\* also when it held the same frame.
page_insert(k, m, v, g, w) ==
  LET old == k.pte[m][v]
      j == [k EXCEPT !.page[g].ref = @ + 1]
  IN [(IF old.kind = "page" /\ old.at = g THEN k ELSE Drop(j, old)) EXCEPT !.pte[m][v] = Present(g, w, FALSE)]

\* try_alloc_swap_entry: an unused entry, or one that only a page in memory has; such
\* a page loses it.  Which one is taken does not matter; entry 0 stands for none.
try_alloc_swap_entry(k) ==
  LET empty == {e \in Entry : k.mem_map[e] = SWAP_UNUSED}
      zero == {e \in Entry : k.mem_map[e] = 0}
      e == Min(zero)
      G == swap_hash_find(k, e)
      j == [Freed(k, {g \in G : k.page[g].ref = 0}) EXCEPT !.mem_map[e] = SWAP_UNUSED, !.slot[e] = Unknown]
  IN IF empty # {} THEN [k |-> k, entry |-> Min(empty)]
     ELSE IF zero = {} THEN [k |-> k, entry |-> 0]
     ELSE [k |-> [j EXCEPT !.page = [g \in Page |-> IF g \in G /\ ~@[g].free
                                     THEN [@[g] EXCEPT !.entry = 0, !.active = FALSE, !.dirty = FALSE]
                                     ELSE @[g]]],
           entry |-> e]

\* swap_page_add with a new entry, and swap_active_list_add
swap_page_add(k, g) ==
  LET a == try_alloc_swap_entry(k) IN
    IF a.entry = 0 THEN a.k
    ELSE [a.k EXCEPT !.mem_map[a.entry] = 0,
                     !.page[g] = [@ EXCEPT !.entry = a.entry, !.active = TRUE, !.dirty = TRUE]]

\* swap_out_vma on the present entry x = <<m, v>>: it becomes a swap entry, and so
\* does the one of the shared memory when nobody else has the frame.
swap_out(k, x) ==
  LET m == x[1]
      v == x[2]
      old == k.pte[m][v]
      g == old.at
      j == IF k.page[g].entry = 0 THEN swap_page_add(k, g)
           ELSE [k EXCEPT !.page[g].dirty = @ \/ old.d]
      e == j.page[g].entry
      out == [j EXCEPT !.mem_map[e] = @ + 1, !.page[g].ref = @ - 1, !.pte[m][v] = Swapped(e)]
  IN IF e = 0 THEN j
     ELSE IF v \in Shared /\ out.page[g].ref = 1 /\ out.sh[v].kind = "page"
     THEN [Drop(out, out.sh[v]) EXCEPT !.mem_map[e] = @ + 1, !.sh[v] = Swapped(e)]
     ELSE out

\* page_launder on the inactive frame g
Launder(k, g) ==
  LET e == k.page[g].entry IN
    IF k.page[g].ref # 0 THEN [k EXCEPT !.page[g].active = TRUE]
    ELSE IF k.mem_map[e] = 0
    THEN [Freed(k, {g}) EXCEPT !.mem_map[e] = SWAP_UNUSED, !.slot[e] = Unknown]
    ELSE [Freed(k, {g}) EXCEPT !.slot[e] = IF k.page[g].dirty THEN k.page[g].data ELSE @]

page_launder(k) ==
  FoldSet(LAMBDA g, j : Launder(j, g), k, {g \in Page : k.page[g].entry # 0 /\ ~k.page[g].active})

\* refill_inactive_scan
refill_inactive_scan(k) ==
  [k EXCEPT !.page = [g \in Page |-> [@[g] EXCEPT !.active = @ /\ k.page[g].ref # 0]]]
-----------------------------------------------------------------------------
Key(m, v) == IF v \in Shared THEN NoMm ELSE m
Live(m) == \E p \in Proc : proc[p].mm = m

\* mm_sem is held: by the process whose fault or fork is not finished.
Locked(m) == \E p \in Proc : proc[p].mm = m /\ proc[p].pc \notin {"user", "lock"}

\* p runs in user mode, and does not have to repeat an access.
InUser(p) == cpu = "none" /\ proc[p].mm # NoMm /\ proc[p].pc = "user"
Free(p) == InUser(p) /\ proc[p].va = 0

\* It accesses v: anew, or again after a fault.
Accesses(p, v, write) ==
  /\ InUser(p) /\ v \in mapped[proc[p].mm]
  /\ proc[p].va \in {0, v} /\ (proc[p].va = v => proc[p].write = write)

\* lock_shmem is held: by a process that waits for a frame in shmem_get_entry.
ShmemLocked(v) == \E p \in Proc : proc[p].pc = "shm" /\ proc[p].va = v

\* do_pgfault returns, and trap may give the processor to somebody else before the
\* access is repeated.
Return(p, k) ==
  /\ Store(k)
  /\ proc' = [proc EXCEPT ![p] = [@ EXCEPT !.pc = "user", !.newpage = 0]]
  /\ cpu' = "none"
  /\ UNCHANGED <<mapped, kswapd, pressure>>

\* It goes on to the allocation at pc, with newpage n.
Goto(p, k, pc, n) ==
  /\ Store(k)
  /\ proc' = [proc EXCEPT ![p] = [@ EXCEPT !.pc = pc, !.newpage = n, !.asleep = FALSE]]
  /\ cpu' = p
  /\ UNCHANGED <<mapped, kswapd, pressure, mem>>

\* The end of do_pgfault for an entry that is not invalid: g is its frame, newpage n
\* (0 for none) has been allocated if the area is private.
Finish(p, k, g, n) ==
  LET m == proc[p].mm
      v == proc[p].va
      old == k.pte[m][v]
      cow == v \in Private
      may_copy == old.kind = "page" \/ proc[p].write
      refs == k.page[g].ref + (IF k.page[g].entry = 0 THEN 0 ELSE k.mem_map[k.page[g].entry])
      copy == [k EXCEPT !.page[n].data = k.page[g].data]
      spare == IF n = 0 THEN {} ELSE {n}
      forgets == old = Present(g, FALSE, TRUE) /\ k.page[g].entry # 0
  IN IF cow /\ may_copy /\ refs > 1
     THEN Return(p, page_insert(copy, m, v, n, TRUE)) /\ UNCHANGED mem
     ELSE /\ Return(p, Freed(page_insert(k, m, v, g, ~cow \/ may_copy), spare))
          /\ mem' = IF Forget /\ forgets THEN [mem EXCEPT ![m][v] = Unknown] ELSE mem

\* swap_in_page for the entry of p, with newpage n: found in the swap cache, or a
\* frame is needed.
SwapIn(p, k, n) ==
  LET G == swap_hash_find(k, k.pte[proc[p].mm][proc[p].va].at) IN
    IF G = {} THEN Goto(p, k, "in", n) ELSE Finish(p, k, CHOOSE g \in G : TRUE, n)

\* do_pgfault with the lock, up to its first allocation or to lock_shmem.  The kernel
\* stops if the page table allows the access by now.
Handle(p, v, write) ==
  LET m == proc[p].mm
      x == pte[m][v]
      pc == IF v \in Shared THEN "share" ELSE IF x.kind = "none" THEN "new" ELSE "cow"
  IN IF x.kind = "page" /\ ~(write /\ ~x.w /\ v \in Private) THEN cpu' = "assert" /\ UNCHANGED proc
     ELSE /\ proc' = [proc EXCEPT ![p] = [@ EXCEPT !.pc = pc, !.va = v, !.write = write]]
          /\ cpu' = IF v \in Shared /\ x.kind = "none" /\ ShmemLocked(v) THEN "none" ELSE p

\* An access that the page table does not allow.  The fault waits in lock_mm if another
\* thread has the lock, or waits for it.
Fault(p, v, write) ==
  LET m == proc[p].mm
      x == pte[m][v]
      wait == Locked(m) \/ \E q \in Proc : proc[q].mm = m /\ proc[q].pc = "lock"
  IN /\ Accesses(p, v, write)
     /\ x.kind # "page" \/ (write /\ ~x.w)
     /\ IF wait THEN /\ proc' = [proc EXCEPT ![p] = [@ EXCEPT !.pc = "lock", !.va = v, !.write = write]]
                     /\ UNCHANGED cpu
        ELSE Handle(p, v, write)
     /\ UNCHANGED <<pte, mapped, sh, page, mem_map, slot, kswapd, pressure, mem>>

\* lock_mm returns.  If the area is gone the process is killed, see Exit.
FaultLocked(p) ==
  /\ cpu = "none" /\ proc[p].pc = "lock" /\ ~Locked(proc[p].mm)
  /\ proc[p].va \in mapped[proc[p].mm]
  /\ Handle(p, proc[p].va, proc[p].write)
  /\ UNCHANGED <<pte, mapped, sh, page, mem_map, slot, kswapd, pressure, mem>>

\* do_pgfault in a shared area: the frame of the shared memory, or the swapped out one
\* of p.  The kernel stops in swap_duplicate if the former is swapped out.
FaultShared(p) ==
  LET m == proc[p].mm
      v == proc[p].va
  IN /\ cpu \in {"none", p} /\ proc[p].pc = "share"
     /\ \/ pte[m][v].kind = "swap" /\ SwapIn(p, State, 0)
        \/ /\ pte[m][v].kind = "none" /\ ~ShmemLocked(v)
           /\ \/ sh[v].kind = "none" /\ Goto(p, State, "shm", 0)
              \/ /\ sh[v].kind = "page"
                 /\ Return(p, page_insert(State, m, v, sh[v].at, TRUE)) /\ UNCHANGED mem
              \/ /\ sh[v].kind = "swap" /\ cpu' = "panic"
                 /\ UNCHANGED <<pte, mapped, sh, page, mem_map, slot, proc, kswapd, pressure, mem>>

\* The next step of a fault in which alloc_page has found frame g.
Allocated(p, g) ==
  LET k == Taken(State, g)
      m == proc[p].mm
      v == proc[p].va
      x == pte[m][v]
      G == swap_hash_find(k, x.at)
  IN /\ cpu \in {"none", p} /\ ~proc[p].asleep /\ g \in FreePages(State)
     /\ \/ /\ proc[p].pc = "new"
           /\ Return(p, page_insert(k, m, v, g, TRUE)) /\ UNCHANGED mem
        \/ /\ proc[p].pc = "shm"
           /\ Return(p, page_insert([k EXCEPT !.sh[v] = Present(g, FALSE, FALSE), !.page[g].ref = 1],
                                    m, v, g, TRUE))
           /\ UNCHANGED mem
        \/ /\ proc[p].pc = "cow"
           /\ IF x.kind = "page" THEN Finish(p, k, x.at, g) ELSE SwapIn(p, k, g)
        \/ /\ proc[p].pc = "in"
           /\ IF G # {} THEN Finish(p, State, CHOOSE h \in G : TRUE, proc[p].newpage)
              ELSE Finish(p, [k EXCEPT !.page[g] = [@ EXCEPT !.entry = x.at, !.active = TRUE,
                                                             !.data = slot[x.at]]],
                          g, proc[p].newpage)

\* Mutant: kswapd is left to its timer.
try_free_pages_quiet(p) ==
  /\ cpu \in {"none", p} /\ ~proc[p].asleep
  /\ \/ proc[p].pc \in {"new", "shm", "cow", "in"} /\ FreePages(State) = {}
     \/ proc[p].pc = "fork" /\ proc[p].todo # {}
  /\ proc' = [proc EXCEPT ![p].asleep = TRUE]
  /\ pressure' = pressure + 1
  /\ cpu' = "none"
  /\ UNCHANGED <<pte, mapped, sh, page, mem_map, slot, kswapd, mem>>

\* alloc_page finds no page: try_free_pages.  In dup_mmap the memory for an area or a
\* page table may be missing at any time.
try_free_pages(p) ==
  /\ cpu \in {"none", p} /\ ~proc[p].asleep
  /\ \/ proc[p].pc \in {"new", "shm", "cow", "in"} /\ FreePages(State) = {}
     \/ proc[p].pc = "fork" /\ proc[p].todo # {}
  /\ proc' = [proc EXCEPT ![p].asleep = TRUE]
  /\ pressure' = pressure + 1
  /\ kswapd' = "ready"
  /\ cpu' = "none"
  /\ UNCHANGED <<pte, mapped, sh, page, mem_map, slot, mem>>

\* One round of kswapd_main, in which the entries of out are swapped out: the others
\* were accessed of late, or enough was found before.  With pressure left it goes on
\* without giving the processor away.
kswapd_main(out) ==
  LET k == page_launder(FoldSet(LAMBDA x, j : swap_out(j, x), State, out))
      before == FreePages(FoldSet(LAMBDA x, j : swap_out(j, x), State, out))
      left == pressure - Cardinality(FreePages(k) \ before)
  IN /\ cpu = "kswapd" \/ (cpu = "none" /\ kswapd = "ready")
     /\ pressure = 0 => out = {}
     /\ Store(refill_inactive_scan(k))
     /\ IF left > 0
        THEN cpu' = "kswapd" /\ pressure' = left /\ UNCHANGED <<kswapd, proc>>
        ELSE /\ cpu' = "none" /\ pressure' = 0 /\ kswapd' = "asleep"
             /\ proc' = [p \in Proc |-> [proc[p] EXCEPT !.asleep = FALSE]]
     /\ UNCHANGED <<mapped, mem>>

\* The timer of its do_sleep.
KswapdTimer ==
  /\ cpu = "none" /\ kswapd = "asleep" /\ kswapd' = "ready"
  /\ UNCHANGED <<pte, mapped, sh, page, mem_map, slot, proc, cpu, pressure, mem>>
-----------------------------------------------------------------------------
\* The processor stores x; its MMU sets the dirty bit.
Write(p, v, x) ==
  LET m == proc[p].mm IN
    /\ Accesses(p, v, TRUE) /\ pte[m][v].kind = "page" /\ pte[m][v].w
    /\ proc' = [proc EXCEPT ![p] = User(m)]
    /\ pte' = [pte EXCEPT ![m][v].d = TRUE]
    /\ page' = [page EXCEPT ![pte[m][v].at].data = x]
    /\ mem' = [mem EXCEPT ![Key(m, v)][v] = x]
    /\ UNCHANGED <<mapped, sh, mem_map, slot, cpu, kswapd, pressure>>

\* It loads a value.
Read(p, v) ==
  /\ Accesses(p, v, FALSE) /\ proc[p].va = v /\ pte[proc[p].mm][v].kind = "page"
  /\ proc' = [proc EXCEPT ![p] = User(@.mm)]
  /\ UNCHANGED <<pte, mapped, sh, page, mem_map, slot, cpu, kswapd, pressure, mem>>

\* copy_mm with CLONE_VM
Clone(p, c) ==
  /\ Free(p) /\ proc[c].mm = NoMm
  /\ proc' = [proc EXCEPT ![c] = User(proc[p].mm)]
  /\ UNCHANGED <<pte, mapped, sh, page, mem_map, slot, cpu, kswapd, pressure, mem>>

\* copy_mm without it: dup_mmap into the new mm m begins.
Fork(p, m) ==
  /\ Free(p) /\ ~Locked(proc[p].mm) /\ ~Live(m) /\ \A q \in Proc : proc[q].child # m
  /\ \E c \in Proc : proc[c].mm = NoMm
  /\ proc' = [proc EXCEPT ![p] = [@ EXCEPT !.pc = "fork", !.child = m, !.todo = mapped[proc[p].mm]]]
  /\ cpu' = p
  /\ UNCHANGED <<pte, mapped, sh, page, mem_map, slot, kswapd, pressure, mem>>

\* dup_mmap on its next area, and copy_range on the page in it.
dup_mmap(p) ==
  LET v == Max(proc[p].todo)
      m == proc[p].mm
      n == proc[p].child
      x == pte[m][v]
      own == v \in Private
      k == CASE x.kind = "none" -> State
             [] x.kind = "page" ->
                  [page_insert(State, n, v, x.at, IF own THEN FALSE ELSE x.w)
                     EXCEPT !.pte[m][v].w = IF own THEN FALSE ELSE @]
             [] x.kind = "swap" -> [State EXCEPT !.mem_map[x.at] = @ + 1, !.pte[n][v] = x]
  IN /\ proc[p].pc = "fork" /\ proc[p].todo # {} /\ cpu \in {"none", p} /\ ~proc[p].asleep
     /\ Store(k)
     /\ mapped' = [mapped EXCEPT ![n] = @ \cup {v}]
     /\ mem' = IF own THEN [mem EXCEPT ![n][v] = mem[m][v]] ELSE mem
     /\ proc' = [proc EXCEPT ![p].todo = @ \ {v}]
     /\ cpu' = p
     /\ UNCHANGED <<kswapd, pressure>>

Forked(p, c) ==
  /\ proc[p].pc = "fork" /\ proc[p].todo = {} /\ cpu = p /\ proc[c].mm = NoMm
  /\ proc' = [proc EXCEPT ![p] = User(@.mm), ![c] = User(proc[p].child)]
  /\ cpu' = "none"
  /\ UNCHANGED <<pte, mapped, sh, page, mem_map, slot, kswapd, pressure, mem>>

\* The state when the areas V of m are gone: their entries, and the shared memory
\* that no other area has.
Unmapped(k, m, V) ==
  LET alone == {v \in V \cap Shared : \A n \in Mm \ {m} : v \notin mapped[n]}
      j == FoldSet(LAMBDA v, i : [Drop(i, i.pte[m][v]) EXCEPT !.pte[m][v] = Invalid], k, V)
  IN FoldSet(LAMBDA v, i : [Drop(i, i.sh[v]) EXCEPT !.sh[v] = Invalid], j, alone)

Forgotten(m, V) ==
  [n \in Mm \cup {NoMm} |-> [v \in Va |->
     IF v \in V /\ (n = m \/ (n = NoMm /\ \A l \in Mm \ {m} : v \notin mapped[l])) THEN Unknown
     ELSE mem[n][v]]]

\* do_munmap of the area of v
mm_unmap(p, v) ==
  LET m == proc[p].mm IN
    /\ Free(p) /\ v \in mapped[m] /\ ~Locked(m)
    /\ Store(Unmapped(State, m, {v}))
    /\ mapped' = [mapped EXCEPT ![m] = @ \ {v}]
    /\ mem' = Forgotten(m, {v})
    /\ UNCHANGED <<proc, cpu, kswapd, pressure>>

\* do_mmap of a new area at v
mm_map(p, v) ==
  LET m == proc[p].mm IN
    /\ Free(p) /\ v \in Private \ mapped[m] /\ ~Locked(m)
    /\ mapped' = [mapped EXCEPT ![m] = @ \cup {v}]
    /\ UNCHANGED <<pte, sh, page, mem_map, slot, proc, cpu, kswapd, pressure, mem>>

\* __do_exit, called by the process or for a fault at an address that has no area by
\* now: the last process of an mm takes it away (exit_mmap, mm_destroy).
Exit(p) ==
  LET m == proc[p].mm
      last == \A q \in Proc \ {p} : proc[q].mm # m
      killed == cpu = "none" /\ proc[p].pc = "lock" /\ ~Locked(m) /\ proc[p].va \notin mapped[m]
  IN /\ InUser(p) \/ killed
     /\ \E q \in Proc \ {p} : proc[q].mm # NoMm
     /\ proc' = [proc EXCEPT ![p] = User(NoMm)]
     /\ IF last THEN /\ Store(Unmapped(State, m, mapped[m]))
                     /\ mapped' = [mapped EXCEPT ![m] = {}]
                     /\ mem' = Forgotten(m, mapped[m])
        ELSE UNCHANGED <<pte, mapped, sh, page, mem_map, slot, mem>>
     /\ UNCHANGED <<cpu, kswapd, pressure>>

\* The present entries of the mms in proc_mm_list.
Resident == {x \in Mm \X Va : Live(x[1]) /\ pte[x[1]][x[2]].kind = "page"}

Next ==
  \/ \E out \in SUBSET Resident : kswapd_main(out)
  \/ KswapdTimer
  \/ \E p \in Proc :
       \/ \E v \in Va : \/ \E w \in BOOLEAN : Fault(p, v, w)
                        \/ \E x \in Val : Write(p, v, x)
                        \/ Read(p, v) \/ mm_unmap(p, v) \/ mm_map(p, v)
       \/ \E g \in Page : Allocated(p, g)
       \/ FaultLocked(p) \/ FaultShared(p) \/ try_free_pages(p) \/ dup_mmap(p) \/ Exit(p)
       \/ \E m \in Mm : Fork(p, m)
       \/ \E c \in Proc : Clone(p, c) \/ Forked(p, c)

Spec == Init /\ [][Next]_vars
-----------------------------------------------------------------------------
Refers(x, kind, at) == x.kind = kind /\ x.at = at
Refs(kind, at) ==
  Cardinality({x \in Mm \X Va : Refers(pte[x[1]][x[2]], kind, at)})
  + Cardinality({v \in Shared : Refers(sh[v], kind, at)})

\* page->ref and mem_map count the page table entries and the entries of shared
\* memory that refer to a frame and to a swap entry; a frame that nobody refers to is
\* free, or has a swap entry and waits for kswapd, or belongs to a fault in progress.
\* The assertions on mem_map and on the swap lists follow.
RefsExact ==
  /\ \A g \in Page :
       /\ page[g].ref = Refs("page", g)
       /\ page[g].free => page[g] = FreeFrame
       /\ page[g].free \/ page[g].ref > 0 \/ page[g].entry # 0 \/ \E p \in Proc : proc[p].newpage = g
  /\ \A e \in Entry :
       /\ mem_map[e] \in {Refs("swap", e), SWAP_UNUSED}
       /\ Cardinality(swap_hash_find(State, e)) <= 1
       /\ mem_map[e] = SWAP_UNUSED => Refs("swap", e) = 0 /\ swap_hash_find(State, e) = {}
       /\ mem_map[e] = 0 => swap_hash_find(State, e) # {}

\* What a page table entry gives: the frame, or the one in the swap cache, or the disk.
Value(x) ==
  IF x.kind = "page" THEN page[x.at].data
  ELSE LET G == swap_hash_find(State, x.at) IN
       IF G = {} THEN slot[x.at] ELSE page[CHOOSE g \in G : TRUE].data

\* A process reads what it, or for shared memory anybody, wrote last; fork gives the
\* child a copy of its own.  No interleaving of faults, forks, exits and kswapd lets
\* a page return from the swap space with older contents or shows a write elsewhere.
\* There is one way in which the code breaks this: a page that was written, forked and
\* is written again keeps its frame, but page_insert writes the entry anew without its
\* dirty bit (Finish).  With Forget the history has Unknown for such a page until its
\* next write, and nothing is said of it; without Forget the invariant is violated.
MemoryKept ==
  \A m \in Mm : \A v \in mapped[m] :
    LET x == IF pte[m][v].kind = "none" /\ v \in Shared THEN sh[v] ELSE pte[m][v] IN
      mem[Key(m, v)][v] = Unknown \/ (x.kind # "none" /\ Value(x) = mem[Key(m, v)][v])

\* Whoever waits for memory has called kswapd: it is not asleep, and has something to
\* do.
WaiterServed ==
  (\E p \in Proc : proc[p].asleep) => kswapd = "ready" /\ pressure > 0

\* The kernel does not stop in swap_offset.
NoPanic == cpu # "panic"

\* The assertion of do_pgfault: an entry that is present denies the access, which is a
\* write to a private page.
FaultNeeded == cpu # "assert"
=============================================================================
