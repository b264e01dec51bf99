-------------------------------- MODULE Malloc -------------------------------
(***************************************************************************)
(* The allocator of user programs (libs-user-ucore/malloc.c), whose calls   *)
(* exclude one another by mem_lock.  Addresses count headers of 64 bytes:   *)
(* base is at 0, the heap that brk extends begins at 1, and shared memory   *)
(* is mapped from the end of user space downwards.                          *)
(***************************************************************************)
EXTENDS Integers, FiniteSets, FiniteSetsExt

CONSTANTS MaxAddr,          \* user space is 0 .. MaxAddr
          PageUnits,        \* the headers in a page: brk and shmem deal in pages
          MaxUnits          \* bound: of one allocation, its header included

VARIABLES heap, used        \* used: the blocks malloc has returned and free has not got back

vars == <<heap, used>>

Addr == 0 .. MaxAddr
Base == 0
Unset == [ptr |-> 0, size |-> 0, type |-> 0]

\* The headers, freep (the list is made by the first call), brk, and the lowest
\* address of the shared memory.
Init ==
  /\ heap = [at |-> [a \in Addr |-> Unset], freep |-> Base, brk |-> 1, low |-> MaxAddr + 1]
  /\ used = {}
-----------------------------------------------------------------------------
\* free_locked: the list is sorted by address, p is the block before bp.
RECURSIVE Before(_, _, _)
Before(h, p, bp) ==
  LET q == h.at[p].ptr IN
    IF (bp > p /\ bp < q) \/ (p >= q /\ (bp > p \/ bp < q)) THEN p ELSE Before(h, q, bp)

\* Mutant: the block below is not looked at.
free_locked_up(h, bp) ==
  LET p == Before(h, h.freep, bp)
      q == h.at[p].ptr
      b == h.at[bp]
      up == b.type = h.at[q].type /\ bp + b.size = q
      nb == [b EXCEPT !.size = IF up THEN @ + h.at[q].size ELSE @, !.ptr = IF up THEN h.at[q].ptr ELSE q]
      at == IF up THEN [h.at EXCEPT ![q] = Unset, ![bp] = nb] ELSE [h.at EXCEPT ![bp] = nb]
  IN [h EXCEPT !.at = [at EXCEPT ![p].ptr = bp], !.freep = p]

free_locked(h, bp) ==
  LET p == Before(h, h.freep, bp)
      q == h.at[p].ptr
      b == h.at[bp]
      up == b.type = h.at[q].type /\ bp + b.size = q
      nb == [b EXCEPT !.size = IF up THEN @ + h.at[q].size ELSE @, !.ptr = IF up THEN h.at[q].ptr ELSE q]
      at == IF up THEN [h.at EXCEPT ![q] = Unset, ![bp] = nb] ELSE [h.at EXCEPT ![bp] = nb]
      down == h.at[p].type = b.type /\ p + h.at[p].size = bp
  IN [h EXCEPT !.at = IF down THEN [at EXCEPT ![p] = [@ EXCEPT !.size = @ + nb.size, !.ptr = nb.ptr], ![bp] = Unset]
                      ELSE [at EXCEPT ![p].ptr = bp],
               !.freep = p]

\* morecore_brk_locked and morecore_shmem_locked: the kernel rounds up to pages.
Rounded(nu) == ((nu + PageUnits - 1) \div PageUnits) * PageUnits
HasCore(h, nu) == h.brk + Rounded(nu) <= h.low

morecore_locked(h, nu, type) ==
  LET n == Rounded(nu)
      bp == IF type = 0 THEN h.brk ELSE h.low - n
      f == free_locked([h EXCEPT !.at[bp] = [ptr |-> 0, size |-> n, type |-> type]], bp)
  IN IF type = 0 THEN [f EXCEPT !.brk = @ + n] ELSE [f EXCEPT !.low = bp]

\* The loop of malloc_locked at block p, after prevp: it ends with the heap and the
\* block, or with block 0 if there is no more memory.
RECURSIVE Search(_, _, _, _, _)
Search(h, prevp, p, n, type) ==
  LET b == h.at[p]
      np == p + n
      taken == IF b.size = n THEN [h.at EXCEPT ![prevp].ptr = b.ptr, ![p].ptr = 0]
               ELSE [h.at EXCEPT ![np] = [b EXCEPT !.size = @ - n],
                                 ![p] = [b EXCEPT !.size = n, !.ptr = 0],
                                 ![prevp].ptr = np]
      more == morecore_locked(h, n, type)
  IN IF b.type = type /\ b.size >= n
     THEN [heap |-> [h EXCEPT !.at = taken, !.freep = prevp], block |-> p]
     ELSE IF p # h.freep THEN Search(h, p, b.ptr, n, type)
     ELSE IF ~HasCore(h, n) THEN [heap |-> h, block |-> 0]
     ELSE Search(more, p, more.at[p].ptr, n, type)

\* malloc for type 0, shmem_malloc for type 1
malloc_locked(n, type) ==
  LET r == Search(heap, heap.freep, heap.at[heap.freep].ptr, n, type) IN
    /\ heap' = r.heap
    /\ used' = IF r.block = 0 THEN used ELSE used \cup {r.block}

free(bp) == heap' = free_locked(heap, bp) /\ used' = used \ {bp}

Next ==
  \/ \E n \in 1 .. MaxUnits, type \in {0, 1} : malloc_locked(n, type)
  \/ \E bp \in used : free(bp)

Spec == Init /\ [][Next]_vars
-----------------------------------------------------------------------------
RECURSIVE FreeFrom(_)
FreeFrom(p) == IF p = Base THEN {} ELSE {p} \cup FreeFrom(heap.at[p].ptr)
FreeBlocks == FreeFrom(heap.at[Base].ptr)
Units(p) == p .. p + heap.at[p].size - 1
Core(type) == IF type = 0 THEN 1 .. heap.brk - 1 ELSE heap.low .. MaxAddr

\* The blocks that are free and those in use do not overlap and together are all the
\* memory the kernel has given, each block in the memory of its own type; two free
\* blocks of one type that meet are one block.
MemoryOwned ==
  LET all == FreeBlocks \cup used IN
    /\ FreeBlocks \cap used = {}
    /\ \A p, q \in all : p # q => Units(p) \cap Units(q) = {}
    /\ \A type \in {0, 1} : Core(type) = UNION {Units(p) : p \in {p \in all : heap.at[p].type = type}}
    /\ \A p, q \in FreeBlocks : p + heap.at[p].size = q => heap.at[p].type # heap.at[q].type
=============================================================================
