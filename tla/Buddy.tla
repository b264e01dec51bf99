-------------------------------- MODULE Buddy --------------------------------
(***************************************************************************)
(* The page allocator (arch/i386/mm/buddy_pmm.c) and its callers alloc_pages *)
(* and free_pages, which run with interrupts off.  A free block is the pair *)
(* of its first page's index in its zone and its order; which one of the    *)
(* blocks in a free list is taken is left open.  used_pages, which only the *)
(* tests at boot read, is left out.                                         *)
(***************************************************************************)
EXTENDS Integers, FiniteSets, FiniteSetsExt

CONSTANTS Size,             \* the pages of each zone, a sequence
          MAX_ORDER

VARIABLES free_area,        \* the free blocks
          held              \* what the kernel has allocated and not yet freed

vars == <<free_area, held>>

Zone == DOMAIN Size
Order == 0 .. MAX_ORDER
Block(z, i, o) == [zone |-> z, idx |-> i, order |-> o]

\* buddy_init_memmap on the n pages from i on, in blocks of order o and below.
RECURSIVE Carve(_, _, _, _)
Carve(z, i, n, o) ==
  IF n = 0 THEN {}
  ELSE IF n >= 2 ^ o THEN {Block(z, i, o)} \cup Carve(z, i + 2 ^ o, n - 2 ^ o, o)
  ELSE Carve(z, i, n, o - 1)

buddy_init_memmap(z) == Carve(z, 0, Size[z], MAX_ORDER)

Init ==
  /\ free_area = UNION {buddy_init_memmap(z) : z \in Zone}
  /\ held = {}
-----------------------------------------------------------------------------
getorder(n) == Min({o \in Order : n <= 2 ^ o})

\* The index of the buddy: page_idx ^ (1 << order)
BuddyIdx(i, o) == IF (i \div 2 ^ o) % 2 = 0 THEN i + 2 ^ o ELSE i - 2 ^ o

\* Mutant: the buddy of the joined block is not looked at.
buddy_free_pages_sub_once(F, z, i, o) ==
  LET buddy == Block(z, BuddyIdx(i, o), o) IN
    IF o < MAX_ORDER /\ buddy \in F
    THEN (F \ {buddy}) \cup {Block(z, Min({i, buddy.idx}), o + 1)}
    ELSE F \cup {Block(z, i, o)}

\* buddy_free_pages_sub: a block joins its buddy as long as that is free as a whole.
RECURSIVE buddy_free_pages_sub(_, _, _, _)
buddy_free_pages_sub(F, z, i, o) ==
  LET buddy == Block(z, BuddyIdx(i, o), o) IN
    IF o < MAX_ORDER /\ buddy \in F
    THEN buddy_free_pages_sub(F \ {buddy}, z, Min({i, buddy.idx}), o + 1)
    ELSE F \cup {Block(z, i, o)}

\* The second loop of buddy_free_pages: the blocks become smaller.
RECURSIVE FreeDown(_, _, _, _, _)
FreeDown(F, z, i, n, o) ==
  IF n = 0 THEN F
  ELSE IF n < 2 ^ o THEN FreeDown(F, z, i, n, o - 1)
  ELSE FreeDown(buddy_free_pages_sub(F, z, i, o), z, i + 2 ^ o, n - 2 ^ o, o)

\* Its first loop: they become larger, as the alignment of i allows.
RECURSIVE FreeUp(_, _, _, _, _)
FreeUp(F, z, i, n, o) ==
  IF n < 2 ^ o THEN FreeDown(F, z, i, n, o)
  ELSE IF (i \div 2 ^ o) % 2 # 0
  THEN FreeUp(buddy_free_pages_sub(F, z, i, o), z, i + 2 ^ o, n - 2 ^ o, o + 1)
  ELSE FreeUp(F, z, i, n, o + 1)

buddy_free_pages(F, z, i, n) ==
  IF n = 1 THEN buddy_free_pages_sub(F, z, i, 0) ELSE FreeUp(F, z, i, n, 0)

\* buddy_alloc_pages_sub: block b, the smallest that is large enough, without the
\* halves that are not needed.
Smallest(o, b) == b.order >= o /\ \A c \in free_area : c.order >= o => b.order <= c.order

Halves(b, o) == {Block(b.zone, b.idx + 2 ^ k, k) : k \in o .. b.order - 1}

buddy_alloc_pages_sub(b, o) == (free_area \ {b}) \cup Halves(b, o)

InUse(H) == FoldSet(LAMBDA h, s : s + h.n, 0, H)

\* alloc_pages, when there is such a block: buddy_alloc_pages gives the pages after the
\* n-th back through free_pages.
alloc_pages(n) ==
  \E b \in free_area :
    LET o == getorder(n)
        F == buddy_alloc_pages_sub(b, o)
        rest == 2 ^ o - n
    IN /\ Smallest(o, b)
       /\ free_area' = IF rest = 0 THEN F ELSE buddy_free_pages(F, b.zone, b.idx + n, rest)
       /\ held' = held \cup {[zone |-> b.zone, idx |-> b.idx, n |-> n]}

\* free_pages, by the one that has allocated them.
free_pages(h) ==
  /\ free_area' = buddy_free_pages(free_area, h.zone, h.idx, h.n)
  /\ held' = held \ {h}

Next ==
  \/ \E n \in 1 .. 2 ^ MAX_ORDER : alloc_pages(n)
  \/ \E h \in held : free_pages(h)

Spec == Init /\ [][Next]_vars
-----------------------------------------------------------------------------
PagesOf(b) == {<<b.zone, i>> : i \in b.idx .. b.idx + 2 ^ b.order - 1}
PagesHeld(h) == {<<h.zone, i>> : i \in h.idx .. h.idx + h.n - 1}
Pages == UNION {{z} \X (0 .. Size[z] - 1) : z \in Zone}

\* Every page is in one free block or in one allocation, through all the splitting,
\* trimming and joining; a block is aligned to its size, as buddy_free_pages_sub
\* asserts; and two buddies are never both free: what was split is joined again,
\* whatever the order in which it is freed, so that memory that is free in one piece
\* can be had in one.
PagesOwned ==
  /\ Pages = (UNION {PagesOf(b) : b \in free_area}) \cup (UNION {PagesHeld(h) : h \in held})
  /\ Cardinality(Pages)
       = FoldSet(LAMBDA b, s : s + 2 ^ b.order, 0, free_area) + InUse(held)
  /\ \A b \in free_area :
       /\ b.idx % 2 ^ b.order = 0
       /\ b.order < MAX_ORDER => Block(b.zone, BuddyIdx(b.idx, b.order), b.order) \notin free_area
=============================================================================
