------------------------------- MODULE SfsFile -------------------------------
(***************************************************************************)
(* Files of the simple file system (fs/sfs/sfs_inode.c): the free map, the  *)
(* block map of an inode with its direct, indirect and doubly indirect      *)
(* blocks, reading, writing, seeking, truncating, and what becomes of the   *)
(* in-memory copy of the inode when the last descriptor is closed.          *)
(*                                                                         *)
(* No operation sleeps between taking the lock of the inode and releasing   *)
(* it (the disk is polled), so each is one step.  The disk does not fail;   *)
(* it may be full, and the rest of the file system takes blocks too, of     *)
(* which only the number matters here.  Directories are module SfsTree's.   *)
(*                                                                         *)
(* An operation on the disk is an operator on a record k = [free, data]:    *)
(* the free map, and the cells of each block, which are block numbers in an *)
(* indirect block and bytes in a block of a file.                           *)
(***************************************************************************)
EXTENDS Integers, Sequences, FiniteSets, SequencesExt

CONSTANTS Fd, File,
          NBlocks,             \* super.blocks; block 0 is the superblock
          SFS_NDIRECT,
          SFS_BLKSIZE,         \* bytes of a block, and SFS_BLK_NENTRY
          SFS_MAX_FILE_SIZE,
          MaxRest,             \* bound on the blocks of the rest of the file system
          Lens, Seeks          \* the lengths of reads and writes, the positions sought

VARIABLES freemap, data,
          rest,        \* how many free blocks directories and other files have taken
          disk,        \* of each file, its sfs_disk_inode on the disk; NoInode while a
                       \* dirty copy in memory makes it out of date
          din,         \* of each file, the copy in its sfs_inode, or NoInode
          dirty,       \* of each file, sin->dirty
          desc,        \* the open files: file and pos
          written,     \* history: the bytes of each file that hold what was written
          dropped,     \* history: a clean inode with spare blocks was dropped
          panic        \* the assertion that failed, or "no"

vars == <<freemap, data, rest, disk, din, dirty, desc, written, dropped, panic>>

Block == 1..NBlocks - 1
Cell == 0..SFS_BLKSIZE - 1
SFS_BLK_NENTRY == SFS_BLKSIZE
Zero == [c \in Cell |-> 0]

\* What a free block holds; it is cleared before it is used.
Junk == [c \in Cell |-> -1]

\* What stands for byte i of file f: a number that is no block.
Byte(f, i) == f * 1000 + i

NoInode == [ino |-> 0, nlinks |-> 0, size |-> 0, blocks |-> 0,
            direct |-> [i \in 0..SFS_NDIRECT - 1 |-> 0], indirect |-> 0, db_indirect |-> 0]
NoFile == 0
Closed == [file |-> NoFile, pos |-> 0]

Init ==
  /\ freemap = Block /\ data = [b \in Block |-> Junk] /\ rest = 0
  /\ disk = [f \in File |-> NoInode] /\ din = [f \in File |-> NoInode]
  /\ dirty = [f \in File |-> FALSE]
  /\ desc = [d \in Fd |-> Closed]
  /\ written = [f \in File |-> {}]
  /\ dropped = FALSE /\ panic = "no"

Disk == [free |-> freemap, data |-> data]
Cached(f) == din[f].ino # 0
Openers(f) == {d \in Fd : desc[d].file = f}
-----------------------------------------------------------------------------
\* sfs_block_alloc: bitmap_alloc takes the lowest free block; it is cleared.  The
\* blocks of the rest are the last of freemap.
Take(k, b) ==
  [k |-> [free |-> k.free \ {b}, data |-> [k.data EXCEPT ![b] = Zero]], ino |-> b, ok |-> TRUE]
sfs_block_alloc(k) ==
  IF Cardinality(k.free) <= rest THEN [k |-> k, ino |-> 0, ok |-> FALSE]
  ELSE Take(k, CHOOSE x \in k.free : \A y \in k.free : x <= y)

\* sfs_block_free
sfs_block_free(k, b) == [free |-> k.free \cup {b}, data |-> [k.data EXCEPT ![b] = Junk]]

\* The new block b in entry index of the indirect block e, both just allocated.
SubLink(e, b, index) ==
  [k |-> [b.k EXCEPT !.data[e.ino][index] = b.ino], ent |-> e.ino, ino |-> b.ino, ok |-> TRUE]

\* Mutant: the new indirect block is not given back when there is no second block.
SubCreateKeep(k, ent, index, e, b) ==
  IF e.ok /\ b.ok THEN SubLink(e, b, index) ELSE [k |-> e.k, ent |-> ent, ino |-> 0, ok |-> FALSE]

\* Both blocks are given back if the second is missing.
SubCreate(k, ent, index, e, b) ==
  IF e.ok /\ b.ok THEN SubLink(e, b, index) ELSE [k |-> k, ent |-> ent, ino |-> 0, ok |-> FALSE]
SubCreateIn(k, ent, index, e) == SubCreate(k, ent, index, e, sfs_block_alloc(e.k))

\* sfs_bmap_get_sub_nolock: entry index of the indirect block ent, which is created
\* first if it is missing.
sfs_bmap_get_sub(k, ent, index, create) ==
  IF ent # 0 /\ k.data[ent][index] # 0
  THEN [k |-> k, ent |-> ent, ino |-> k.data[ent][index], ok |-> TRUE]
  ELSE IF ~create THEN [k |-> k, ent |-> ent, ino |-> 0, ok |-> TRUE]
  ELSE SubCreateIn(k, ent, index, IF ent = 0 THEN sfs_block_alloc(k)
                                  ELSE [k |-> k, ino |-> ent, ok |-> TRUE])

\* The record of an inode during an operation: the disk k, the sfs_disk_inode n, its
\* dirty bit, the block found and whether it went well.
Got(k, n, d, ino, ok) == [k |-> k, n |-> n, dirty |-> d, ino |-> ino, ok |-> ok]

\* sfs_bmap_get_nolock, for a block of each kind.  The entry of the doubly indirect
\* block is e, of the indirect block b.
GetDirect(s, index, b) ==
  IF b.ok THEN Got(b.k, [s.n EXCEPT !.direct[index] = b.ino], TRUE, b.ino, TRUE)
  ELSE Got(s.k, s.n, s.dirty, 0, FALSE)
GetIndirect(s, b) ==
  Got(b.k, [s.n EXCEPT !.indirect = b.ent], s.dirty \/ b.ent # s.n.indirect, b.ino, b.ok)
GetDouble(s, e, b) ==
  Got(b.k, [s.n EXCEPT !.db_indirect = e.ent], s.dirty \/ e.ent # s.n.db_indirect, b.ino, b.ok)
GetDoubleIn(s, j, e, create) ==
  GetDouble(s, e, IF e.ino = 0 THEN e ELSE sfs_bmap_get_sub(e.k, e.ino, j % SFS_BLK_NENTRY, create))

sfs_bmap_get(s, index, create) ==
  LET i == index - SFS_NDIRECT
      j == i - SFS_BLK_NENTRY
  IN IF index < SFS_NDIRECT
     THEN IF s.n.direct[index] # 0 \/ ~create THEN Got(s.k, s.n, s.dirty, s.n.direct[index], TRUE)
          ELSE GetDirect(s, index, sfs_block_alloc(s.k))
     ELSE IF i < SFS_BLK_NENTRY
     THEN GetIndirect(s, sfs_bmap_get_sub(s.k, s.n.indirect, i, create))
     ELSE GetDoubleIn(s, j, sfs_bmap_get_sub(s.k, s.n.db_indirect, j \div SFS_BLK_NENTRY, create), create)

\* sfs_bmap_load_nolock: the block behind the last one is created.
Counted(g, new) == IF g.ok /\ new THEN [g EXCEPT !.n.blocks = @ + 1] ELSE g
sfs_bmap_load(s, index) ==
  Counted(sfs_bmap_get(s, index, index = s.n.blocks), index = s.n.blocks)

\* sfs_bmap_free_sub_nolock
sfs_bmap_free_sub(k, ent, index) ==
  IF k.data[ent][index] = 0 THEN k
  ELSE sfs_block_free([k EXCEPT !.data[ent][index] = 0], k.data[ent][index])

\* sfs_bmap_free_nolock
sfs_bmap_free(s, index) ==
  LET i == index - SFS_NDIRECT
      j == i - SFS_BLK_NENTRY
      e == IF s.n.db_indirect = 0 THEN 0 ELSE s.k.data[s.n.db_indirect][j \div SFS_BLK_NENTRY]
  IN IF index < SFS_NDIRECT
     THEN IF s.n.direct[index] = 0 THEN s
          ELSE [s EXCEPT !.k = sfs_block_free(@, s.n.direct[index]), !.n.direct[index] = 0,
                         !.dirty = TRUE]
     ELSE IF i < SFS_BLK_NENTRY
     THEN IF s.n.indirect = 0 THEN s ELSE [s EXCEPT !.k = sfs_bmap_free_sub(@, s.n.indirect, i)]
     ELSE IF e = 0 THEN s ELSE [s EXCEPT !.k = sfs_bmap_free_sub(@, e, j % SFS_BLK_NENTRY)]

\* sfs_bmap_truncate_nolock
sfs_bmap_truncate(s) ==
  [sfs_bmap_free(s, s.n.blocks - 1) EXCEPT !.n.blocks = @ - 1, !.dirty = TRUE]
-----------------------------------------------------------------------------
\* The inode of f as an operation finds it.
Inode(f) == Got(Disk, din[f], dirty[f], 0, TRUE)

\* What an operation leaves of it.
Store(f, s) ==
  /\ freemap' = s.k.free /\ data' = s.k.data
  /\ din' = [din EXCEPT ![f] = s.n]
  /\ dirty' = [dirty EXCEPT ![f] = s.dirty]
  /\ disk' = IF s.dirty THEN [disk EXCEPT ![f] = NoInode] ELSE disk

Panic(line) == panic' = line /\ UNCHANGED <<freemap, data, disk, din, dirty, desc, written, dropped>>

\* The pieces of blocks between offset and endpos that sfs_io_nolock goes through:
\* the rest of a first block, whole blocks, the beginning of a last one.
Pieces(offset, endpos) ==
  LET blkoff == offset % SFS_BLKSIZE
      first == offset \div SFS_BLKSIZE
      nblks == endpos \div SFS_BLKSIZE - first
      piece(b, o, n) == [blkno |-> b, off |-> o, size |-> n]
      head == IF blkoff = 0 THEN << >>
              ELSE << piece(first, blkoff, IF nblks # 0 THEN SFS_BLKSIZE - blkoff ELSE endpos - offset) >>
      whole == [i \in 1..nblks - Len(head) |-> piece(first + Len(head) + i - 1, 0, SFS_BLKSIZE)]
      tail == IF endpos % SFS_BLKSIZE = 0 \/ (nblks = 0 /\ blkoff # 0) THEN << >>
              ELSE << piece(endpos \div SFS_BLKSIZE, 0, endpos % SFS_BLKSIZE) >>
  IN head \o whole \o tail

\* One piece: sfs_bmap_load_nolock, and sfs_wbuf or sfs_wblock if it is a write.
Stored(f, x, cells) ==
  [c \in Cell |-> IF x.off <= c /\ c < x.off + x.size THEN Byte(f, x.blkno * SFS_BLKSIZE + c)
                  ELSE cells[c]]
IoBlock(f, s, x, write, g) ==
  IF ~g.ok THEN [s EXCEPT !.s = g]
  ELSE [s |-> IF write THEN [g EXCEPT !.k.data[g.ino] = Stored(f, x, @)] ELSE g,
        alen |-> s.alen + x.size]
IoPiece(f, s, x, write) ==
  IF ~s.s.ok THEN s ELSE IoBlock(f, s, x, write, sfs_bmap_load(s.s, x.blkno))

Least(m, n) == IF m < n THEN m ELSE n

\* sfs_io_nolock up to the position endpos, and the end of file_read or file_write.
\* The size grows to offset + alen, also when nothing was written at an offset that
\* another opener's truncation has left behind the end.
sfs_io(d, endpos, write) ==
  LET f == desc[d].file
      offset == desc[d].pos
  IN IF offset \div SFS_BLKSIZE > din[f].blocks
     THEN Panic("sfs_bmap_load_nolock")
     ELSE \E r \in {FoldLeft(LAMBDA s, x : IoPiece(f, s, x, write), [s |-> Inode(f), alen |-> 0],
                             Pieces(offset, endpos))} :
          /\ LET grown == offset + r.alen > din[f].size IN
             Store(f, [r.s EXCEPT !.n.size = IF grown THEN offset + r.alen ELSE @,
                                  !.dirty = @ \/ grown])
          /\ desc' = [desc EXCEPT ![d].pos = @ + r.alen]
          /\ written' = IF write THEN [written EXCEPT ![f] = @ \cup offset..offset + r.alen - 1]
                        ELSE written
          /\ UNCHANGED <<dropped, panic>>

\* sfs_write and sfs_read of len bytes by descriptor d
Write(d, len) ==
  /\ desc[d].file # NoFile /\ desc[d].pos < SFS_MAX_FILE_SIZE
  /\ sfs_io(d, Least(desc[d].pos + len, SFS_MAX_FILE_SIZE), TRUE)

Read(d, len) ==
  /\ desc[d].file # NoFile /\ desc[d].pos < din[desc[d].file].size
  /\ sfs_io(d, Least(desc[d].pos + len, din[desc[d].file].size), FALSE)

\* The loops of sfs_truncfile from n blocks to m.
Resize(s, m) ==
  IF s.n.blocks < m
  THEN FoldLeft(LAMBDA t, i : IF t.ok THEN sfs_bmap_load(t, i) ELSE t, s,
                [i \in 1..m - s.n.blocks |-> s.n.blocks + i - 1])
  ELSE FoldLeft(LAMBDA t, i : sfs_bmap_truncate(t), s, [i \in 1..s.n.blocks - m |-> i])

\* The bytes of f that stay when it has n blocks left.
Kept(f, n) == {i \in written[f] : i < n * SFS_BLKSIZE}

\* sfs_truncfile to len, for d: the failed growth keeps the blocks it has got.
sfs_truncfile(f, len) ==
  LET tblks == (len + SFS_BLKSIZE - 1) \div SFS_BLKSIZE
  IN IF din[f].size = len
     THEN IF tblks = din[f].blocks
          THEN UNCHANGED <<freemap, data, disk, din, dirty, written, panic>>
          ELSE panic' = "sfs_truncfile" /\ UNCHANGED <<freemap, data, disk, din, dirty, written>>
     ELSE \E r \in {Resize(Inode(f), tblks)} :
          /\ Store(f, IF r.ok THEN [r EXCEPT !.n.size = len, !.dirty = TRUE] ELSE r)
          /\ written' = [written EXCEPT ![f] = Kept(f, r.n.blocks)]
          /\ UNCHANGED panic

\* file_seek: sfs_tryseek makes the file longer when pos is behind its end.
Seek(d, pos) ==
  LET f == desc[d].file IN
    /\ f # NoFile /\ pos < SFS_MAX_FILE_SIZE
    /\ IF pos > din[f].size THEN sfs_truncfile(f, pos)
       ELSE UNCHANGED <<freemap, data, disk, din, dirty, written, panic>>
    /\ desc' = IF pos > din[f].size /\ din'[f].size # pos THEN desc
               ELSE [desc EXCEPT ![d].pos = pos]
    /\ UNCHANGED dropped

\* file_open of a file that exists, sfs_load_inode first if no copy of it is there.
Open(d, f) ==
  /\ desc[d].file = NoFile /\ disk[f].nlinks + din[f].nlinks > 0
  /\ Cached(f) => din[f].nlinks > 0
  /\ desc' = [desc EXCEPT ![d] = [file |-> f, pos |-> 0]]
  /\ din' = [din EXCEPT ![f] = IF Cached(f) THEN @ ELSE disk[f]]
  /\ UNCHANGED <<freemap, data, disk, dirty, written, dropped, panic>>

\* The same with O_TRUNC, on a file that is open elsewhere.
OpenTrunc(d, f) ==
  /\ desc[d].file = NoFile /\ Cached(f) /\ din[f].nlinks > 0
  /\ desc' = [desc EXCEPT ![d] = [file |-> f, pos |-> 0]]
  /\ sfs_truncfile(f, 0)
  /\ UNCHANGED dropped

\* file_open with O_CREAT: sfs_dirent_create_inode and the link.
Create(d, f) ==
  \E b \in {sfs_block_alloc(Disk)} :
    /\ desc[d].file = NoFile /\ ~Cached(f) /\ disk[f].nlinks = 0 /\ b.ok
    /\ Store(f, Got(b.k, [NoInode EXCEPT !.ino = b.ino, !.nlinks = 1], TRUE, 0, TRUE))
    /\ desc' = [desc EXCEPT ![d] = [file |-> f, pos |-> 0]]
    /\ written' = [written EXCEPT ![f] = {}]
    /\ UNCHANGED <<dropped, panic>>

\* sfs_reclaim of an inode without links: all its blocks and then itself.
FreeBlock(k, b) == IF b = 0 THEN k ELSE sfs_block_free(k, b)
FreeDouble(k, db) ==
  IF db = 0 THEN k
  ELSE sfs_block_free(FoldLeft(LAMBDA u, i : sfs_bmap_free_sub(u, db, i), k,
                               [i \in 1..SFS_BLK_NENTRY |-> i - 1]), db)
FreeInode(t) == FreeDouble(FreeBlock(sfs_block_free(t.k, t.n.ino), t.n.indirect), t.n.db_indirect)
FreeAll(s) == FreeInode(Resize(s, 0))

\* The last reference to f, whose inode is n, is dropped: sfs_reclaim.
sfs_reclaim(f, n, d) ==
  \E k \in {IF n.nlinks = 0 THEN FreeAll(Got(Disk, n, d, 0, TRUE)) ELSE Disk} :
    /\ freemap' = k.free /\ data' = k.data
    /\ disk' = [disk EXCEPT ![f] = IF n.nlinks = 0 THEN NoInode ELSE IF d THEN n ELSE @]
    /\ din' = [din EXCEPT ![f] = NoInode]
    /\ dirty' = [dirty EXCEPT ![f] = FALSE]
    /\ written' = IF n.nlinks = 0 THEN [written EXCEPT ![f] = {}] ELSE written
    /\ dropped' = (dropped \/ (n.nlinks # 0 /\ ~d /\ disk[f] # NoInode /\ n.blocks # disk[f].blocks))

\* Mutant: closing does not write the inode back.
CloseLost(d) ==
  LET f == desc[d].file IN
    /\ f # NoFile
    /\ desc' = [desc EXCEPT ![d] = Closed]
    /\ IF Openers(f) = {d} THEN sfs_reclaim(f, din[f], FALSE)
       ELSE UNCHANGED <<freemap, data, disk, din, dirty, written, dropped>>
    /\ UNCHANGED panic

\* vfs_close: sfs_close and sfs_reclaim when it is the last descriptor.
Close(d) ==
  LET f == desc[d].file IN
    /\ f # NoFile
    /\ desc' = [desc EXCEPT ![d] = Closed]
    /\ IF Openers(f) = {d} THEN sfs_reclaim(f, din[f], dirty[f])
       ELSE UNCHANGED <<freemap, data, disk, din, dirty, written, dropped>>
    /\ UNCHANGED panic

\* sfs_fsync, by file_fsync
Fsync(d) ==
  LET f == desc[d].file IN
    /\ f # NoFile /\ din[f].nlinks # 0 /\ dirty[f]
    /\ disk' = [disk EXCEPT ![f] = din[f]]
    /\ dirty' = [dirty EXCEPT ![f] = FALSE]
    /\ UNCHANGED <<freemap, data, din, desc, written, dropped, panic>>

\* sfs_unlink of the only name of f: reclaimed at once if nobody has it open.
Unlink(f) ==
  /\ disk[f].nlinks + din[f].nlinks > 0
  /\ Cached(f) => din[f].nlinks > 0
  /\ IF Cached(f)
     THEN /\ din' = [din EXCEPT ![f].nlinks = 0]
          /\ dirty' = [dirty EXCEPT ![f] = TRUE]
          /\ disk' = [disk EXCEPT ![f] = NoInode]
          /\ UNCHANGED <<freemap, data, written, dropped>>
     ELSE sfs_reclaim(f, [disk[f] EXCEPT !.nlinks = 0], TRUE)
  /\ UNCHANGED <<desc, panic>>

\* The rest of the file system takes a block, or gives one back.
Rest ==
  /\ rest' \in {rest - 1, rest + 1} \cap 0..MaxRest
  /\ rest' <= Cardinality(freemap)
  /\ UNCHANGED <<freemap, data, disk, din, dirty, desc, written, dropped, panic>>

Next ==
  /\ panic = "no"
  /\ \/ Rest
     \/ /\ UNCHANGED rest
        /\ \/ \E d \in Fd :
                \/ \E n \in Lens : Write(d, n) \/ Read(d, n)
                \/ \E pos \in Seeks : Seek(d, pos)
                \/ Close(d) \/ Fsync(d)
                \/ \E f \in File : Open(d, f) \/ OpenTrunc(d, f) \/ Create(d, f)
           \/ \E f \in File : Unlink(f)

Spec == Init /\ [][Next]_vars
-----------------------------------------------------------------------------
\* The inode of f that counts: the copy in memory, or the one on the disk.
Current(f) == IF Cached(f) THEN din[f] ELSE disk[f]

\* All blocks that f refers to, one for each reference; 0 stands for none.
Cells(b) == IF b = 0 THEN << >> ELSE [i \in 1..SFS_BLK_NENTRY |-> data[b][i - 1]]
Blocks(f) ==
  LET n == Current(f)
      lv2 == Cells(n.db_indirect)
  IN <<n.ino, n.indirect, n.db_indirect>> \o [i \in 1..SFS_NDIRECT |-> n.direct[i - 1]]
       \o Cells(n.indirect) \o lv2 \o FlattenSeq([i \in DOMAIN lv2 |-> Cells(lv2[i])])
Used(f) == {Blocks(f)[i] : i \in DOMAIN Blocks(f)} \ {0}

\* No block is given out twice: each block that a file refers to is in use, and it is
\* referred to once, by one file (the assertions on sfs_block_inuse).  And none is
\* lost: what is in use is referred to, also after an operation that found the disk
\* full and after files were removed while open.  The latter holds until an inode is
\* dropped that does not know of the blocks a failed seek has added to it.
BlocksOwned ==
  /\ \A f \in File :
       /\ Used(f) \cap freemap = {}
       /\ \A g \in File \ {f} : Used(f) \cap Used(g) = {}
       /\ \A i, j \in DOMAIN Blocks(f) : i # j /\ Blocks(f)[i] # 0 => Blocks(f)[i] # Blocks(f)[j]
  /\ ~dropped => Block \ freemap = UNION {Used(f) : f \in File}

\* A file has every byte written to it, and what was not written is zero: no write
\* of another file, no earlier owner of the block, no lost inode shows.  It holds for
\* a file whose inode is only on the disk as well, as long as no block is lost.
FileContents ==
  ~dropped => \A f \in File :
    LET n == Current(f)
        block(i) == sfs_bmap_get(Got(Disk, n, FALSE, 0, TRUE), i \div SFS_BLKSIZE, FALSE).ino
    IN /\ written[f] \subseteq 0..n.size - 1
       /\ \A i \in 0..Least(n.size, n.blocks * SFS_BLKSIZE) - 1 :
            /\ block(i) # 0
            /\ data[block(i)][i % SFS_BLKSIZE] = IF i \in written[f] THEN Byte(f, i) ELSE 0

\* The assertions on the size of a file (sfs_truncfile) and on the index of a block
\* (sfs_bmap_load_nolock) hold.
NoPanic == panic = "no"
=============================================================================
