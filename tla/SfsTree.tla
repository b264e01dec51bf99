------------------------------- MODULE SfsTree -------------------------------
(***************************************************************************)
(* Directories and the inode cache of the simple file system                *)
(* (fs/sfs/sfs_inode.c): look up, create, mkdir, link, unlink, rename and   *)
(* getcwd by several processes, against sfs_load_inode and sfs_reclaim.     *)
(*                                                                         *)
(* A step runs to the next place where the process may sleep: a semaphore   *)
(* (the mutex of the file system, its fs_sem, the lock of an inode) or a    *)
(* kmalloc.  A semaphore hands itself to the first waiter (module KSem), so *)
(* a lock is the sequence of its holder and the waiters.  The numbers of    *)
(* the slots of a directory are left out: a slot is found and used under    *)
(* one lock.  The inode on the disk and its copy in memory are one; module  *)
(* SfsFile shows that the copy is written back.                             *)
(***************************************************************************)
EXTENDS Integers, Sequences, FiniteSets

CONSTANTS Proc, Ino, Root, Name, NoIno, NoName,
          Reader,      \* the processes that change nothing
          Asker,       \* those that ask for the path of their working directory
          Common,      \* the names that calls other than rename use
          LosesName,   \* whether memory may run out twice in a rename
          FromRemoved  \* whether the parent of a removed working directory is looked up

VARIABLES freemap,     \* the blocks that hold no inode
          din,         \* the sfs_disk_inode of each inode, see NewInode
          sin,         \* the sfs_inode of each cached inode, or NoSin
          lock,        \* of "mutex", "fs" and each inode: the holder, then the waiters
          proc         \* the processes, see Idle

vars == <<freemap, din, sin, lock, proc>>

Locks == {"mutex", "fs"} \cup Ino

NewInode(type) == [type |-> type, nlinks |-> 0, parent |-> NoIno, entry |-> [n \in Name |-> NoIno]]
NoSin == [ref |-> 0, reclaim_count |-> 0, removed |-> FALSE]

\* A process between two system calls, with its working directory and a file or
\* directory that it has open.  During a call, pc tells where it sleeps, or that it has
\* failed an assertion and the kernel has stopped ("panic").
Idle(cwd, fd) == [pc |-> "idle", op |-> "none", dir2 |-> NoIno, name |-> NoName,
                  name2 |-> NoName, ino |-> NoIno, cwd |-> cwd, fd |-> fd]

\* A fresh disk (mksfs.c), and the processes in its root directory, to which the boot
\* file system has a reference too.
Init ==
  /\ freemap = Ino \ {Root}
  /\ din = [i \in Ino |-> IF i = Root
                          THEN [NewInode("dir") EXCEPT !.nlinks = 2, !.parent = Root]
                          ELSE NewInode("file")]
  /\ sin = [i \in Ino |-> IF i = Root
                          THEN [NoSin EXCEPT !.ref = Cardinality(Proc) + 1, !.reclaim_count = 1]
                          ELSE NoSin]
  /\ lock = [l \in Locks |-> << >>]
  /\ proc = [p \in Proc |-> Idle(Root, NoIno)]
-----------------------------------------------------------------------------
Cached(i) == i # NoIno /\ sin[i].reclaim_count > 0

\* sfs_block_inuse, which panics for block 0, and a link: what sfs_load_inode asserts.
Loadable(i) == i # NoIno /\ i \notin freemap /\ din[i].nlinks > 0

\* p has the lock l, and does not wait for it once more.
Waits(p, l) == \E k \in 2..Len(lock[l]) : lock[l][k] = p
Holds(p, l) == lock[l] # << >> /\ Head(lock[l]) = p /\ ~Waits(p, l)

IsDir(i) == din[i].type = "dir"
Dir(p) == proc[p].cwd

\* Mutant: the last one to wait is the first to be woken.
DownLast(L, l, p) == [L EXCEPT ![l] = IF @ = << >> THEN <<p>> ELSE <<Head(@), p>> \o Tail(@)]

\* down and up
Down(L, l, p) == [L EXCEPT ![l] = Append(@, p)]
Up(L, l) == [L EXCEPT ![l] = Tail(@)]

\* The locks when p has released all that it holds, as each operation does at its end.
UpAll(L, p) ==
  [l \in Locks |-> IF L[l] # << >> /\ Head(L[l]) = p THEN Tail(L[l]) ELSE L[l]]

Goto(p, pc) == proc' = [proc EXCEPT ![p].pc = pc]
Return(p, cwd, fd) == proc' = [proc EXCEPT ![p] = Idle(cwd, fd)]

\* The operation ends without a result.
Fail(p) == /\ Return(p, proc[p].cwd, proc[p].fd)
           /\ lock' = UpAll(lock, p)

\* vop_ref_dec on i, the last thing the operation does but for releasing its locks; S
\* and L are the cache and the locks by then, r the process after the call.  The last
\* reference leads to sfs_reclaim.
Drop(p, i, S, L, r) ==
  /\ sin' = [S EXCEPT ![i].ref = @ - 1]
  /\ IF S[i].ref = 1
     THEN /\ lock' = Down(L, "fs", p)
          /\ proc' = [proc EXCEPT ![p] = [r EXCEPT !.pc = "reclaim", !.op = proc[p].op, !.ino = i]]
     ELSE /\ lock' = UpAll(L, p)
          /\ proc' = [proc EXCEPT ![p] = r]

Back(p) == Idle(proc[p].cwd, proc[p].fd)

\* The first step of an operation on the working directory: trylock_sin up to down().
TryLock(p, op, n) ==
  /\ ~sin[Dir(p)].removed
  /\ lock' = Down(lock, Dir(p), p)
  /\ proc' = [proc EXCEPT ![p] = [@ EXCEPT !.pc = "dir", !.op = op, !.name = n]]
  /\ UNCHANGED <<freemap, din, sin>>

\* sfs_lookup of one component (sfs_lookup_once), sfs_create, sfs_mkdir, sfs_link
Begin(p, op, n) ==
  /\ proc[p].pc = "idle"
  /\ op \in {"lookup", "create"} => proc[p].fd = NoIno
  /\ op = "link" => proc[p].fd # NoIno /\ ~IsDir(proc[p].fd)
  /\ TryLock(p, op, n)

\* Mutant: rename does without the mutex.
BeginMutexUnlink(p, op, n, d2, n2) ==
  /\ proc[p].pc = "idle"
  /\ op = "rename" => /\ ~sin[Dir(p)].removed
                      /\ \/ d2 = Dir(p) /\ n2 # n
                         \/ d2 = proc[p].fd /\ d2 # Dir(p) /\ IsDir(d2)
  /\ lock' = Down(lock, IF op = "rename" THEN Dir(p) ELSE "mutex", p)
  /\ proc' = [proc EXCEPT ![p] = [@ EXCEPT !.pc = IF op = "rename" THEN "dir" ELSE "mutex",
                                           !.op = op, !.name = n, !.dir2 = d2, !.name2 = n2]]
  /\ UNCHANGED <<freemap, din, sin>>

\* sfs_unlink and sfs_rename take the mutex first.  The new place is a name of the
\* working directory or of the directory that the process has found.
BeginMutex(p, op, n, d2, n2) ==
  /\ proc[p].pc = "idle"
  /\ op = "rename" => \/ d2 = Dir(p) /\ n2 # n
                      \/ d2 = proc[p].fd /\ d2 # Dir(p) /\ IsDir(d2)
  /\ lock' = Down(lock, "mutex", p)
  /\ proc' = [proc EXCEPT ![p] = [@ EXCEPT !.pc = "mutex", !.op = op, !.name = n,
                                           !.dir2 = d2, !.name2 = n2]]
  /\ UNCHANGED <<freemap, din, sin>>

HaveMutex(p) ==
  /\ proc[p].pc = "mutex" /\ Holds(p, "mutex")
  /\ IF sin[Dir(p)].removed THEN Fail(p)
     ELSE Goto(p, "dir") /\ lock' = Down(lock, Dir(p), p)
  /\ UNCHANGED <<freemap, din, sin>>

\* trylock_sin after down(), on the working directory and then on the second one.
HaveDir(p) ==
  LET two == proc[p].op = "rename" /\ proc[p].dir2 # Dir(p) IN
    /\ proc[p].pc = "dir" /\ Holds(p, Dir(p))
    /\ IF sin[Dir(p)].removed \/ (two /\ sin[proc[p].dir2].removed) THEN Fail(p)
       ELSE IF two THEN Goto(p, "dir2") /\ lock' = Down(lock, proc[p].dir2, p)
       ELSE Goto(p, "search") /\ UNCHANGED lock
    /\ UNCHANGED <<freemap, din, sin>>

HaveDir2(p) ==
  /\ proc[p].pc = "dir2" /\ Holds(p, proc[p].dir2)
  /\ IF sin[proc[p].dir2].removed THEN Fail(p) ELSE Goto(p, "search") /\ UNCHANGED lock
  /\ UNCHANGED <<freemap, din, sin>>

\* sfs_dirent_search_nolock, when its kmalloc has returned, and what each operation
\* does next; sfs_lookup_once releases the directory here.  The call ends if there was
\* no memory, or if the name is not there, or there already.
Search(p) ==
  LET r == proc[p]
      i == din[Dir(p)].entry[r.name]
      load(L) == /\ lock' = Down(L, "fs", p)
                 /\ proc' = [proc EXCEPT ![p].pc = "fs", ![p].ino = i]
  IN /\ r.pc = "search"
     /\ \/ Fail(p)
        \/ /\ r.op \in {"create", "mkdir", "link"} /\ i = NoIno
           /\ Goto(p, IF r.op = "link" THEN "write" ELSE "new")
           /\ UNCHANGED lock
        \/ r.op = "create" /\ i # NoIno /\ load(lock)
        \/ r.op = "lookup" /\ i # NoIno /\ load(Up(lock, Dir(p)))
        \/ r.op = "unlink" /\ i # NoIno /\ load(lock)
        \/ /\ r.op = "rename" /\ i # NoIno /\ din[r.dir2].entry[r.name2] = NoIno
           /\ IF r.dir2 # Dir(p) THEN load(lock)
              ELSE /\ proc' = [proc EXCEPT ![p].pc = "write", ![p].ino = i]
                   /\ UNCHANGED lock
     /\ UNCHANGED <<freemap, din, sin>>
-----------------------------------------------------------------------------
\* trylock_sin in sfs_namefile up to down(), on the directory d just loaded, in which
\* child is to be found.
LockParent(p, d, child, S, L) ==
  IF S[d].removed THEN Drop(p, d, S, L, Back(p))
  ELSE /\ sin' = S
       /\ lock' = Down(L, d, p)
       /\ proc' = [proc EXCEPT ![p] = [@ EXCEPT !.pc = "parent", !.dir2 = d, !.ino = child]]

\* What each operation does with the inode that sfs_load_inode has found; S and L are
\* the cache and the locks after it.  In sfs_namefile dir2 is the node whose parent
\* was loaded; its reference goes, and the kernel stops if the parent is the node itself
\* or no directory.
Loaded(p, S, L) ==
  LET r == proc[p]
      i == r.ino
      go(pc, M) == Goto(p, pc) /\ sin' = S /\ lock' = M
  IN CASE r.op \in {"lookup", "dotdot"} \/ (r.op = "create" /\ ~IsDir(i)) ->
            sin' = S /\ lock' = UpAll(L, p) /\ Return(p, r.cwd, i)
       [] r.op = "create" /\ IsDir(i) -> Drop(p, i, S, L, Back(p))
       [] r.op = "unlink" /\ IsDir(i) -> IF S[i].removed THEN Drop(p, i, S, L, Back(p))
                                         ELSE go("child", Down(L, i, p))
       [] r.op = "rename" \/ (r.op = "unlink" /\ ~IsDir(i)) -> go("write", L)
       [] r.op = "getcwd" /\ (i = r.dir2 \/ ~IsDir(i)) -> Goto(p, "panic") /\ UNCHANGED <<sin, lock>>
       [] r.op = "getcwd" /\ i # r.dir2 /\ IsDir(i) ->
            IF S[r.dir2].ref > 1 THEN LockParent(p, i, r.dir2, [S EXCEPT ![r.dir2].ref = @ - 1], L)
            ELSE /\ sin' = [S EXCEPT ![r.dir2].ref = 0]
                 /\ lock' = Down(L, "fs", p)
                 /\ proc' = [proc EXCEPT ![p] = [@ EXCEPT !.pc = "reclaim", !.ino = r.dir2, !.dir2 = i]]

\* Mutant: the reclaim that is under way is not told.
HaveFsQuiet(p) ==
  LET i == proc[p].ino IN
    /\ proc[p].pc = "fs" /\ Holds(p, "fs")
    /\ IF ~Cached(i) THEN Goto(p, "load") /\ UNCHANGED <<sin, lock>>
       ELSE Loaded(p, [sin EXCEPT ![i].ref = @ + 1], Up(lock, "fs"))
    /\ UNCHANGED <<freemap, din>>

\* sfs_load_inode: lookup_sfs_nolock finds it in the cache, or memory is allocated
\* with fs_sem held.  lookup_sfs_nolock may find an inode that waits to be reclaimed.
HaveFs(p) ==
  LET i == proc[p].ino IN
    /\ proc[p].pc = "fs" /\ Holds(p, "fs")
    /\ IF ~Cached(i) THEN Goto(p, "load") /\ UNCHANGED <<sin, lock>>
       ELSE Loaded(p, [sin EXCEPT ![i] = [@ EXCEPT !.ref = sin[i].ref + 1,
                         !.reclaim_count = IF sin[i].ref = 0 THEN @ + 1 ELSE @]], Up(lock, "fs"))
    /\ UNCHANGED <<freemap, din>>

\* Its inode is read from the disk; or there was no memory.  The kernel stops if the
\* inode is not in use.
Load(p) ==
  LET r == proc[p]
      i == r.ino
  IN /\ r.pc = "load" /\ Loadable(i)
     /\ \/ Loaded(p, [sin EXCEPT ![i].ref = 1, ![i].reclaim_count = 1], Up(lock, "fs"))
        \/ IF r.op = "getcwd" THEN Drop(p, r.dir2, sin, Up(lock, "fs"), Back(p))
           ELSE Fail(p) /\ UNCHANGED sin
     /\ UNCHANGED <<freemap, din>>

\* sfs_dirent_create_inode: a block, and the memory, or neither.
New(p) ==
  /\ proc[p].pc = "new"
  /\ \/ \E i \in freemap :
          /\ freemap' = freemap \ {i}
          /\ din' = [din EXCEPT ![i] = NewInode(IF proc[p].op = "mkdir" THEN "dir" ELSE "file")]
          /\ proc' = [proc EXCEPT ![p].pc = "newfs", ![p].ino = i]
          /\ lock' = Down(lock, "fs", p)
     \/ Fail(p) /\ UNCHANGED <<freemap, din>>
  /\ UNCHANGED sin

NewLinked(p) ==
  /\ proc[p].pc = "newfs" /\ Holds(p, "fs")
  /\ sin' = [sin EXCEPT ![proc[p].ino].ref = 1, ![proc[p].ino].reclaim_count = 1]
  /\ lock' = Up(lock, "fs")
  /\ Goto(p, "write")
  /\ UNCHANGED <<freemap, din>>

\* sfs_unlink_nolock has the lock of the directory that it removes.
HaveChild(p) ==
  LET i == proc[p].ino IN
    /\ proc[p].pc = "child" /\ Holds(p, i)
    /\ IF sin[i].removed \/ \E n \in Name : din[i].entry[n] # NoIno
       THEN Drop(p, i, sin, Up(lock, i), Back(p))
       ELSE Goto(p, "write") /\ UNCHANGED <<sin, lock>>
    /\ UNCHANGED <<freemap, din>>
-----------------------------------------------------------------------------
\* The inodes after sfs_dirent_link_nolock and sfs_dirent_unlink_nolock of i in d,
\* with the '..' link of a directory.
Linked(D, d, n, i) ==
  [D EXCEPT ![i].nlinks = @ + 1,
            ![d] = [@ EXCEPT !.entry[n] = i, !.nlinks = IF IsDir(i) THEN @ + 1 ELSE @]]
Unlinked(D, d, n, i) ==
  [D EXCEPT ![i].nlinks = @ - 1,
            ![d] = [@ EXCEPT !.entry[n] = NoIno, !.nlinks = IF IsDir(i) THEN @ - 1 ELSE @]]

\* sfs_dirent_write_nolock has its memory and, for a new slot, its block.
WriteDone(p) ==
  LET r == proc[p]
      i == r.ino
      d == Dir(p)
  IN /\ r.pc = "write"
     /\ \/ /\ r.op = "create"
           /\ din' = Linked(din, d, r.name, i)
           /\ lock' = UpAll(lock, p) /\ Return(p, r.cwd, i) /\ UNCHANGED sin
        \/ /\ r.op = "mkdir"
           /\ din' = [Linked(din, d, r.name, i) EXCEPT ![i].parent = d, ![i].nlinks = @ + 1]
           /\ Drop(p, i, sin, lock, Back(p))
        \/ /\ r.op = "link"
           /\ din' = Linked(din, d, r.name, r.fd)
           /\ Fail(p) /\ UNCHANGED sin
        \/ /\ r.op = "unlink" /\ ~IsDir(i)
           /\ din' = Unlinked(din, d, r.name, i)
           /\ Drop(p, i, sin, lock, Back(p))
        \/ /\ r.op = "unlink" /\ IsDir(i)
           /\ din' = [Unlinked(din, d, r.name, i) EXCEPT ![i].nlinks = @ - 1]
           /\ Drop(p, i, [sin EXCEPT ![i].removed = TRUE], Up(lock, i), Back(p))
        \/ /\ r.op = "rename" /\ r.dir2 = d
           /\ din' = [din EXCEPT ![d].entry[r.name] = NoIno, ![d].entry[r.name2] = i]
           /\ Fail(p) /\ UNCHANGED sin
        \/ /\ r.op = "rename" /\ r.dir2 # d
           /\ din' = Unlinked(din, d, r.name, i)
           /\ Goto(p, "write2") /\ UNCHANGED <<sin, lock>>
     /\ UNCHANGED freemap

\* It has not: nothing is changed, and the inode loaded or created is dropped.
WriteFails(p) ==
  LET r == proc[p]
      L == IF r.op = "unlink" /\ IsDir(r.ino) THEN Up(lock, r.ino) ELSE lock
  IN /\ r.pc = "write"
     /\ IF r.op = "link" \/ (r.op = "rename" /\ r.dir2 = Dir(p)) THEN Fail(p) /\ UNCHANGED sin
        ELSE Drop(p, r.ino, sin, L, Back(p))
     /\ UNCHANGED <<freemap, din>>

\* The second half of sfs_rename2_nolock: the new link, or the old one again.
RenameDone(p) ==
  LET r == proc[p]
      i == r.ino
  IN /\ r.pc = "write2"
     /\ din' = [Linked(din, r.dir2, r.name2, i) EXCEPT
                  ![i].parent = IF IsDir(i) THEN r.dir2 ELSE @]
     /\ Drop(p, i, sin, lock, Back(p))
     /\ UNCHANGED freemap

\* Mutant: the old entry is written again, and the links are not counted.
RenameUndoneHalf(p) ==
  LET r == proc[p] IN
    /\ r.pc = "write2"
    /\ din' = [din EXCEPT ![Dir(p)].entry[r.name] = r.ino]
    /\ Drop(p, r.ino, sin, lock, Back(p))
    /\ UNCHANGED freemap

RenameUndone(p) ==
  LET r == proc[p] IN
    /\ r.pc = "write2"
    /\ din' = Linked(din, Dir(p), r.name, r.ino)
    /\ Drop(p, r.ino, sin, lock, Back(p))
    /\ UNCHANGED freemap

\* There is no memory for the old link either: sfs_dirent_link_nolock_check warns, and
\* the file has lost its name.
RenameLost(p) ==
  /\ proc[p].pc = "write2" /\ LosesName
  /\ Drop(p, proc[p].ino, sin, lock, Back(p))
  /\ UNCHANGED <<freemap, din>>

\* sfs_reclaim with fs_sem: an inode that was looked up again stays; one without links
\* gives its block back.
Reclaim(p) ==
  LET r == proc[p]
      i == r.ino
      last == sin[i].reclaim_count = 1
      S == [sin EXCEPT ![i] = IF last THEN NoSin ELSE [@ EXCEPT !.reclaim_count = @ - 1]]
  IN /\ r.pc = "reclaim" /\ Holds(p, "fs")
     /\ IF last /\ din[i].nlinks = 0
        THEN freemap' = freemap \cup {i} /\ din' = [din EXCEPT ![i] = NewInode("file")]
        ELSE UNCHANGED <<freemap, din>>
     /\ IF r.op = "getcwd" /\ r.dir2 # NoIno THEN LockParent(p, r.dir2, i, S, Up(lock, "fs"))
        ELSE sin' = S /\ Return(p, r.cwd, r.fd) /\ lock' = UpAll(lock, p)
-----------------------------------------------------------------------------
\* sfs_lookup of "..": sfs_load_parent, also from a removed directory.
DotDot(p) ==
  /\ proc[p].pc = "idle" /\ proc[p].fd = NoIno
  /\ sin[Dir(p)].removed => FromRemoved
  /\ lock' = Down(lock, "fs", p)
  /\ proc' = [proc EXCEPT ![p] = [@ EXCEPT !.pc = "fs", !.op = "dotdot", !.ino = din[Dir(p)].parent]]
  /\ UNCHANGED <<freemap, din, sin>>

\* sfs_namefile, from the working directory up to the root.
Getcwd(p) ==
  /\ proc[p].pc = "idle" /\ Dir(p) # Root
  /\ sin[Dir(p)].removed => FromRemoved
  /\ sin' = [sin EXCEPT ![Dir(p)].ref = @ + 1]
  /\ lock' = Down(lock, "fs", p)
  /\ proc' = [proc EXCEPT ![p] = [@ EXCEPT !.pc = "fs", !.op = "getcwd", !.dir2 = Dir(p),
                                           !.ino = din[Dir(p)].parent]]
  /\ UNCHANGED <<freemap, din>>

\* It has the lock of the parent.  The call ends at the root, and fails if the parent is
\* removed, does not list the child, or its name has no room in the buffer.
HaveParent(p) ==
  LET d == proc[p].dir2
      child == proc[p].ino
  IN /\ proc[p].pc = "parent" /\ Holds(p, d)
     /\ \/ Drop(p, d, sin, Up(lock, d), Back(p))
        \/ /\ ~sin[d].removed /\ d # Root /\ \E n \in Name : din[d].entry[n] = child
           /\ lock' = Down(Up(lock, d), "fs", p)
           /\ proc' = [proc EXCEPT ![p].pc = "fs", ![p].ino = din[d].parent]
           /\ UNCHANGED sin
     /\ UNCHANGED <<freemap, din>>

\* file_close, and vfs_chdir to what was found.
Close(p) ==
  /\ proc[p].pc = "idle" /\ proc[p].fd # NoIno
  /\ Drop(p, proc[p].fd, sin, lock, Idle(proc[p].cwd, NoIno))
  /\ UNCHANGED <<freemap, din>>

Chdir(p) ==
  /\ proc[p].pc = "idle" /\ proc[p].fd # NoIno /\ IsDir(proc[p].fd)
  /\ Drop(p, proc[p].cwd, sin, lock, Idle(proc[p].fd, NoIno))
  /\ UNCHANGED <<freemap, din>>

Step(p) ==
  \/ HaveMutex(p) \/ HaveDir(p) \/ HaveDir2(p) \/ Search(p)
  \/ HaveFs(p) \/ Load(p) \/ New(p) \/ NewLinked(p) \/ HaveChild(p)
  \/ WriteDone(p) \/ WriteFails(p) \/ RenameDone(p) \/ RenameUndone(p)
  \/ RenameLost(p) \/ Reclaim(p) \/ HaveParent(p)

Call(p) ==
  \/ (\E n \in Common : Begin(p, "lookup", n)) \/ Close(p)
  \/ p \in Asker \cup (Proc \ Reader) /\ (DotDot(p) \/ Chdir(p))
  \/ p \in Asker /\ Getcwd(p)
  \/ /\ p \notin Reader
     /\ \/ \E op \in {"create", "mkdir", "link"}, n \in Common : Begin(p, op, n)
        \/ \E n \in Common : BeginMutex(p, "unlink", n, NoIno, NoName)
        \/ \E n, n2 \in Name, d2 \in Ino : BeginMutex(p, "rename", n, d2, n2)

Next ==
  /\ \A p \in Proc : proc[p].pc # "panic"
  /\ \E p \in Proc : Step(p) \/ Call(p)

Spec == Init /\ [][Next]_vars
-----------------------------------------------------------------------------
\* The references to i: working directories, open files, and what a call in progress
\* has loaded or created and not yet dropped.
Refs(i) ==
  Cardinality({p \in Proc : proc[p].cwd = i}) + Cardinality({p \in Proc : proc[p].fd = i})
  + Cardinality({p \in Proc : proc[p].pc \in {"child", "write", "write2"} /\ proc[p].ino = i
                              /\ ~(proc[p].op = "rename" /\ proc[p].dir2 = Dir(p))})
  + Cardinality({p \in Proc : proc[p].op = "getcwd" /\ proc[p].dir2 = i})
  + (IF i = Root THEN 1 ELSE 0)

\* ref_count and reclaim_count are exact: the first counts the references, the second
\* the reclaims under way and one more while there is a reference.  So an inode is
\* dropped from the cache by the last of several reclaims only, never while somebody
\* has it, and the assertions of sfs_reclaim hold.
RefsExact ==
  \A i \in Ino :
    LET refs == Refs(i) IN
      /\ sin[i].ref = refs
      /\ sin[i].reclaim_count = Cardinality({p \in Proc : proc[p].pc = "reclaim" /\ proc[p].ino = i})
                                + (IF refs > 0 THEN 1 ELSE 0)

\* The number of links of an inode is the number of entries that name it, and for a
\* directory that is not removed the one of '.' and one '..' of each directory in it;
\* an inode with links is in use, and what has neither links nor references is free.
\* This holds at every point where a process may sleep, also half-way through a
\* rename, after a call that found the disk full, and of a directory moved into itself.
\* The inode of a removed directory's parent may be somebody else's by now: from there
\* (FromRemoved, LoadsInodes) a process can add to a directory that is half made.
LinksExact ==
  \A i \in Ino :
    LET names == {x \in Ino \X Name : din[x[1]].entry[x[2]] = i}
        subdirs == {n \in Name : din[i].entry[n] # NoIno /\ IsDir(din[i].entry[n])}
        made == \A p \in Proc : ~(proc[p].op = "mkdir" /\ proc[p].ino = i /\ proc[p].pc \in {"newfs", "write"})
    IN /\ i \notin freemap /\ made =>
            din[i].nlinks = Cardinality(names)
              + (IF IsDir(i) /\ ~sin[i].removed /\ din[i].nlinks > 0 THEN 1 + Cardinality(subdirs) ELSE 0)
              + (IF i = Root THEN 1 ELSE 0)
       /\ i \in freemap => names = {} /\ ~Cached(i)
       /\ i \notin freemap => Cached(i) \/ din[i].nlinks > 0 \/ \E p \in Proc : proc[p].pc = "newfs" /\ proc[p].ino = i

\* A name that was found can be loaded, although its directory is unlocked before
\* fs_sem is taken: nobody removes the file and frees its inode in between.  It rests
\* on fs_sem being granted in the order of the requests.
FoundIsLoadable ==
  \A p \in Proc :
    proc[p].pc \in {"fs", "load"} /\ proc[p].op \notin {"dotdot", "getcwd"} =>
      Loadable(proc[p].ino)

\* Some directories are each in another one of them, or one is in itself: they are cut
\* off from the root.
HasLoop ==
  \E I \in SUBSET Ino : /\ I # {}
                        /\ \A i \in I : IsDir(i) /\ \E d \in I, n \in Name : din[d].entry[n] = i

\* Processes wait for each other in a circle only if a directory was moved into itself
\* or below, which sfs_rename does not prevent.  Then unlink waits for the lock of the
\* directory that it holds already.
Blocked(B) == \A p \in B : \E l \in Locks : Waits(p, l) /\ Head(lock[l]) \in B
NoCircularWait == (\E B \in SUBSET Proc : B # {} /\ Blocked(B)) => HasLoop

\* The assertions of sfs_load_inode hold: what a process reads from the disk as an
\* inode is in use and has links.
LoadsInodes == \A p \in Proc : proc[p].pc = "load" => Loadable(proc[p].ino)
=============================================================================
