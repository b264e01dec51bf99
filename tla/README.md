# A TLA+ model of the uCore kernel

This directory holds TLA+ specifications of the uCore kernel in `src/src/kern-ucore` and
of the allocator of its user library. TLC checks them on small instances, and TLAPS proves
theorems about nine of them for every value of their constants. `PROJECT.json` is the
machine-readable index: components, runs, mutants, the map from definitions to source
lines, findings, hazards and theorems.

## 1. The system

uCore is a teaching kernel with processes and threads, a multi-level feedback scheduler,
semaphores, events, mailboxes, pipes, a VFS with a simple file system (SFS), virtual memory
with swapping, and loadable modules. It runs on i386, x86_64, or32 and as a Linux process
(um). The models follow the i386 port, which uses one processor.

**Concurrency.** The kernel is not preemptible. A process leaves the processor only

* in a `schedule()` it calls itself: `__down`, `do_wait`, `do_sleep`, `send_event`,
  `recv_event`, `send_msg`, `recv_msg`, the wait queues of a pipe, `try_free_pages`
  (from any allocation that finds no memory), `dev_stdin_read`;
* at the end of `trap()`, on the way to user mode: `may_killed()` and then `schedule()` if
  `need_resched` is set (`arch/i386/glue-ucore/trap.c:216-238`).

Interrupts are enabled in the kernel outside `local_intr_save` sections: the clock
(`run_timer_list`) and the keyboard (`dev_stdin_write`) may wake a process anywhere else,
also one that has marked itself `PROC_SLEEPING` and has not reached `schedule()` yet. So a
system call is a few atomic steps, cut where it may sleep, and that is the grain of the
actions below. What is hard in this code is what happens at the cuts: a sleeper can be
woken by its partner, by a timer, by a kill or by the object going away, two of these may
happen before it runs again, and what it read before it slept may be stale.

| Part | What is hard | Modules | Run |
|---|---|---|---|
| timer list (`schedule/sched.c`) | deltas relative to the predecessor, deletion in the middle | `TimerConst`, `TimerList`, `Timers` | `kernel` |
| kernel semaphore (`sync/sem.c`, `wait.c`) | the unit is handed to a process that has not run yet | `KSem` | `kernel` |
| pids (`get_pid`) | a window of pids that are not scanned, two wraps | `Pid` | `kernel` |
| keyboard (`fs/devs/dev_stdin.c`) | a ring buffer that overwrites when full, several readers | `Stdin` | `kernel` |
| scheduler (`schedule/`) | wake-up before the switch, demotion, timers on the stack | `Sched` | `sched` |
| user semaphores (`sync/sem.c`, `copy_sem`) | reference lists shared, copied while their owner sleeps, freed lazily; timeouts | `UserSem` | `ipc`, `usem_assert` |
| events (`sync/event.c`) | timer, receiver and its exit end one send | `WaitQueue`, `Event` | `ipc` |
| mailboxes (`sync/mbox.c`) | closing with users inside, lost wake-ups, failed copies | `WaitQueue`, `Mbox` | `ipc` |
| process life (`process/proc.c`) | orphans, thread groups, kill at the wrong moment | `ProcLife` | `proclife`, `proclife_wait` |
| pipes (`fs/pipe`) | close and release with sleepers, wrap of the ring | `Pipe` | `files` |
| open files (`fs/file.c`, `fs.c`, `sysfile.c`, VFS counters) | a descriptor closed or reused under a sleeping read | `Files` | `files` |
| SFS files | three levels of block maps, a full disk, inodes written back | `SfsFile` | `sfs` |
| SFS directories and inode cache | look-up against unlink, rename and reclaim; lock order | `SfsTree` | `sfs`, `sfs_removed` |
| areas (`mm/vmm.c`) | splitting, joining, `mmap_cache` | `Vma`, `AddrSpace` | `memory` |
| page faults, copy on write, shared memory, swapping | counts split over frames and disk; handshake with `kswapd`; faults that slept | `Vm` | `memory`, `vm_dirty`, `vm_served` |
| red-black tree (`libs/rb_tree.c`) | re-balancing after a deletion | `RbTree` | `memory` |
| page allocator (`arch/i386/mm/buddy_pmm.c`) | blocks of any length, zones of any size | `Buddy` | `memory` |
| user `malloc` (`libs-user-ucore/malloc.c`) | joining free neighbours, two sources of memory | `Malloc` | `memory` |

Section 6 lists what is not modelled.

## 2. The modules

Each component module declares its state, one action per step of a handler, and its
properties. Operators introduced by a comment `Mutant:` are wrong variants of the
definition that follows them. The specification does not use them; they show that the
properties notice such a bug. An `MC` module with its `.cfg` files gives the constants for
TLC. Several components share a run: the `MC` module then has a variable `part`, chosen at
the beginning, that says which component or instance moves; there is no interaction
between parts. A `Proofs` module extends its components with their theorems.

**Timers, TimerList** (with `TimerConst` for the constants). `Timers` is what callers rely
on: a set of armed timers, each with ticks left; a tick fires exactly those with none left.
`TimerList` is the code: each iteration of the loops of `add_timer` and `run_timer_list` is
an action, and a history variable `due` holds the ticks really left. `ImplementsTimers` is
the refinement.

**KSem.** One kernel semaphore: `down`, `try_down`, `up`. `up()` gives the unit to the first
waiter without incrementing the value. Every kernel lock is such a semaphore, and the other
modules use its result: locks are handed over first come, first served.

**Pid.** `get_pid`, one action per element of its scan, with the limit check of `do_fork`
separated from it, since `do_fork` sleeps for memory in between.

**Stdin.** The keyboard interrupt, readers that sleep until they have what they asked for,
and kills. A character is its number in the order of typing. A key typed into a full buffer
is written over the cell that is read next, and the positions stay: in a buffer of two,
the keys 1 2 3 4 leave 4 2. `KeysKept` says so much and no more.

**Sched.** `wakeup_proc`, `schedule`, `RR_*` and `MLFQ_*`, with the steps of processes that
call them. The clock interrupt is three actions (begin, one per expiring timer, end), so
that it can come between `state = PROC_SLEEPING` and `schedule()`. Which timers expire is
left open (any armed one); `Timers` says which.

**UserSem.** The semaphores of user processes, and the `sem_queue_t` lists of references,
which fork shares (threads) or copies (`dup_sem_queue`, one action per reference because
its `kmalloc` may sleep), exit drops and exec replaces. `panicked` is set where an assertion
of `__up` would fail.

**WaitQueue, Event.** `ipc_event_send` and `ipc_event_recv`, cut at their `schedule()`. The
value of an event is left out: a sender writes it before it sleeps, the receiver reads it in
the step that wakes the sender. `taken` is a history variable.

**Mbox.** One page of mailboxes. A record per mailbox carries the fields of `struct
msg_mbox`. `live` holds the allocated messages, so that leaks and double frees show. A
failed copy puts the message back in front (`RecvStore`), which may find the mailbox full,
closed, or another one that has got the same number.

**ProcLife.** Fork, threads, exit, kill, wait and the part of exec that leaves the thread
group; the loop of `init_main`. A pid is the slot of its process. The ring of a thread group
is abstracted to a set: the thread that inherits the children of an exiting one is any other
thread of the group. `do_kill` is called for user processes only: killing pid 1, which the
code allows, is left out. Exit codes are left out.

**Pipe, Files.** `Pipe` has the operations of `pipe_state.c` as operators on a record,
`Files` the processes that run them: descriptor tables shared by threads and copied by fork,
the counters of files and inodes, and the rounds of `sysfile_read` and `sysfile_write`,
between which the process may sleep in a copy to or from user memory, and which look the
descriptor up again. A copy may fail (`IoFault`); the bytes read are then gone. On i386
`copy_thread` cannot fail, so `Fork` has no step that undoes a copied table after it.

**SfsFile.** The free map, block maps, reading, writing, seeking, truncating, unlinking,
`fsync`, and what becomes of the in-memory inode at the last close. No operation sleeps with
the inode locked (the disk is polled), so each is one step. `dropped` marks a case of the
code: `sfs_bmap_load_nolock` counts a block in the indirect range without setting `dirty`,
and when the inode is dropped before it is written the blocks are lost. `BlocksOwned` and
`FileContents` are about inodes to which that has not happened.

**SfsTree.** Directories and the inode cache, cut at every semaphore and allocation. A lock
is the sequence of its holder and its waiters. Every operation may fail where it looks
around or allocates. `Reader`, `Asker` and `Common` say which processes only look up,
which ones ask for their path, and which names everybody uses. `LosesName` allows a rename
that can neither write the new entry nor put the old one back; a directory that loses its
name this way keeps the link of its `.`, and its block is never freed. With `FromRemoved`
FALSE nobody goes up from a removed directory: `sfs_removed` shows what happens if one does.

**Vma, AddrSpace.** `AddrSpace` is a map from pages to what backs them. `Vma` is the code: sorted
areas, `mmap_cache`, `mmap`, `munmap`, `shmem`, `brk`, fork and exit. Each call holds the lock of
its mm. `mm_unmap` that makes a hole in a shared area creates the lower part without its
`shmem_struct` (`vmm.c:384-392`). The model has that case in full: such an area is backed by
"null", and the kernel stops (`stopped`) at the next call that uses the pointer: `vma_destroy`,
`dup_mmap`, a page fault or `kswapd`. `Split` of `AddrSpace` is what callers get.

**Vm.** Page table entries, frames, swap entries, shared memory, `do_pgfault`, fork, exit,
unmap and `kswapd`. A process in the kernel gives the processor away where an allocation finds
no frame; it keeps the lock of its mm meanwhile, and a fault of another thread waits in
`lock_mm`. Waiters for the lock are served in any order (the code: first come, first served).
`kswapd` needs no lock. The order of its two lists is left open. `mem` is history: the value
last stored to each page. `Forget` = TRUE makes the model forget that value where `page_insert`
loses the dirty bit (finding `vm_dirty`), so that the rest of `MemoryKept` can be checked.

**RbTree, Buddy, Malloc.** Sequential algorithms, checked against a reference definition
over all short histories: `rb_insert` and `rb_delete` with their rotations, the buddy system,
and the free list of `malloc`. The tree serves the areas of an mm that has many of them;
shared memory is a list in this code.

In all modules but `Sched` the scheduler is abstracted: a process that is awake may take its
next step at any time. `Sched` justifies that: a woken process is in a run queue
(`RunQueueConsistent`), a sleeping one is not run (`RunsAwake`).

## 3. What is checked

| Run | Instance | Properties |
|---|---|---|
| `kernel` | 3 timers with timeouts up to 3; 5 processes on a semaphore of value 2; `MAX_PROCESS` 5, one processor; 3 readers, buffer of 2, 5 keys | `DeltasExact`, `TimerFires`, `ImplementsTimers`; `UnitsConserved`, `NoOvertaking`, `DownReturns`; `UniquePids`, `GetPidReturns`; `KeyWakesAll`, `KeysKept` |
| `sched` | 3 processes, 2 queues with slices 1 and 2 | `RunQueueConsistent`, `SliceBounded`, `TimerOwnerWaits`, `FirstQueueRuns` |
| `ipc` | 3 processes; 2 semaphores, 3 lists, values to 1; 1 mailbox of 1 or 2 slots, 4 messages of which one is big | `CountsExact`, `SleeperReachable`; `TakenOnce`, `NoMissedSender`; `MsgOwned`, `NoLostWakeup` |
| `proclife` | 3 user processes beside `initproc` and `kswapd` | `ParentAlive`, `ZombieNoticed`, `InitEndsLast` |
| `files` | 2 processes, 2 tables of 3 descriptors, 1 pipe with a buffer of 2 | `CountsExact`, `SleeperHasPeer`, `PipeInOrder` |
| `sfs` | a file opened twice on a disk of 8 blocks, two files on one of 7; four instances of directories: two processes with two directories, two processes with two names, one writer with two readers, one writer that may lose a name with one reader | `BlocksOwned`, `FileContents`; `RefsExact`, `LinksExact`, `FoundIsLoadable`, `NoCircularWait` |
| `memory` | 2 processes with a private page and 3 with a shared page, 2 frames, 2 swap entries; one address space of 4 pages, two of 2, two of 3 with nothing but shared memory; trees of up to 9 nodes; zones of 7 and 2 pages; a heap of 8 units | `RefsExact`, `MemoryKept`, `WaiterServed`; `AreasSound`, `ImplementsAddrSpace`; `TreeSound`; `PagesOwned`; `MemoryOwned` |
| `usem_assert`, `proclife_wait`, `sfs_removed`, `vm_dirty`, `vm_served` | small instances of the same modules | one violated property each, see section 4 |

What the properties say is in the comment before each. In short: counters equal the number
of things they count (`CountsExact`, `RefsExact`, `LinksExact`), nothing has two owners or
none (`UnitsConserved`, `MsgOwned`, `BlocksOwned`, `PagesOwned`, `MemoryOwned`), nobody sleeps
beside what it waits for (`KeyWakesAll`, `NoMissedSender`, `NoLostWakeup`, `SleeperReachable`,
`SleeperHasPeer`, `ZombieNoticed`, `WaiterServed`), and data arrives as it was sent
(`PipeInOrder`, `KeysKept`, `FileContents`, `MemoryKept`). `NoCircularWait` says that processes
wait for each other in a circle only if a directory has been moved into itself or below;
nothing in `sfs_rename` prevents that, and then `sfs_unlink` waits for a lock that it holds.

**Bounds.** Three processes give one that acts, one that waits and one that interferes, with
every order of wake-up, timeout and return; five for `KSem` let a newcomer meet two holders
and two sleepers. Two run queues contain the cases of `MLFQ_enqueue`: the first queue, one
queue down, staying in the last. With timeouts up to 3, three timers are inserted before,
between, after and at equal times. With `MAX_PROCESS` 5 the pid counter wraps several times
with every density of the list. Two semaphores and three lists give shared and copied lists
at once; four messages let every process hold one while the mailbox is full. A buffer of two
wraps and fills up in pipes and for the keyboard, where the fifth key comes after two
overwritten ones. A file with one direct block and blocks of two cells needs all three levels
of the map for eight bytes, and the disk is too small for all of it. With two frames and two
swap entries both run out. Four pages allow an area to be split, shortened at both ends and
joined by `brk`. Nine nodes are enough for every case of `rb_delete_fixup`. A zone of seven
pages has blocks whose buddy is outside it. `MaxValue`, `MaxSlots`, `MaxLen`, `MaxPos`,
`MaxRead`, `MaxTyped` and `MaxUnits` bound data that only counts.

Larger instances were checked once and are not runs: `SfsTree` with two processes, both asking
for their path, two names and three inodes (1,179,735 states).

**Symmetry** is used in `ipc` (processes, semaphores, lists), `proclife` (user processes),
`files` (processes, tables), `sfs` (two of the processes, two of the inodes), `memory`
(processes, address spaces, frames, values) and the violation runs that say so. The members of
these sets are interchangeable, and no run with a liveness property uses it.

**Fairness** is assumed in `kernel` and `sched` only; the other runs are about safety.
`TimerList`: loop iterations go on (weak), and ticks are taken although `add_timer` and
`del_timer` keep disabling interrupts (strong: a pending clock interrupt is delivered when
they are enabled again). `Sched`: ticks keep coming and their handler ends (weak), and a
process due to call or return from `schedule()` does so however often the clock interrupts it
(strong: kernel paths between two calls are finite). `KSem`: a woken process runs and a holder
releases (weak), which the callers of `down()` do on every path. `Pid`: the loop of `get_pid`
goes on (weak). No fairness is assumed of user requests.

**Deadlock** is checked in `kernel` and `sched`. The other configurations switch it off,
since their systems may really stop: when every process has exited, when every one sleeps for
something only another could do (a receiver without a sender, a thread in `do_wait` for
itself), when the disk or the address space is used up in every way, or at a failed assertion. So
they say nothing about progress; what they exclude is a sleeper whose reason to sleep is gone.

## 4. Findings

Each has a run that ends in a violation:

* `usem_assert`: a waiter woken by its timer, or killed, is still linked in the wait queue until
  it runs; a post in between finds it first, and `assert(wait->proc->wait_state == wait_state)`
  of `__up` (`sync/sem.c:71`) fails.
* `proclife_wait`: a thread is a child of the thread that made it, so a thread without children
  that calls `do_wait` waits for itself (`process/proc.c:926`), where the comment speaks of
  waiting for children. A kill, or the exit of another thread of its group, ends the sleep.
* `sfs_removed`: a process whose working directory was removed, and its parent after it, looks
  up `..` or asks for its path: `sfs_load_inode` asserts that the block is in use
  (`fs/sfs/sfs_inode.c:136`), and it is free.
* `vm_dirty`: `page_insert` writes an entry anew without its dirty bit (`glue-ucore/pmm.c:170`);
  a frame that is written after a fork, by a process that has it alone, may be swapped out as
  clean, and an old value comes back.
* `vm_served`: two threads fault on the same page while memory is short. The second waits in
  `lock_mm`, finds the page present and takes this for a contradiction: `assert(0)`
  (`mm/vmm.c:754-758`).

These came up on the way. The models contain them; nothing in the repository speaks of them,
or they concern a build that is not modelled here, so they are no runs:

* `get_pid` restarts at 1 in one of its two wraps, instead of at `lcpu_count`
  (`process/proc.c:160`); with two processors (x86_64) that is the pid of an idle process.
  `MCKernelIdle.cfg` shows it (`PidsAboveIdle`).
* A process killed after `may_killed()` and before it is back in user mode runs there, and may
  make another system call, with `PF_EXITING` set: `MCProcLifeKill.cfg` (`KilledNotInUser`).
* A directory may be renamed into itself or below. `unlink` then waits for a lock it holds
  (`sfs_inode.c:1216`), and `getcwd` fails the assertion of line 924 (`HasLoop`, and "panic" in
  `SfsTree`).
* A hole in a shared area leaves an area without `shmem_struct` (`stopped` in `Vma`).
* A fault on shared memory that is swapped out calls `swap_duplicate` with the empty entry of
  the process instead of the one of the shared memory (`vmm.c:745`; `NoPanic` of `Vm`).
* After another opener's `O_TRUNC`, a write behind the end reaches the assertion on the index
  (`sfs_inode.c:315`); a file that could not grow on a full disk reaches the one of
  `sfs_truncfile` (line 1114) (`NoPanic` of `SfsFile`).
* `kswapd` goes on without yielding when nothing can be freed, and asserts that some process has
  an mm.

Two places look wrong and are right: the inode number that `lookup_once` uses after it has
unlocked the directory (`sfs_inode.c:526`) is safe because `fs_sem` is handed over in order
(`FoundIsLoadable`; its mutant breaks the order), and the window of `get_pid` survives exits and
forks between two calls (`WindowIsFree`).

## 5. What is proved

All theorems hold for any constants that satisfy the named assumption.

* `TimerListProofs` (`TimeoutAssumption`): `DeltasAlwaysExact`, `NeverOverdue`,
  `TimerListImplementsTimers`. `DeltasExact` is not inductive by itself: linking a timer keeps it
  only because the remainder that `add_timer` carries through its loop is exact at the position
  reached, and because no timer passed is overdue. The refinement maps each step to a step of
  `Timers` or to a stutter.
* `SchedProofs` (`SchedAssumption`): `QueuesConsistent`, `SlicesBounded`, `RunsAwake`,
  `TimersOwned`. The invariants need each other: a process may be appended to a queue only
  because one that is not ready is in none, and what `schedule()` picks is awake with ticks left
  only because every queued process is.
* `KernelProofs`, about `KSem` (`KSemAssumption`, finitely many processes): `UnitsAreConserved`,
  `SleepersAreQueued` and the action property `NoneOvertakes`. The argument counts holders: a
  process handed the semaphore by `up()` is a holder although it has not run. About `Pid`
  (`PidAssumption`, which includes `MAX_PID = 2 * MAX_PROCESS`): `PidsAreUnique`, `WindowIsFree`,
  `PidsAlwaysSuffice`. Uniqueness needs that the interval between `last_pid` and `next_safe` is free
  of pids at every element of the scan; that there are enough pids needs a bound on processes
  and forks in flight together.
* `StdinProofs`: `ReadersAlwaysWoken` and the action property `KeysAlwaysKept`. The second needs the
  cell of each character between the two positions, with the arithmetic of the ring, and that
  the characters given and those held are apart (`KeysIInv`).
* `WaitQueueProofs`, about `Event`: `EventsTakenOnce`, `SendersNeverMissed`, with lemmas on
  appending to, cutting and emptying a wait queue.
* `ProcLifeProofs`: `ParentsStayAlive`, `ZombiesAreNoticed`, `InitEndsWithLast`, from one invariant:
  types, the two kernel processes, groups (a partition of the living), parents, and at which point of
  a call a process in each state is.
* `VmaProofs` (`ConstantsOK`): `AreasStayDisjoint`, which includes that `mmap_cache` is an area of
  its mm; the other parts of `AreasSound` are left to TLC.
* `VmProofs` (finitely many frames): `WaitersAlwaysServed`: whoever waits for memory has left
  `kswapd` awake and something to do.

Only model-checked: liveness (`TimerFires`, `FirstQueueRuns`, `DownReturns`, `GetPidReturns`) and
what folds or recursive definitions compute (the counters of `Files`, `Vm` and SFS, `RbTree`,
`Buddy`, `Malloc`, `get_unmapped_area`), which are out of the prover's reach; and the invariants of
`UserSem` and `Mbox`, whose actions change too many variables at once for its backends.

## 6. Not modelled

* Ports other than i386, and in this one the assembly, device registers and page-table formats;
  the big kernel lock and load balancing of x86_64; boot loaders and the supervisor layer.
* Kernel modules and their loader, fatfs (which the file `BUGS` calls unusable), host tools that
  build disk images, and user programs other than `malloc`.
* The slab allocator; named pipes (where `pipe_root_create` with `excl` may wait for its own
  lock); devices other than the keyboard; the console.
* In the VFS the device list, mounting and the splitting of paths; in SFS mounting, `sfs_sync`,
  directory listings and failing disks.
* Statistics, printing, debugging output, and the self-tests at boot.

These are most of the repository by size: the map covers about 8 % of all source lines, since
each port repeats the same parts, and the rest is drivers, generated tables, host and user
programs.
