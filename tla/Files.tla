-------------------------------- MODULE Files --------------------------------
(***************************************************************************)
(* Open files: the descriptor tables that threads share and fork copies     *)
(* (fs/file.c, fs/fs.c, copy_fs and put_fs of process/proc.c), the two      *)
(* counters of an inode (fs/vfs/inode.c, vfs_open, vfs_close), anonymous    *)
(* pipes (fs/pipe) and a device, read and written by the loops of           *)
(* sysfile_read and sysfile_write.                                          *)
(*                                                                         *)
(* The kernel is not preempted: a step of a process runs to the next place  *)
(* where it may sleep, which is waiting in a pipe, the allocations of       *)
(* pipe_open and vfs_open, and the copies to and from user memory between   *)
(* two rounds of sysfile_read or sysfile_write.  Reading the device (such   *)
(* as the disk) never waits and changes nothing here; module Stdin has the  *)
(* device that waits.                                                       *)
(***************************************************************************)
EXTENDS Pipe, FiniteSets, FiniteSetsExt

CONSTANTS Proc, Fs, Pipes, NoFs, NoNode,
          NFile,       \* FS_STRUCT_NENTRY
          MaxLen,      \* bound on the length of one read or write
          MaxPos       \* bound on the bytes sent through a pipe

ASSUME FilesAssumption == NFile \in Nat /\ NFile > 2 /\ MaxLen \in Nat /\ MaxPos \in Nat

VARIABLES proc,        \* the processes, see Running
          fs_count,    \* of each fs_struct
          filemap,     \* of each fs_struct, its files
          inode,       \* ref_count and open_count of each inode
          pipe         \* the pipe_states

vars == <<proc, fs_count, filemap, inode, pipe>>

Fd == 0..NFile - 1
Dev == <<"dev", "r">>
Node == {Dev} \cup (Pipes \X {"r", "w"})

NoFile == [status |-> "NONE", node |-> NoNode, open_count |-> 0]

\* A process in user mode with files f.  pc is "user"; "pipe" in pipe_open and
\* "open" in vfs_open; "io" waiting or woken in a read or write; "loop" between two
\* rounds of sysfile_read or sysfile_write; "none" without a process.
Running(f) == [pc |-> "user", fs |-> f, fds |-> << >>, mode |-> "r", n |-> 0, ret |-> 0,
               asleep |-> FALSE, woken |-> FALSE]
NoProc == [Running(NoFs) EXCEPT !.pc = "none"]

Init ==
  /\ \E p \in Proc, f \in Fs :
       /\ proc = [x \in Proc |-> IF x = p THEN Running(f) ELSE NoProc]
       /\ fs_count = [g \in Fs |-> IF g = f THEN 1 ELSE 0]
  /\ filemap = [f \in Fs |-> [d \in Fd |-> NoFile]]
  /\ inode = [x \in Node |-> [ref |-> IF x = Dev THEN 1 ELSE 0, open |-> 0]]
  /\ pipe = [q \in Pipes |-> NoState]
-----------------------------------------------------------------------------
FileAt(p, d) == filemap[proc[p].fs][d]

\* fd2file
Opened(p, d) == d \in Fd /\ FileAt(p, d).status = "OPENED"

\* The descriptors filemap_alloc(NO_FD) may find; it takes the lowest.
FreeFds(f) == {d \in Fd : filemap[f][d].status = "NONE"}

\* The system call returns to user mode; may_killed ends a killed process there,
\* which Exit covers.
Back(r) == Running(r.fs)

\* wakeup_queue on the processes of W
Wake(ps, W) ==
  [p \in Proc |-> IF p \in W THEN [ps[p] EXCEPT !.asleep = FALSE, !.woken = TRUE] ELSE ps[p]]

\* The part of the state that closing a file may change.
State == [inode |-> inode, pipe |-> pipe, proc |-> proc]
Become(k) == \E after \in {k} : inode' = after.inode /\ pipe' = after.pipe /\ proc' = after.proc

\* vfs_close: inode_open_dec calls vop_close on the last close, inode_ref_dec
\* calls vop_reclaim on the last reference (pipe_inode_close, pipe_inode_reclaim).
\* The device inode keeps the reference of the device list.
vfs_close(k, x) ==
  LET open == k.inode[x].open - 1
      ref  == k.inode[x].ref - 1
      shut == IF x # Dev /\ open = 0 THEN pipe_state_close(k.pipe[x[1]])
              ELSE Done(IF x = Dev THEN NoState ELSE k.pipe[x[1]], 0, FALSE, {})
  IN [inode |-> [k.inode EXCEPT ![x] = [ref |-> ref, open |-> open]],
      pipe |-> IF x = Dev THEN k.pipe
               ELSE [k.pipe EXCEPT ![x[1]] =
                       IF ref = 0 THEN pipe_state_release(shut.s) ELSE shut.s],
      proc |-> Wake(k.proc, shut.woken)]

\* filemap_close: the descriptor is gone; the file goes with its last user.
CloseFile(file) ==
  IF file.open_count = 1 THEN NoFile
  ELSE [file EXCEPT !.status = "CLOSED", !.open_count = @ - 1]

\* filemap_release
ReleaseFile(file) ==
  IF file.open_count = 1 THEN NoFile ELSE [file EXCEPT !.open_count = @ - 1]

\* filemap_close on the opened descriptors D of f, in state k.
CloseFds(k, f, D) ==
  LET open == {d \in D : filemap[f][d].status = "OPENED"}
      last == {d \in open : filemap[f][d].open_count = 1}
  IN /\ filemap' = [filemap EXCEPT ![f] = [d \in Fd |->
                      IF d \in open THEN CloseFile(@[d]) ELSE @[d]]]
     /\ Become(FoldSet(LAMBDA d, s : vfs_close(s, filemap[f][d].node), k, last))
-----------------------------------------------------------------------------
\* file_pipe up to pipe_open: two descriptors in FD_INIT.  With fewer than two
\* free ones the one that was taken is given back at once.
PipeBegin(p) ==
  LET f == proc[p].fs
      a == Min(FreeFds(f))
      b == Min(FreeFds(f) \ {a})
  IN /\ proc[p].pc = "user"
     /\ Cardinality(FreeFds(f)) > 1
     /\ filemap' = [filemap EXCEPT ![f][a].status = "INIT", ![f][b].status = "INIT"]
     /\ proc' = [proc EXCEPT ![p].pc = "pipe", ![p].fds = <<a, b>>]
     /\ UNCHANGED <<fs_count, inode, pipe>>

\* pipe_open has its memory: both ends exist and are open, each file has its node.
PipeDone(p, q) ==
  LET file(x) == [status |-> "OPENED", node |-> x, open_count |-> 1] IN
    /\ proc[p].pc = "pipe" /\ pipe[q].ref_count = 0
    /\ pipe' = [pipe EXCEPT ![q] = NewState]
    /\ inode' = [x \in Node |-> IF x[1] = q THEN [ref |-> 1, open |-> 1] ELSE inode[x]]
    /\ filemap' = [filemap EXCEPT ![proc[p].fs][proc[p].fds[1]] = file(<<q, "r">>),
                                  ![proc[p].fs][proc[p].fds[2]] = file(<<q, "w">>)]
    /\ proc' = [proc EXCEPT ![p] = Back(@)]
    /\ UNCHANGED fs_count

\* file_open of the device, O_RDONLY, up to vfs_open.
OpenBegin(p) ==
  LET f == proc[p].fs IN
    /\ proc[p].pc = "user"
    /\ FreeFds(f) # {}
    /\ filemap' = [filemap EXCEPT ![f][Min(FreeFds(f))].status = "INIT"]
    /\ proc' = [proc EXCEPT ![p].pc = "open", ![p].fds = <<Min(FreeFds(f))>>]
    /\ UNCHANGED <<fs_count, inode, pipe>>

\* vfs_open has found the device (vfs_get_root) and opened it.
OpenDone(p) ==
  /\ proc[p].pc = "open"
  /\ inode' = [inode EXCEPT ![Dev] = [ref |-> @.ref + 1, open |-> @.open + 1]]
  /\ filemap' = [filemap EXCEPT ![proc[p].fs][proc[p].fds[1]] =
                   [status |-> "OPENED", node |-> Dev, open_count |-> 1]]
  /\ proc' = [proc EXCEPT ![p] = Back(@)]
  /\ UNCHANGED <<fs_count, pipe>>

\* pipe_open or vfs_open fails and has undone what it did; the descriptors are
\* given back (failed_cleanup).
OpenFails(p) ==
  LET f == proc[p].fs IN
    /\ proc[p].pc \in {"pipe", "open"}
    /\ filemap' = [filemap EXCEPT ![f] = [d \in Fd |->
                     IF \E i \in DOMAIN proc[p].fds : proc[p].fds[i] = d THEN NoFile ELSE @[d]]]
    /\ proc' = [proc EXCEPT ![p] = Back(@)]
    /\ UNCHANGED <<fs_count, inode, pipe>>

\* Mutant: the file is freed at once, also when another thread reads from it.
CloseNow(p, d) ==
  /\ proc[p].pc = "user" /\ Opened(p, d)
  /\ filemap' = [filemap EXCEPT ![proc[p].fs][d] = NoFile]
  /\ Become(vfs_close(State, FileAt(p, d).node))
  /\ UNCHANGED fs_count

\* file_close
Close(p, d) ==
  /\ proc[p].pc = "user" /\ Opened(p, d)
  /\ CloseFds(State, proc[p].fs, {d})
  /\ UNCHANGED fs_count

\* file_dup(d, e) with e free, or NO_FD; filemap_dup counts one more open file.
Dup(p, d, e) ==
  LET x == FileAt(p, d).node IN
    /\ proc[p].pc = "user" /\ Opened(p, d) /\ e \in FreeFds(proc[p].fs)
    /\ filemap' = [filemap EXCEPT ![proc[p].fs][e] = [FileAt(p, d) EXCEPT !.open_count = 1]]
    /\ inode' = [inode EXCEPT ![x] = [ref |-> @.ref + 1, open |-> @.open + 1]]
    /\ UNCHANGED <<proc, fs_count, pipe>>

\* do_fork, its copy_fs: CLONE_FS shares the fs_struct, otherwise dup_fs copies it.
\* A fork that fails later, in copy_mm, is a child that exits at once (put_fs);
\* copy_thread, whose failure would not call put_fs, cannot fail (arch/i386).
Fork(p, c, f) ==
  LET open == {d \in Fd : filemap[proc[p].fs][d].status = "OPENED"}
      more(x) == Cardinality({d \in open : filemap[proc[p].fs][d].node = x})
  IN /\ proc[p].pc = "user" /\ proc[c].pc = "none"
     /\ \/ /\ f = proc[p].fs
           /\ UNCHANGED <<filemap, inode>>
        \/ /\ fs_count[f] = 0
           /\ filemap' = [filemap EXCEPT ![f] = [d \in Fd |->
                IF d \in open THEN [filemap[proc[p].fs][d] EXCEPT !.open_count = 1] ELSE NoFile]]
           /\ inode' = [x \in Node |-> [ref |-> inode[x].ref + more(x),
                                        open |-> inode[x].open + more(x)]]
     /\ fs_count' = [fs_count EXCEPT ![f] = @ + 1]
     /\ proc' = [proc EXCEPT ![c] = Running(f)]
     /\ UNCHANGED pipe

\* do_exit, its put_fs: the last user of the fs_struct destroys it (fs_destroy).
Exit(p) ==
  LET f == proc[p].fs
      k == [State EXCEPT !.proc[p] = NoProc]
  IN /\ proc[p].pc = "user"
     /\ fs_count' = [fs_count EXCEPT ![f] = @ - 1]
     /\ CloseFds(k, f, IF fs_count[f] = 1 THEN Fd ELSE {})

\* do_execve, its fs_closeall: every open descriptor from 2 on is closed, also for
\* the threads that share the table.
Exec(p) ==
  /\ proc[p].pc = "user"
  /\ CloseFds(State, proc[p].fs, Fd \ {0, 1})
  /\ UNCHANGED fs_count
-----------------------------------------------------------------------------
\* The record that an operation of node x on n bytes leaves (Done of module Pipe).
Operate(x, n) ==
  IF x = Dev THEN Done(NoState, n, FALSE, {})
  ELSE IF x[2] = "r" THEN pipe_state_read(pipe[x[1]], n)
  ELSE pipe_state_write(pipe[x[1]], n)

\* The caller p added to the queue it waits in.
Enqueue(x, s, p) ==
  IF x[2] = "r" THEN [s EXCEPT !.reader_queue = @ \cup {p}]
  ELSE [s EXCEPT !.writer_queue = @ \cup {p}]

\* The pipes when p has left its queue (wait_current_del).
Dequeued(p) ==
  [q \in Pipes |-> [pipe[q] EXCEPT !.reader_queue = @ \ {p}, !.writer_queue = @ \ {p}]]

\* After file_read or file_write: sysfile_read and sysfile_write stop when nothing
\* was copied or everything is, otherwise they go round again.
NextRound(r, copied, left) ==
  IF copied = 0 \/ left = 0 THEN Back(r)
  ELSE [r EXCEPT !.pc = "loop", !.n = left, !.ret = 0, !.woken = FALSE]

\* filemap_release at the end of file_read and file_write, in state k, if the file
\* was acquired in an earlier step: vfs_close follows when the last user leaves.
Released(p, d, held, k) ==
  LET last == held /\ FileAt(p, d).open_count = 1
  IN /\ filemap' = IF held THEN [filemap EXCEPT ![proc[p].fs][d] = ReleaseFile(@)] ELSE filemap
     /\ Become(IF last THEN vfs_close(k, FileAt(p, d).node) ELSE k)

\* vop_read or vop_write on node x with n bytes left, ret already copied by this
\* call, the file acquired before this step (held) or in it.
Transfer(p, d, n, ret, held) ==
  LET x == FileAt(p, d).node
      f == proc[p].fs
      pipes(s) == IF x = Dev THEN pipe ELSE [pipe EXCEPT ![x[1]] = s]
  IN \E r \in {Operate(x, n)} : \E ps \in {Wake(proc, r.woken)} :
     \/ /\ r.blocked
        /\ pipe' = pipes(Enqueue(x, r.s, p))
        /\ filemap' = IF held THEN filemap ELSE [filemap EXCEPT ![f][d].open_count = @ + 1]
        /\ proc' = [ps EXCEPT ![p] = [@ EXCEPT !.pc = "io", !.fds = <<d>>, !.mode = x[2],
                                               !.n = n - r.got, !.ret = ret + r.got,
                                               !.asleep = TRUE, !.woken = FALSE]]
        /\ UNCHANGED <<fs_count, inode>>
     \/ /\ ~r.blocked
        /\ Released(p, d, held,
             [inode |-> inode, pipe |-> pipes(r.s),
              proc |-> [ps EXCEPT ![p] = NextRound([@ EXCEPT !.fds = <<d>>, !.mode = x[2]],
                                                   ret + r.got, n - r.got)]])
        /\ UNCHANGED fs_count

\* sysfile_read and sysfile_write up to the first wait of their first round.
IoBegin(p, d, n) ==
  /\ proc[p].pc = "user" /\ Opened(p, d)
  /\ FileAt(p, d).node[2] = "w" => pipe[FileAt(p, d).node[1]].p_wpos + n <= MaxPos
  /\ Transfer(p, d, n, 0, FALSE)

\* The next round: the descriptor is looked up again, and may by now be closed or
\* be another file.
IoRound(p) ==
  LET d == proc[p].fds[1] IN
    /\ proc[p].pc = "loop"
    /\ \/ /\ Opened(p, d) /\ FileAt(p, d).node[2] = proc[p].mode
          /\ Transfer(p, d, proc[p].n, 0, FALSE)
       \/ /\ ~(Opened(p, d) /\ FileAt(p, d).node[2] = proc[p].mode)
          /\ proc' = [proc EXCEPT ![p] = Back(@)]
          /\ UNCHANGED <<fs_count, filemap, inode, pipe>>

\* copy_to_user after a round of sysfile_read, or copy_from_user before the next one of
\* sysfile_write, finds that the memory is not there: the call ends.
IoFault(p) ==
  /\ proc[p].pc = "loop"
  /\ proc' = [proc EXCEPT ![p] = Back(@)]
  /\ UNCHANGED <<fs_count, filemap, inode, pipe>>

\* schedule() returns after a wakeup: try again.
IoWake(p) ==
  /\ proc[p].pc = "io" /\ ~proc[p].asleep /\ proc[p].woken
  /\ Transfer(p, proc[p].fds[1], proc[p].n, proc[p].ret, TRUE)

\* schedule() returns after a kill: leave the queue and return what was copied.
IoInterrupted(p) ==
  /\ proc[p].pc = "io" /\ ~proc[p].asleep /\ ~proc[p].woken
  /\ Released(p, proc[p].fds[1], TRUE,
              [inode |-> inode, pipe |-> Dequeued(p),
               proc |-> [proc EXCEPT ![p] = NextRound(@, @.ret, @.n)]])
  /\ UNCHANGED fs_count

\* do_kill on a process that sleeps in a pipe: it is woken and
\* stays in the queue.  (A process killed elsewhere goes on to its next return to
\* user mode, as it would anyway.)
Kill(p) ==
  /\ proc[p].asleep
  /\ proc' = [proc EXCEPT ![p].asleep = FALSE]
  /\ UNCHANGED <<fs_count, filemap, inode, pipe>>

Next ==
  \E p \in Proc :
       \/ PipeBegin(p) \/ \E q \in Pipes : PipeDone(p, q)
       \/ OpenBegin(p) \/ OpenDone(p) \/ OpenFails(p)
       \/ \E d \in Fd : Close(p, d) \/ \E e \in Fd : Dup(p, d, e)
       \/ \E c \in Proc, f \in Fs : Fork(p, c, f)
       \/ Exit(p) \/ Exec(p) \/ Kill(p)
       \/ \E d \in Fd, n \in 1..MaxLen : IoBegin(p, d, n)
       \/ IoRound(p) \/ IoFault(p) \/ IoWake(p) \/ IoInterrupted(p)

Spec == Init /\ [][Next]_vars
-----------------------------------------------------------------------------
Slots == Fs \X Fd
FileOf(s) == filemap[s[1]][s[2]]
InIo(s) == {p \in Proc : proc[p].pc = "io" /\ proc[p].fs = s[1] /\ proc[p].fds[1] = s[2]}
Holding(x) == {s \in Slots : FileOf(s).status \in {"OPENED", "CLOSED"} /\ FileOf(s).node = x}

\* All counters agree with what they count, whatever was closed, duplicated, copied
\* or killed while other threads sleep in the same file: the users of a file, the
\* files of an inode (both its counters), the ends of a pipe and the processes of a
\* descriptor table.  A table without users is clean, and a freed pipe has nobody in
\* its queues.  The assertions in file.c, inode.c, fs.c and pipe_state.c follow.
CountsExact ==
  /\ \A s \in Slots : FileOf(s).open_count =
       Cardinality(InIo(s)) + (IF FileOf(s).status = "OPENED" THEN 1 ELSE 0)
  /\ \A x \in Node : /\ inode[x].open = Cardinality(Holding(x))
                     /\ inode[x].ref = inode[x].open + (IF x = Dev THEN 1 ELSE 0)
  /\ \A q \in Pipes : pipe[q].ref_count = Cardinality({e \in {"r", "w"} : inode[<<q, e>>].ref > 0})
  /\ \A f \in Fs : /\ fs_count[f] = Cardinality({p \in Proc : proc[p].fs = f})
                   /\ fs_count[f] = 0 => filemap[f] = [d \in Fd |-> NoFile]
  /\ \A q \in Pipes : pipe[q].ref_count = 0 =>
       pipe[q].reader_queue = {} /\ pipe[q].writer_queue = {}

\* Nobody sleeps in a pipe without reason: a sleeping reader finds it empty, a
\* sleeping writer full, and the other end is still open (to whoever can end the wait;
\* a process that has both ends open may wait for itself).
SleeperHasPeer ==
  \A p \in Proc : proc[p].asleep =>
    LET x == FileAt(p, proc[p].fds[1]).node IN
      /\ ~pipe[x[1]].isclosed
      /\ \A e \in {"r", "w"} : inode[<<x[1], e>>].open > 0
      /\ Size(pipe[x[1]]) = IF x[2] = "r" THEN 0 ELSE PIPE_BUFSIZE

\* What is written into a pipe is read once and in the order of the writes, whoever
\* wrote and read it, in pieces of any length and with the buffer wrapping round.
PipeInOrder == \A q \in Pipes : InOrder(pipe[q])
=============================================================================
