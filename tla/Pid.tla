--------------------------------- MODULE Pid ---------------------------------
(***************************************************************************)
(* The allocation of process identifiers: get_pid of process/proc.c, with   *)
(* the two variables that let most calls skip the scan of proc_list, and    *)
(* the limit on the number of processes that do_fork checks well before,    *)
(* since it may sleep for memory between the check and get_pid.             *)
(*                                                                         *)
(* get_pid and set_links run with interrupts disabled.  The scan is written *)
(* as one step per list element; no other action happens during it.         *)
(***************************************************************************)
EXTENDS Integers, Sequences

CONSTANTS MAX_PID, MAX_PROCESS,
          lcpu_count        \* number of processors; their idle processes, which are
                            \* not in proc_list, have the pids below it

\* proc.h defines MAX_PID as MAX_PROCESS * 2.
ASSUME PidAssumption ==
  /\ MAX_PROCESS \in Nat /\ lcpu_count \in Nat \ {0}
  /\ MAX_PROCESS >= lcpu_count + 2
  /\ MAX_PID = MAX_PROCESS * 2

VARIABLES proc_list,        \* the pids of the processes in proc_list, newest first
          last_pid, next_safe,
          forking,          \* forks that have passed the limit check, one per process at most
          pid_le            \* the element the scan looks at, 0 outside get_pid

pidVars == <<proc_list, last_pid, next_safe, forking, pid_le>>

\* proc_init has forked initproc.
PidInit ==
  /\ proc_list = <<lcpu_count>>
  /\ last_pid = lcpu_count
  /\ next_safe = MAX_PID
  /\ forking = 0
  /\ pid_le = 0

\* idle processes are counted and not listed.
nr_process == Len(proc_list) + lcpu_count

\* do_fork begins.
ForkCheck ==
  /\ pid_le = 0
  /\ forking < Len(proc_list)
  /\ nr_process < MAX_PROCESS
  /\ forking' = forking + 1
  /\ UNCHANGED <<proc_list, last_pid, next_safe, pid_le>>

\* do_fork fails for want of memory.
ForkFail ==
  /\ pid_le = 0
  /\ forking > 0
  /\ forking' = forking - 1
  /\ UNCHANGED <<proc_list, last_pid, next_safe, pid_le>>

\* get_pid returns pid and set_links adds the process.
SetLinks(pid) ==
  /\ proc_list' = <<pid>> \o proc_list
  /\ forking' = forking - 1
  /\ pid_le' = 0

\* Mutant: the limit of the window counts as safe.
GetPidOffByOne ==
  /\ pid_le = 0 /\ forking > 0
  /\ \/ /\ last_pid + 1 >= MAX_PID
        /\ last_pid' = lcpu_count
        /\ next_safe' = MAX_PID
        /\ pid_le' = 1
        /\ UNCHANGED <<proc_list, forking>>
     \/ /\ last_pid + 1 < MAX_PID /\ last_pid + 1 > next_safe
        /\ last_pid' = last_pid + 1
        /\ next_safe' = MAX_PID
        /\ pid_le' = 1
        /\ UNCHANGED <<proc_list, forking>>
     \/ /\ last_pid + 1 < MAX_PID /\ last_pid + 1 <= next_safe
        /\ last_pid' = last_pid + 1
        /\ SetLinks(last_pid + 1)
        /\ UNCHANGED next_safe

\* get_pid: the next pid, at once while it is below next_safe, else after a scan.
GetPid ==
  /\ pid_le = 0 /\ forking > 0
  /\ \/ /\ last_pid + 1 >= MAX_PID
        /\ last_pid' = lcpu_count
        /\ next_safe' = MAX_PID
        /\ pid_le' = 1
        /\ UNCHANGED <<proc_list, forking>>
     \/ /\ last_pid + 1 < MAX_PID /\ last_pid + 1 >= next_safe
        /\ last_pid' = last_pid + 1
        /\ next_safe' = MAX_PID
        /\ pid_le' = 1
        /\ UNCHANGED <<proc_list, forking>>
     \/ /\ last_pid + 1 < MAX_PID /\ last_pid + 1 < next_safe
        /\ last_pid' = last_pid + 1
        /\ SetLinks(last_pid + 1)
        /\ UNCHANGED next_safe

\* Mutant: the scan starts again before the counter has moved on.
ScanStuck ==
  /\ pid_le \in 1..Len(proc_list)
  /\ \/ /\ proc_list[pid_le] = last_pid /\ last_pid + 1 >= next_safe
        /\ next_safe' = MAX_PID
        /\ pid_le' = 1
        /\ UNCHANGED last_pid
     \/ /\ proc_list[pid_le] = last_pid /\ last_pid + 1 < next_safe
        /\ last_pid' = last_pid + 1
        /\ pid_le' = pid_le + 1
        /\ UNCHANGED next_safe
     \/ /\ proc_list[pid_le] > last_pid /\ next_safe > proc_list[pid_le]
        /\ next_safe' = proc_list[pid_le]
        /\ pid_le' = pid_le + 1
        /\ UNCHANGED last_pid
     \/ /\ proc_list[pid_le] < last_pid \/ (proc_list[pid_le] > last_pid /\ next_safe <= proc_list[pid_le])
        /\ pid_le' = pid_le + 1
        /\ UNCHANGED <<last_pid, next_safe>>
  /\ UNCHANGED <<proc_list, forking>>

\* One element of the scan.  A taken pid is skipped; when that leaves the window
\* (last_pid, next_safe) empty the scan starts again, from pid 1 past the end.
Scan ==
  /\ pid_le \in 1..Len(proc_list)
  /\ \/ /\ proc_list[pid_le] = last_pid /\ last_pid + 1 >= next_safe
        /\ last_pid' = IF last_pid + 1 >= MAX_PID THEN 1 ELSE last_pid + 1
        /\ next_safe' = MAX_PID
        /\ pid_le' = 1
     \/ /\ proc_list[pid_le] = last_pid /\ last_pid + 1 < next_safe
        /\ last_pid' = last_pid + 1
        /\ pid_le' = pid_le + 1
        /\ UNCHANGED next_safe
     \/ /\ proc_list[pid_le] > last_pid /\ next_safe > proc_list[pid_le]
        /\ next_safe' = proc_list[pid_le]
        /\ pid_le' = pid_le + 1
        /\ UNCHANGED last_pid
     \/ /\ proc_list[pid_le] < last_pid \/ (proc_list[pid_le] > last_pid /\ next_safe <= proc_list[pid_le])
        /\ pid_le' = pid_le + 1
        /\ UNCHANGED <<last_pid, next_safe>>
  /\ UNCHANGED <<proc_list, forking>>

\* The scan ends and get_pid returns.
ScanEnd ==
  /\ pid_le > Len(proc_list)
  /\ SetLinks(last_pid)
  /\ UNCHANGED <<last_pid, next_safe>>

\* do_wait reaps a process, which is not initproc and is in no fork: remove_links.
RemoveLinks(i) ==
  /\ pid_le = 0
  /\ i \in 1..Len(proc_list) - 1
  /\ forking < Len(proc_list)
  /\ proc_list' = SubSeq(proc_list, 1, i - 1) \o SubSeq(proc_list, i + 1, Len(proc_list))
  /\ UNCHANGED <<last_pid, next_safe, forking, pid_le>>

PidNext ==
  \/ ForkCheck \/ ForkFail \/ GetPid \/ Scan \/ ScanEnd
  \/ \E i \in DOMAIN proc_list : RemoveLinks(i)

PidSpec == PidInit /\ [][PidNext]_pidVars

\* get_pid runs to its end: nothing interrupts the scan.
PidFairness == WF_pidVars(Scan \/ ScanEnd)
PidFairSpec == PidSpec /\ PidFairness
-----------------------------------------------------------------------------
PidTypeOK ==
  /\ proc_list \in Seq(1..MAX_PID - 1)
  /\ last_pid \in 1..MAX_PID - 1
  /\ next_safe \in 1..MAX_PID
  /\ forking \in Nat
  /\ pid_le \in 0..Len(proc_list) + 1

\* "alloc a unique pid for process": no two processes ever have the same pid.
UniquePids == \A i, j \in 1..Len(proc_list) : proc_list[i] = proc_list[j] => i = j

\* The window that lets get_pid skip the scan is free of pids in use: at any time
\* outside get_pid, and of the elements seen so far during the scan.
WindowFree ==
  \A i \in 1..(IF pid_le = 0 THEN Len(proc_list) ELSE pid_le - 1) :
    /\ pid_le # 0 => proc_list[i] # last_pid
    /\ proc_list[i] > last_pid => next_safe <= proc_list[i]

\* The limit is checked early and may be overrun by every fork in flight, but there
\* always are pids left: processes and forks together stay below MAX_PID - 1.
PidsSuffice == Len(proc_list) + forking < MAX_PID - 1

\* get_pid returns: its scan does not go round for ever.
GetPidReturns == pid_le # 0 ~> pid_le = 0

\* No process gets the pid of an idle process: the assertion
\* assert(proc->pid >= pls_read(lcpu_count)) of wakeup_proc, which do_fork calls.
PidsAboveIdle == \A i \in 1..Len(proc_list) : proc_list[i] >= lcpu_count
=============================================================================
