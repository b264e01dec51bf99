------------------------------ MODULE MCKernel ------------------------------
(***************************************************************************)
(* Models of modules TimerList, KSem, Pid and Stdin for TLC.  The part that *)
(* moves is chosen at the beginning; the variables of the others stay as    *)
(* they are.                                                                *)
(***************************************************************************)
EXTENDS KSem, Pid, TimerList, Stdin

VARIABLE part

MCInit ==
  /\ part \in {"timers", "ksem", "pids", "stdin"}
  /\ Init /\ PidInit /\ TimerInit /\ StdinInit

MCNext ==
  /\ UNCHANGED part
  /\ \/ part = "timers" /\ TimerNext /\ UNCHANGED <<vars, pidVars, stdinVars>>
     \/ part = "ksem" /\ Next /\ UNCHANGED <<timerVars, pidVars, stdinVars>>
     \/ part = "pids" /\ PidNext /\ UNCHANGED <<vars, timerVars, stdinVars>>
     \/ part = "stdin" /\ StdinNext /\ UNCHANGED <<vars, timerVars, pidVars>>

\* The fairness of the part that moves.
MCFairness ==
  /\ WF_timerVars(part = "timers" /\ (AddTimerSkip \/ AddTimerLink))
  /\ SF_timerVars(part = "timers" /\ RunTimerListBegin)
  /\ WF_timerVars(part = "timers" /\ (RunTimerListFire \/ RunTimerListEnd))
  /\ \A p \in Proc : /\ WF_vars(part = "ksem" /\ Up(p))
                     /\ WF_vars(part = "ksem" /\ DownReturn(p))
  /\ WF_pidVars(part = "pids" /\ (Scan \/ ScanEnd))

MCSpec == MCInit /\ [][MCNext]_<<part, vars, timerVars, pidVars, stdinVars>> /\ MCFairness
=============================================================================
