-------------------------------- MODULE MCIpc --------------------------------
(***************************************************************************)
(* Models of modules UserSem, Event and Mbox for TLC.  The part that moves  *)
(* is chosen at the beginning; the variables of the others stay as they     *)
(* are.                                                                     *)
(***************************************************************************)
EXTENDS UserSem, Event, Mbox, TLC

VARIABLE part

MCInit == part \in {"sem", "event", "mbox"} /\ UsemInit /\ EventInit /\ MboxInit

MCNext ==
  /\ UNCHANGED part
  /\ \/ part = "sem" /\ UsemNext /\ UNCHANGED <<eventVars, mboxVars>>
     \/ part = "event" /\ EventNext /\ UNCHANGED <<usemVars, mboxVars>>
     \/ part = "mbox" /\ MboxNext /\ UNCHANGED <<usemVars, eventVars>>

MCSpec == MCInit /\ [][MCNext]_<<part, usemVars, eventVars, mboxVars>>

\* Processes are interchangeable, and so are semaphores, and the queues, whose names
\* serve as small messages too.
MCSymmetry == Permutations(Proc) \cup Permutations(Sem) \cup Permutations(SemQueue)
=============================================================================
