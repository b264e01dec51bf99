--------------------------- MODULE ProcLifeProofs ---------------------------
(***************************************************************************)
(* Proofs about module ProcLife, for any number of user processes: nobody   *)
(* is left without a living parent, no exit goes unnoticed by a process     *)
(* that waits for it, and init_main ends with the last user process.        *)
(***************************************************************************)
EXTENDS ProcLife, FiniteSetTheorems, TLAPS

TypeOK ==
  /\ state \in [Proc -> {"NONE", "RUNNABLE", "SLEEPING", "ZOMBIE"}]
  /\ parent \in [Proc -> Proc]
  /\ thread_group \in [Proc -> SUBSET Proc]
  /\ exiting \in [Proc -> BOOLEAN]
  /\ target \in [Proc -> User \cup {AnyPid}]
  /\ pc \in [Proc -> {"user", "ret", "fork", "wait", "dying", "end"}]

\* The two processes of the kernel never end, and have no threads.
System ==
  /\ state[Kswapd] = "RUNNABLE" /\ pc[Kswapd] = "ret"
  /\ state[Initproc] \in {"RUNNABLE", "SLEEPING"} /\ pc[Initproc] \in {"wait", "end"}
  /\ thread_group[Kswapd] = {Kswapd} /\ thread_group[Initproc] = {Initproc}
  /\ parent[Kswapd] = Initproc

\* The thread groups partition the processes, and only living ones share a group.
Groups ==
  \A p \in Proc :
    /\ p \in thread_group[p]
    /\ \A q \in thread_group[p] : thread_group[q] = thread_group[p]
    /\ ~Alive(p) => thread_group[p] = {p}

Parents == \A p \in Proc : Exists(p) => Alive(parent[p])

\* Where a process is in the code goes with its state.
Places ==
  \A p \in Proc :
    /\ pc[p] = "user" => state[p] = "RUNNABLE"
    /\ state[p] = "NONE" => pc[p] = "ret"
    /\ state[p] = "ZOMBIE" => pc[p] = "dying"

IInv == TypeOK /\ System /\ Groups /\ Parents /\ Places /\ ZombieNoticed /\ InitEndsLast
-----------------------------------------------------------------------------
LEMMA InitIInv == Init => IInv
<1> SUFFICES ASSUME Init PROVE IInv
  OBVIOUS
<1> USE ProcLifeAssumption
<1>1. PICK u \in User :
        /\ state = [p \in Proc |-> IF p \in User \ {u} THEN "NONE" ELSE "RUNNABLE"]
        /\ pc = [p \in Proc |-> IF p = Initproc THEN "wait" ELSE "ret"]
  BY DEF Init
<1>2. /\ parent = [p \in Proc |-> Initproc]
      /\ thread_group = [p \in Proc |-> {p}]
      /\ exiting = [p \in Proc |-> FALSE]
      /\ target = [p \in Proc |-> AnyPid]
  BY DEF Init
<1>3. TypeOK
  BY <1>1, <1>2 DEF TypeOK, Proc
<1>4. System /\ Groups /\ Parents /\ Places
  BY Zenon, <1>1, <1>2 DEF System, Groups, Parents, Places, Proc, Alive, Exists
<1>5. ZombieNoticed /\ InitEndsLast
  BY <1>1, <1>2 DEF ZombieNoticed, InitEndsLast, Proc, Exists
<1> QED
  BY <1>3, <1>4, <1>5 DEF IInv

\* A user process has no process of the kernel in its group.
LEMMA UserGroup ==
  ASSUME IInv, NEW p \in User
  PROVE  thread_group[p] \subseteq User
BY ProcLifeAssumption DEF IInv, TypeOK, System, Groups, Proc

\* A process in user mode, or with the processor in the kernel, exists.
LEMMA CallerExists ==
  ASSUME IInv, NEW p \in User, pc[p] = "user" \/ InKernel(p)
  PROVE  state[p] = "RUNNABLE"
BY DEF IInv, Places, InKernel, Proc

\* Steps that change nothing but the place of a user process that is running.
LEMMA PlaceStep ==
  ASSUME IInv, NEW p \in User, state[p] = "RUNNABLE",
         NEW x \in {"user", "ret", "fork", "dying"},
         pc' = [pc EXCEPT ![p] = x],
         UNCHANGED <<state, parent, thread_group, exiting, target>>
  PROVE  IInv'
<1> USE ProcLifeAssumption
<1>1. TypeOK' /\ System' /\ Groups' /\ Parents' /\ Places'
  BY DEF IInv, TypeOK, System, Groups, Parents, Places, Proc, Alive, Exists
<1>2. ZombieNoticed'
  BY DEF IInv, ZombieNoticed, Children, Exists
<1>3. InitEndsLast'
  BY DEF IInv, TypeOK, InitEndsLast, Exists, Proc
<1> QED
  BY <1>1, <1>2, <1>3 DEF IInv

\* Killing user processes: the sleepers among them are woken.
LEMMA KillStep ==
  ASSUME IInv, NEW p \in User, state[p] = "RUNNABLE", NEW S \in SUBSET User,
         state' = KillStates(S), exiting' = KillFlags(S),
         NEW x \in {"ret", "dying"}, pc' = [pc EXCEPT ![p] = x],
         UNCHANGED <<parent, thread_group, target>>
  PROVE  IInv'
<1> USE ProcLifeAssumption
<1>1. TypeOK'
  BY DEF IInv, TypeOK, KillStates, KillFlags, Proc
<1>2. \A q \in Proc : \/ state'[q] = state[q]
                      \/ q \in User /\ state[q] = "SLEEPING" /\ state'[q] = "RUNNABLE"
  BY DEF IInv, TypeOK, KillStates
<1>3. \A q \in Proc : Alive(q)' = Alive(q) /\ Exists(q)' = Exists(q)
  BY <1>2 DEF Alive, Exists
<1>4. System' /\ Groups' /\ Parents'
  BY <1>2, <1>3 DEF IInv, TypeOK, System, Groups, Parents, Proc, Alive, Exists
<1>5. Places'
  BY <1>2 DEF IInv, TypeOK, Places, Proc
<1>6. ZombieNoticed'
  BY <1>2, <1>3 DEF IInv, TypeOK, ZombieNoticed, Children
<1>7. InitEndsLast'
  BY <1>3 DEF IInv, TypeOK, InitEndsLast, Proc
<1> QED
  BY <1>1, <1>4, <1>5, <1>6, <1>7 DEF IInv

LEMMA ForkEndStep ==
  ASSUME IInv, NEW p \in User, NEW c \in User, NEW clone_thread \in BOOLEAN,
         ForkEnd(p, c, clone_thread)
  PROVE  IInv'
<1> USE ProcLifeAssumption
<1> DEFINE g == IF clone_thread THEN thread_group[p] \cup {c} ELSE {c}
<1>1. /\ state[p] = "RUNNABLE" /\ state[c] = "NONE" /\ p # c
      /\ state' = [state EXCEPT ![c] = "RUNNABLE"]
      /\ parent' = [parent EXCEPT ![c] = p]
      /\ thread_group' = [q \in Proc |-> IF q \in g THEN g ELSE thread_group[q]]
      /\ exiting' = exiting /\ target' = target
      /\ pc' = [pc EXCEPT ![p] = TrapEnd(p)] /\ TrapEnd(p) \in {"dying", "ret"}
  BY DEF ForkEnd, InKernel, Exists, TrapEnd
<1>2. g \subseteq User /\ c \in g /\ (g = {c} \/ g = thread_group[p] \cup {c})
  BY UserGroup
<1> HIDE DEF g
<1>3. thread_group[c] = {c}
  BY <1>1 DEF IInv, Groups, Alive, Proc
<1>4. TypeOK'
  BY <1>1, <1>2 DEF IInv, TypeOK, Proc
<1>5. System'
  BY <1>1, <1>2 DEF IInv, TypeOK, System, Proc
<1>6. Groups'
  <2> SUFFICES ASSUME NEW q \in Proc
               PROVE  /\ q \in thread_group'[q]
                      /\ \A r \in thread_group'[q] : thread_group'[r] = thread_group'[q]
                      /\ ~Alive(q)' => thread_group'[q] = {q}
    BY DEF Groups
  <2>1. CASE q \in g
    <3>1. thread_group'[q] = g /\ \A r \in g : thread_group'[r] = g
      BY <1>1, <1>2, <2>1 DEF Proc
    <3>2. Alive(q)'
      BY <1>1, <1>2, <1>3, <2>1 DEF IInv, TypeOK, Groups, Alive, Proc
    <3> QED
      BY <2>1, <3>1, <3>2
  <2>2. CASE q \notin g
    <3>1. thread_group'[q] = thread_group[q]
      BY <1>1, <2>2
    <3>2. \A r \in thread_group[q] : r \notin g
      BY <1>2, <1>3, <2>2 DEF IInv, TypeOK, Groups, Proc
    <3>3. \A r \in thread_group[q] : thread_group'[r] = thread_group[r]
      BY <1>1, <3>2 DEF IInv, TypeOK
    <3>4. Alive(q)' = Alive(q)
      BY <1>1, <1>2, <2>2 DEF IInv, TypeOK, Alive
    <3> QED
      BY <3>1, <3>3, <3>4 DEF IInv, Groups
  <2> QED
    BY <2>1, <2>2
<1>7. Parents'
  BY <1>1 DEF IInv, TypeOK, Parents, Exists, Alive, Proc
<1>8. Places'
  BY <1>1 DEF IInv, TypeOK, Places, Proc
<1>9. ZombieNoticed'
  <2> SUFFICES ASSUME NEW s \in Proc, state'[s] = "SLEEPING",
                      NEW z \in Proc, state'[z] = "ZOMBIE",
                      parent'[z] \in thread_group'[s], target'[s] # AnyPid => z = target'[s]
               PROVE  FALSE
    BY DEF ZombieNoticed, Children, Exists
  <2>1. z # c /\ s # c /\ state[s] = "SLEEPING" /\ state[z] = "ZOMBIE" /\ parent'[z] = parent[z]
    BY <1>1 DEF IInv, TypeOK, Proc
  <2>2. parent[z] # c /\ parent[z] \in Proc
    BY <1>1, <2>1 DEF IInv, TypeOK, Parents, Exists, Alive
  <2>3. parent[z] \in thread_group[s]
    <3>1. CASE s \in g
      BY <1>1, <1>2, <2>1, <2>2, <3>1 DEF IInv, TypeOK, Groups, Proc
    <3>2. CASE s \notin g
      BY <1>1, <2>1, <3>2
    <3> QED
      BY <3>1, <3>2
  <2> QED
    BY <1>1, <2>1, <2>3 DEF IInv, ZombieNoticed, Children, Exists
<1>10. InitEndsLast'
  BY <1>1 DEF IInv, TypeOK, InitEndsLast, Exists, Proc
<1> QED
  BY <1>4, <1>5, <1>6, <1>7, <1>8, <1>9, <1>10 DEF IInv

\* Leaving a thread group.
LEMMA DeThreadGroups ==
  ASSUME TypeOK, Groups, NEW p \in Proc, DeThread(p)
  PROVE  /\ thread_group' \in [Proc -> SUBSET Proc]
         /\ thread_group'[p] = {p}
         /\ \A q \in Proc : q # p => thread_group'[q] = thread_group[q] \ {p}
         /\ \A q \in Proc : q \in thread_group'[q]
         /\ \A q \in Proc : \A r \in thread_group'[q] : thread_group'[r] = thread_group'[q]
         /\ \A q \in Proc : thread_group[q] = {q} => thread_group'[q] = {q}
<1>1. thread_group' = [q \in Proc |-> IF q = p THEN {p} ELSE thread_group[q] \ {p}]
  BY DEF DeThread
<1>2. /\ thread_group' \in [Proc -> SUBSET Proc]
      /\ thread_group'[p] = {p}
      /\ \A q \in Proc : q # p => thread_group'[q] = thread_group[q] \ {p}
  BY <1>1 DEF TypeOK
<1>3. \A q \in Proc : q \in thread_group'[q]
  BY <1>2 DEF TypeOK, Groups
<1>4. ASSUME NEW q \in Proc, NEW r \in thread_group'[q]
      PROVE  thread_group'[r] = thread_group'[q]
  <2>1. CASE q = p
    BY <1>2, <1>4, <2>1
  <2>2. CASE q # p
    <3>1. r \in Proc /\ r # p /\ thread_group[r] = thread_group[q]
      BY <1>2, <1>4, <2>2 DEF TypeOK, Groups
    <3> QED
      BY <1>2, <2>2, <3>1
  <2> QED
    BY <2>1, <2>2
<1> QED
  BY <1>2, <1>3, <1>4

LEMMA ExecStep ==
  ASSUME IInv, NEW p \in User, Exec(p)
  PROVE  IInv'
<1> USE ProcLifeAssumption
<1>1. state[p] = "RUNNABLE"
  BY CallerExists DEF Exec
<1>2. /\ UNCHANGED <<state, parent, exiting, target>>
      /\ DeThread(p)
      /\ pc' = [pc EXCEPT ![p] = TrapEnd(p)] /\ TrapEnd(p) \in {"dying", "ret"}
  BY DEF Exec, TrapEnd
<1>3. /\ thread_group' \in [Proc -> SUBSET Proc]
      /\ \A q \in Proc : q # p => thread_group'[q] = thread_group[q] \ {p}
      /\ \A q \in Proc : q \in thread_group'[q]
      /\ \A q \in Proc : \A r \in thread_group'[q] : thread_group'[r] = thread_group'[q]
      /\ \A q \in Proc : thread_group[q] = {q} => thread_group'[q] = {q}
  BY <1>2, DeThreadGroups DEF IInv, Proc
<1>4. TypeOK' /\ System' /\ Parents' /\ Places' /\ Groups'
  BY <1>1, <1>2, <1>3 DEF IInv, TypeOK, System, Parents, Places, Groups, Exists, Alive, Proc
<1>5. ZombieNoticed'
  BY <1>1, <1>2, <1>3 DEF IInv, ZombieNoticed, Children, Exists
<1>6. InitEndsLast'
  BY <1>2 DEF IInv, TypeOK, InitEndsLast, Exists, Proc
<1> QED
  BY <1>4, <1>5, <1>6 DEF IInv

\* __do_exit: the one step that makes a zombie and hands children over.
LEMMA DoExitEndStep ==
  ASSUME IInv, NEW p \in User, DoExitEnd(p)
  PROVE  IInv'
<1> USE ProcLifeAssumption
<1>1. state[p] = "RUNNABLE" /\ pc[p] = "dying" /\ p \in Proc /\ p # Initproc /\ p # Kswapd
  BY DEF DoExitEnd, InKernel, Proc
<1>2. DeThread(p) /\ UNCHANGED <<exiting, target, pc>>
  BY DEF DoExitEnd
<1> DEFINE children == {q \in Proc : Exists(q) /\ parent[q] = p}
           inherits == \E q \in children : q = p \/ state[q] = "ZOMBIE"
<1>3. PICK heir \in IF thread_group[p] = {p} THEN {Initproc} ELSE thread_group[p] \ {p} :
        /\ parent' = [q \in Proc |-> IF q \in children THEN heir ELSE parent[q]]
        /\ state' = [q \in Proc |->
             CASE q = p -> "ZOMBIE"
               [] q \in Woken(thread_group[parent[p]] \cup (IF inherits THEN {heir} ELSE {})) -> "RUNNABLE"
               [] OTHER -> state[q]]
  BY DEF DoExitEnd
<1>4. /\ heir \in Proc /\ heir # p
      /\ thread_group[p] = {p} => heir = Initproc
      /\ thread_group[p] # {p} => heir \in thread_group[p]
  BY <1>1, <1>3 DEF IInv, TypeOK, Groups, Proc
<1>5. Alive(heir)
  <2>1. CASE thread_group[p] = {p}
    BY <1>4, <2>1 DEF IInv, System, Alive
  <2>2. CASE thread_group[p] # {p}
    BY <1>1, <1>4, <2>2 DEF IInv, Groups
  <2> QED
    BY <2>1, <2>2
<1>6. /\ state' \in [Proc -> {"NONE", "RUNNABLE", "SLEEPING", "ZOMBIE"}]
      /\ state'[p] = "ZOMBIE"
      /\ \A q \in Proc : q # p => \/ state'[q] = state[q]
                                  \/ state[q] = "SLEEPING" /\ state'[q] = "RUNNABLE"
      /\ \A q \in Proc : q \in thread_group[parent[p]] => state'[q] # "SLEEPING"
      /\ inherits => state'[heir] # "SLEEPING"
  BY <1>1, <1>3, <1>4 DEF IInv, TypeOK, Woken
<1>7. /\ parent' \in [Proc -> Proc]
      /\ \A q \in Proc : Exists(q) /\ parent[q] = p => parent'[q] = heir
      /\ \A q \in Proc : ~(Exists(q) /\ parent[q] = p) => parent'[q] = parent[q]
  BY <1>3, <1>4 DEF IInv, TypeOK
<1>8. /\ \A q \in Proc : Exists(q) /\ parent[q] = p /\ (q = p \/ state[q] = "ZOMBIE") => inherits
  OBVIOUS
<1> HIDE DEF children, inherits
<1>9. /\ thread_group' \in [Proc -> SUBSET Proc]
      /\ thread_group'[p] = {p}
      /\ \A q \in Proc : q # p => thread_group'[q] = thread_group[q] \ {p}
      /\ \A q \in Proc : q \in thread_group'[q]
      /\ \A q \in Proc : \A r \in thread_group'[q] : thread_group'[r] = thread_group'[q]
      /\ \A q \in Proc : thread_group[q] = {q} => thread_group'[q] = {q}
  BY <1>1, <1>2, DeThreadGroups DEF IInv
<1>10. \A q \in Proc : q # p => Alive(q)' = Alive(q) /\ Exists(q)' = Exists(q)
  BY <1>6 DEF Alive, Exists
<1>11. TypeOK'
  BY <1>2, <1>6, <1>7, <1>9 DEF IInv, TypeOK
<1>12. System'
  BY <1>1, <1>2, <1>6, <1>7, <1>9 DEF IInv, System, Proc
<1>13. Groups'
  BY <1>9, <1>10 DEF IInv, Groups
<1>14. Parents'
  <2> SUFFICES ASSUME NEW q \in Proc, Exists(q)'
               PROVE  state'[parent'[q]] \notin {"NONE", "ZOMBIE"}
    BY DEF Parents, Alive
  <2>1. Exists(q)
    BY <1>1, <1>10 DEF Exists
  <2>2. CASE parent[q] = p
    BY <1>4, <1>5, <1>7, <1>10, <2>1, <2>2 DEF Alive
  <2>3. CASE parent[q] # p
    <3>1. parent'[q] = parent[q] /\ parent[q] \in Proc /\ Alive(parent[q])
      BY <1>7, <2>1, <2>3 DEF IInv, TypeOK, Parents
    <3> QED
      BY <1>10, <2>3, <3>1 DEF Alive
  <2> QED
    BY <2>2, <2>3
<1>15. Places'
  BY <1>1, <1>2, <1>6 DEF IInv, Places
<1>16. ZombieNoticed'
  <2> SUFFICES ASSUME NEW s \in Proc, state'[s] = "SLEEPING",
                      NEW z \in Proc, state'[z] = "ZOMBIE",
                      parent'[z] \in thread_group'[s], target[s] # AnyPid => z = target[s]
               PROVE  FALSE
    BY <1>2 DEF ZombieNoticed, Children, Exists
  <2>1. s # p /\ state[s] = "SLEEPING" /\ thread_group'[s] = thread_group[s] \ {p}
    BY <1>6, <1>9
  <2>2. Exists(z) /\ (z = p \/ state[z] = "ZOMBIE")
    BY <1>1, <1>6 DEF Exists
  <2>3. CASE parent[z] = p
    <3>1. parent'[z] = heir /\ inherits /\ heir \in thread_group[s]
      BY <1>7, <1>8, <2>1, <2>2, <2>3
    <3>2. CASE thread_group[p] = {p}
      <4>1. s = Initproc
        BY <1>4, <3>1, <3>2 DEF IInv, Groups, System, Proc
      <4> QED
        BY <1>4, <1>6, <3>1, <3>2, <4>1
    <3>3. CASE thread_group[p] # {p}
      <4>1. thread_group[s] = thread_group[p]
        BY <1>1, <1>4, <3>1, <3>3 DEF IInv, Groups
      <4>2. p \in thread_group[s] /\ s \in thread_group[p]
        BY <1>1, <4>1 DEF IInv, Groups
      <4>3. CASE z = p
        BY <1>6, <2>3, <4>2, <4>3
      <4>4. CASE z # p
        BY <2>1, <2>2, <2>3, <4>2, <4>4 DEF IInv, ZombieNoticed, Children
      <4> QED
        BY <4>3, <4>4
    <3> QED
      BY <3>2, <3>3
  <2>4. CASE parent[z] # p
    <3>1. parent[z] \in thread_group[s]
      BY <1>7, <2>1, <2>2, <2>4
    <3>2. CASE z = p
      <4>1. s \in thread_group[parent[p]]
        BY <3>1, <3>2 DEF IInv, Groups
      <4> QED
        BY <1>6, <4>1
    <3>3. CASE z # p
      BY <2>1, <2>2, <3>1, <3>3 DEF IInv, ZombieNoticed, Children
    <3> QED
      BY <3>2, <3>3
  <2> QED
    BY <2>3, <2>4
<1>17. InitEndsLast'
  <2>1. pc'[Initproc] = pc[Initproc] /\ Exists(p)' /\ Exists(p)
    BY <1>1, <1>2, <1>6 DEF Exists
  <2>2. pc[Initproc] # "end"
    BY <2>1 DEF IInv, InitEndsLast
  <2> QED
    BY <2>1, <2>2 DEF InitEndsLast
<1> QED
  BY <1>11, <1>12, <1>13, <1>14, <1>15, <1>16, <1>17 DEF IInv

\* With three processes beside the idle one, a user process is the only one.
LEMMA LastProcess ==
  ASSUME IInv, NEW z \in User, Exists(z)
  PROVE  nr_process = 3 <=> \A q \in User : Exists(q) => q = z
<1> USE ProcLifeAssumption
<1> DEFINE S == {q \in Proc : Exists(q)}
<1> DEFINE T == ({Initproc} \cup {Kswapd}) \cup {z}
<1>1. IsFiniteSet(T) /\ Cardinality(T) = 3
  <2>1. IsFiniteSet({Initproc}) /\ Cardinality({Initproc}) = 1
    BY Zenon, FS_Singleton
  <2>2. IsFiniteSet({Initproc} \cup {Kswapd}) /\ Cardinality({Initproc} \cup {Kswapd}) = 2
    BY <2>1, FS_AddElement
  <2> QED
    BY <2>2, FS_AddElement
<1>2. IsFiniteSet(S)
  <2>1. IsFiniteSet(Proc)
    BY Zenon, <1>1, FS_Subset, FS_Union DEF Proc
  <2> QED
    BY <2>1, FS_Subset
<1>3. T \subseteq S
  BY DEF IInv, System, Exists, Proc
<1>4. nr_process = 3 <=> S = T
  BY Zenon, <1>1, <1>2, <1>3, FS_Subset DEF nr_process
<1>5. S = T <=> \A q \in User : Exists(q) => q = z
  BY <1>3 DEF Proc
<1> QED
  BY <1>4, <1>5

\* do_wait by p, which is running.
LEMMA WaitScanStep ==
  ASSUME IInv, NEW p \in User \cup {Initproc}, state[p] = "RUNNABLE",
         NEW t \in User \cup {AnyPid}, NEW after, WaitScan(p, t, after),
         p \in User => after \in {"ret", "dying"},
         p = Initproc => /\ pc[p] = "wait" /\ t = AnyPid
                         /\ after = IF nr_process = 3 THEN "end" ELSE "wait"
  PROVE  IInv'
<1> USE ProcLifeAssumption
<1>1. p \in Proc /\ p # Kswapd
  BY DEF Proc
<1>2. after \in {"ret", "dying", "end", "wait"} /\ (p = Initproc => after \in {"end", "wait"})
  OBVIOUS
<1>3. ASSUME NEW z \in Children(p, t), state[z] = "ZOMBIE",
             state' = [state EXCEPT ![z] = "NONE"],
             parent' = [parent EXCEPT ![z] = Initproc],
             exiting' = [exiting EXCEPT ![z] = FALSE],
             pc' = [pc EXCEPT ![z] = "ret", ![p] = after],
             target' = [target EXCEPT ![p] = AnyPid],
             UNCHANGED thread_group
      PROVE  IInv'
  <2>1. z \in User /\ z # p
    BY <1>3 DEF Children, IInv, System, Proc
  <2>2. TypeOK'
    BY <1>1, <1>2, <1>3, <2>1 DEF IInv, TypeOK, Proc
  <2>3. System'
    BY <1>1, <1>2, <1>3, <2>1 DEF IInv, TypeOK, System, Proc
  <2>4. \A q \in Proc : Alive(q)' = Alive(q)
    BY <1>3 DEF IInv, TypeOK, Alive
  <2>5. Groups'
    BY <1>3, <2>4 DEF IInv, Groups
  <2>6. Parents'
    BY <1>3, <2>1, <2>4 DEF IInv, TypeOK, Parents, Exists, Alive, Proc
  <2>7. Places'
    BY <1>1, <1>2, <1>3, <2>1 DEF IInv, TypeOK, Places
  <2>8. ZombieNoticed'
    BY <1>1, <1>3, <2>1 DEF IInv, TypeOK, ZombieNoticed, Children, Exists
  <2>9. InitEndsLast'
    <3>1. Exists(z) /\ ~Exists(z)' /\ \A q \in User : q # z => Exists(q)' = Exists(q)
      BY <1>3, <2>1 DEF IInv, TypeOK, Exists, Proc
    <3>2. CASE p \in User
      <4>1. Exists(p)' /\ pc'[Initproc] = pc[Initproc]
        BY <1>1, <1>3, <2>1, <3>2 DEF IInv, TypeOK, Exists, Proc
      <4> QED
        BY <2>1, <3>1, <3>2, <4>1 DEF IInv, InitEndsLast
    <3>3. CASE p = Initproc
      <4>1. pc'[Initproc] = after
        BY <1>1, <1>3, <3>3 DEF IInv, TypeOK
      <4>2. nr_process = 3 <=> \A q \in User : Exists(q) => q = z
        BY <2>1, <3>1, LastProcess
      <4> QED
        BY <2>1, <3>1, <3>3, <4>1, <4>2 DEF InitEndsLast
    <3> QED
      BY <3>2, <3>3
  <2> QED
    BY <2>2, <2>3, <2>5, <2>6, <2>7, <2>8, <2>9 DEF IInv
<1>4. ASSUME \A q \in Children(p, t) : state[q] # "ZOMBIE",
             state' = [state EXCEPT ![p] = "SLEEPING"],
             pc' = [pc EXCEPT ![p] = "wait"],
             target' = [target EXCEPT ![p] = t],
             UNCHANGED <<parent, thread_group, exiting>>
      PROVE  IInv'
  <2>1. TypeOK'
    BY <1>1, <1>4 DEF IInv, TypeOK, Proc
  <2>2. \A q \in Proc : Alive(q)' = Alive(q) /\ Exists(q)' = Exists(q)
    BY <1>4 DEF IInv, TypeOK, Alive, Exists
  <2>3. System' /\ Groups' /\ Parents'
    BY <1>1, <1>4, <2>2 DEF IInv, TypeOK, System, Groups, Parents, Alive, Proc
  <2>4. Places'
    BY <1>1, <1>4 DEF IInv, TypeOK, Places
  <2>5. ZombieNoticed'
    BY <1>1, <1>4 DEF IInv, TypeOK, ZombieNoticed, Children, Exists
  <2>6. InitEndsLast'
    BY <1>1, <1>4, <2>2 DEF IInv, TypeOK, InitEndsLast, Proc
  <2> QED
    BY <2>1, <2>3, <2>4, <2>5, <2>6 DEF IInv
<1>5. ASSUME Children(p, t) = {},
             pc' = [pc EXCEPT ![p] = after],
             target' = [target EXCEPT ![p] = AnyPid],
             UNCHANGED <<state, parent, thread_group, exiting>>
      PROVE  IInv'
  <2>1. p \in User
    <3>1. Kswapd \in Children(Initproc, AnyPid)
      BY DEF IInv, System, Groups, Children, Exists, Proc
    <3> QED
      BY <1>5, <3>1
  <2>2. TypeOK' /\ System' /\ Groups' /\ Parents' /\ Places'
    BY <1>1, <1>2, <1>5, <2>1 DEF IInv, TypeOK, System, Groups, Parents, Places, Proc, Alive, Exists
  <2>3. ZombieNoticed'
    BY <1>1, <1>5 DEF IInv, TypeOK, ZombieNoticed, Children, Exists
  <2>4. InitEndsLast'
    BY <1>5, <2>1 DEF IInv, TypeOK, InitEndsLast, Exists, Proc
  <2> QED
    BY <2>2, <2>3, <2>4 DEF IInv
<1> QED
  BY <1>3, <1>4, <1>5 DEF WaitScan

LEMMA NextIInv == IInv /\ [Next]_vars => IInv'
<1> SUFFICES ASSUME IInv, [Next]_vars PROVE IInv'
  OBVIOUS
<1>1. ASSUME NEW p \in User,
             ReturnToUser(p) \/ Trap(p) \/ ForkBegin(p) \/ ForkFail(p) \/ DoExitThread(p)
      PROVE  IInv'
  <2>1. state[p] = "RUNNABLE"
    BY <1>1, CallerExists DEF ReturnToUser, Trap, ForkBegin, ForkFail, DoExitThread
  <2>2. TrapEnd(p) \in {"ret", "dying"}
    BY DEF TrapEnd
  <2>3. \E x \in {"user", "ret", "fork", "dying"} : pc' = [pc EXCEPT ![p] = x]
    BY <1>1, <2>2 DEF ReturnToUser, Trap, ForkBegin, ForkFail, DoExitThread
  <2>4. UNCHANGED <<state, parent, thread_group, exiting, target>>
    BY <1>1 DEF ReturnToUser, Trap, ForkBegin, ForkFail, DoExitThread
  <2> QED
    BY Zenon, <2>1, <2>3, <2>4, PlaceStep
<1>2. ASSUME NEW p \in User, NEW q \in User, Kill(p, q) PROVE IInv'
  <2>1. state[p] = "RUNNABLE"
    BY <1>2, CallerExists DEF Kill
  <2>2. \E x \in {"ret", "dying"} : pc' = [pc EXCEPT ![p] = x]
    BY Zenon, <1>2 DEF Kill
  <2>3. {q} \in SUBSET User /\ state' = KillStates({q}) /\ exiting' = KillFlags({q})
        /\ UNCHANGED <<parent, thread_group, target>>
    BY <1>2 DEF Kill
  <2> QED
    BY Zenon, <2>1, <2>2, <2>3, KillStep
<1>3. ASSUME NEW p \in User, DoExit(p) PROVE IInv'
  <2>1. state[p] = "RUNNABLE"
    BY <1>3, CallerExists DEF DoExit
  <2>2. thread_group[p] \ {p} \in SUBSET User
    BY UserGroup
  <2>3. /\ state' = KillStates(thread_group[p] \ {p}) /\ exiting' = KillFlags(thread_group[p] \ {p})
        /\ pc' = [pc EXCEPT ![p] = "dying"]
        /\ UNCHANGED <<parent, thread_group, target>>
    BY <1>3 DEF DoExit
  <2> QED
    BY Zenon, <2>1, <2>2, <2>3, KillStep
<1>4. ASSUME NEW p \in User, DoExitEnd(p) PROVE IInv'
  BY <1>4, DoExitEndStep
<1>5. ASSUME NEW p \in User, Exec(p) PROVE IInv'
  BY <1>5, ExecStep
<1>6. ASSUME NEW p \in User, NEW c \in User, ForkEnd(p, c, TRUE) \/ ForkEnd(p, c, FALSE) PROVE IInv'
  BY Zenon, <1>6, ForkEndStep
<1>7. ASSUME NEW p \in User, NEW t \in User \cup {AnyPid}, DoWait(p, t) PROVE IInv'
  <2>1. state[p] = "RUNNABLE" /\ WaitScan(p, t, TrapEnd(p)) /\ TrapEnd(p) \in {"ret", "dying"}
    BY <1>7, CallerExists DEF DoWait, TrapEnd
  <2>2. p # Initproc
    BY ProcLifeAssumption
  <2> QED
    BY <2>1, <2>2, WaitScanStep
<1>8. ASSUME NEW p \in User, WaitWake(p) PROVE IInv'
  <2> USE ProcLifeAssumption
  <2>1. state[p] = "RUNNABLE" /\ p # Initproc /\ p \in Proc
    BY <1>8 DEF WaitWake, InKernel, Proc
  <2>2. CASE exiting[p] /\ pc' = [pc EXCEPT ![p] = "dying"] /\ target' = [target EXCEPT ![p] = AnyPid]
             /\ UNCHANGED <<state, parent, thread_group, exiting>>
    <3>1. TypeOK' /\ System' /\ Groups' /\ Parents' /\ Places'
      BY <2>1, <2>2 DEF IInv, TypeOK, System, Groups, Parents, Places, Proc, Alive, Exists
    <3>2. ZombieNoticed'
      BY <2>1, <2>2 DEF IInv, TypeOK, ZombieNoticed, Children, Exists
    <3>3. InitEndsLast'
      BY <2>1, <2>2 DEF IInv, TypeOK, InitEndsLast, Exists, Proc
    <3> QED
      BY <3>1, <3>2, <3>3 DEF IInv
  <2>3. CASE WaitScan(p, target[p], "ret")
    <3>1. target[p] \in User \cup {AnyPid}
      BY <2>1 DEF IInv, TypeOK
    <3> QED
      BY <2>1, <2>3, <3>1, WaitScanStep
  <2> QED
    BY <1>8, <2>2, <2>3 DEF WaitWake
<1>9. ASSUME InitStep PROVE IInv'
  <2>1. /\ state[Initproc] = "RUNNABLE" /\ pc[Initproc] = "wait"
        /\ WaitScan(Initproc, AnyPid, IF nr_process = 3 THEN "end" ELSE "wait")
    BY <1>9 DEF InitStep, InKernel
  <2>2. Initproc \notin User
    BY ProcLifeAssumption
  <2> QED
    BY <2>1, <2>2, WaitScanStep
<1>10. CASE UNCHANGED vars
  BY <1>10 DEF vars, IInv, TypeOK, System, Groups, Parents, Places, ZombieNoticed, InitEndsLast,
              Children, Alive, Exists
<1> QED
  BY Zenon, <1>1, <1>2, <1>3, <1>4, <1>5, <1>6, <1>7, <1>8, <1>9, <1>10 DEF Next

\* The inductive invariant holds throughout: who may be parent of whom, which groups there
\* are and where each process can be, over all forks, exits, kills, waits and exec.
THEOREM ProcLifeInv == Spec => []IInv
BY InitIInv, NextIInv, PTL DEF Spec

\* Every process has a living parent, and the thread groups partition the living, in
\* whatever order threads are created, exit and are killed (__do_exit, de_thread).
THEOREM ParentsStayAlive == Spec => []ParentAlive
<1>1. IInv => ParentAlive
  BY DEF IInv, TypeOK, Groups, Parents, ParentAlive, Alive, Exists
<1> QED
  BY <1>1, ProcLifeInv, PTL

\* No exit goes unnoticed: a process that sleeps in do_wait has no zombie to reap.
THEOREM ZombiesAreNoticed == Spec => []ZombieNoticed
<1>1. IInv => ZombieNoticed
  BY DEF IInv
<1> QED
  BY <1>1, ProcLifeInv, PTL

\* init_main leaves its loop with the last user process, neither before nor never.
THEOREM InitEndsWithLast == Spec => []InitEndsLast
<1>1. IInv => InitEndsLast
  BY DEF IInv
<1> QED
  BY <1>1, ProcLifeInv, PTL
=============================================================================
