-------------------------- MODULE WaitQueueProofs ---------------------------
(***************************************************************************)
(* What the operations on a wait queue (module WaitQueue) do to the links,  *)
(* and a first use of it: the proofs about events (module Event), for any   *)
(* finite set of processes.                                                 *)
(*                                                                         *)
(* The lemmas on queues hold for sequences over any set, so that they serve *)
(* for the queue of messages of a mailbox too.                              *)
(***************************************************************************)
EXTENDS Event, TLAPS

\* Nothing is in the queue twice.
Once(w) == \A i, j \in 1 .. Len(w) : w[i] = w[j] => i = j

\* wait_queue_add links p, at the end, and nobody else.
LEMMA AppendLinks ==
  ASSUME NEW S, NEW w \in Seq(S), Once(w), NEW p \in S, ~Linked(p, w)
  PROVE  /\ Append(w, p) \in Seq(S) /\ Once(Append(w, p)) /\ Len(Append(w, p)) = Len(w) + 1
         /\ Append(w, p) # << >>
         /\ \A s \in S : Linked(s, Append(w, p)) <=> Linked(s, w) \/ s = p
<1> DEFINE v == Append(w, p)
<1>1. /\ v \in Seq(S) /\ Len(w) \in Nat /\ Len(v) = Len(w) + 1
      /\ \A i \in 1 .. Len(w) : v[i] = w[i]
      /\ v[Len(w) + 1] = p /\ v # << >>
  OBVIOUS
<1> HIDE DEF v
<1>2. Once(v) BY <1>1 DEF Once, Linked
<1>3. \A s \in S : Linked(s, v) <=> Linked(s, w) \/ s = p BY <1>1 DEF Linked
<1> QED BY <1>1, <1>2, <1>3 DEF v

\* A message put back in front of a queue is linked, and nothing else.
LEMMA PushLinks ==
  ASSUME NEW S, NEW w \in Seq(S), Once(w), NEW p \in S, ~Linked(p, w)
  PROVE  /\ <<p>> \o w \in Seq(S) /\ Once(<<p>> \o w) /\ Len(<<p>> \o w) = Len(w) + 1
         /\ \A s \in S : Linked(s, <<p>> \o w) <=> Linked(s, w) \/ s = p
<1> DEFINE v == <<p>> \o w
<1>1. /\ v \in Seq(S) /\ Len(w) \in Nat /\ Len(v) = Len(w) + 1
      /\ \A i \in 2 .. Len(w) + 1 : v[i] = w[i - 1]
      /\ v[1] = p
  OBVIOUS
<1> HIDE DEF v
<1>2. \A i \in 1 .. Len(v) : i # 1 => i - 1 \in 1 .. Len(w) /\ v[i] = w[i - 1] BY <1>1
<1>3. Once(v)
  <2> SUFFICES ASSUME NEW i \in 1 .. Len(v), NEW j \in 1 .. Len(v), v[i] = v[j] PROVE i = j BY DEF Once
  <2>1. CASE i = 1 BY <1>1, <1>2, <2>1 DEF Linked
  <2>2. CASE j = 1 BY <1>1, <1>2, <2>2 DEF Linked
  <2>3. CASE i # 1 /\ j # 1
    <3>1. i - 1 = j - 1 BY <1>2, <2>3 DEF Once
    <3> QED BY <3>1
  <2> QED BY <2>1, <2>2, <2>3
<1>4. ASSUME NEW s \in S, Linked(s, v) PROVE Linked(s, w) \/ s = p BY <1>1, <1>2, <1>4 DEF Linked
<1>5. ASSUME NEW s \in S, Linked(s, w) PROVE Linked(s, v)
  <2>1. PICK i \in 1 .. Len(w) : w[i] = s BY <1>5 DEF Linked
  <2>2. i + 1 \in 1 .. Len(v) /\ v[i + 1] = s BY <1>1, <2>1
  <2> QED BY <2>2 DEF Linked
<1>6. Linked(p, v)
  <2>1. 1 \in 1 .. Len(v) BY <1>1
  <2> QED BY <1>1, <2>1 DEF Linked
<1> QED BY <1>1, <1>3, <1>4, <1>5, <1>6 DEF v

\* Taking the i-th out unlinks it and nobody else.
LEMMA CutLinks ==
  ASSUME NEW S, NEW w \in Seq(S), Once(w), NEW i \in 1 .. Len(w)
  PROVE  /\ Unlinked(w, i) \in Seq(S) /\ Once(Unlinked(w, i))
         /\ \A s \in S : Linked(s, Unlinked(w, i)) <=> Linked(s, w) /\ s # w[i]
<1> DEFINE v == Unlinked(w, i)
           from(n) == IF n < i THEN n ELSE n + 1
<1>1. Len(w) \in Nat /\ Len(w) - 1 \in Nat /\ \A j \in 1 .. Len(w) : w[j] \in S OBVIOUS
<1>2. v = [j \in 1 .. Len(w) - 1 |-> IF j < i THEN w[j] ELSE w[j + 1]] BY DEF Unlinked
<1>3. v \in Seq(S) /\ Len(v) = Len(w) - 1
  <2>1. \A j \in 1 .. Len(w) - 1 : (IF j < i THEN w[j] ELSE w[j + 1]) \in S BY <1>1
  <2> QED BY <1>1, <1>2, <2>1
<1>4. \A j \in 1 .. Len(v) : from(j) \in 1 .. Len(w) /\ from(j) # i /\ v[j] = w[from(j)]
  BY <1>1, <1>2, <1>3
<1> HIDE DEF v
<1>5. Once(v)
  <2> SUFFICES ASSUME NEW j \in 1 .. Len(v), NEW k \in 1 .. Len(v), v[j] = v[k] PROVE j = k
    BY DEF Once
  <2>1. from(j) = from(k) BY Zenon, <1>4 DEF Once
  <2> QED BY <2>1, <1>1, <1>3
<1>6. ASSUME NEW s \in S, Linked(s, v) PROVE Linked(s, w) /\ s # w[i]
  BY <1>4, <1>6 DEF Linked, Once
<1>7. ASSUME NEW s \in S, Linked(s, w), s # w[i] PROVE Linked(s, v)
  <2>1. PICK k \in 1 .. Len(w) : w[k] = s BY <1>7 DEF Linked
  <2>2. k # i BY <1>7, <2>1
  <2>3. CASE k < i
    <3>1. k \in 1 .. Len(v) /\ v[k] = s BY <1>1, <1>2, <1>3, <2>1, <2>3
    <3> QED BY <3>1 DEF Linked
  <2>4. CASE k > i
    <3>1. k - 1 \in 1 .. Len(v) /\ v[k - 1] = s BY <1>1, <1>2, <1>3, <2>1, <2>4
    <3> QED BY <3>1 DEF Linked
  <2> QED BY <2>2, <2>3, <2>4, <1>1
<1> QED BY <1>3, <1>5, <1>6, <1>7 DEF v

\* wakeup_first unlinks the first and nobody else.
LEMMA TailLinks ==
  ASSUME NEW S, NEW w \in Seq(S), Once(w), w # << >>
  PROVE  /\ Tail(w) \in Seq(S) /\ Once(Tail(w)) /\ Len(Tail(w)) = Len(w) - 1
         /\ Head(w) \in S /\ Linked(Head(w), w)
         /\ \A s \in S : Linked(s, Tail(w)) <=> Linked(s, w) /\ s # Head(w)
<1>1. Len(w) \in Nat /\ Len(w) > 0 /\ Head(w) = w[1] /\ w[1] \in S OBVIOUS
<1>2. Tail(w) = Unlinked(w, 1) /\ Len(Tail(w)) = Len(w) - 1
  <2>1. /\ Unlinked(w, 1) \in Seq(S) /\ Len(Unlinked(w, 1)) = Len(w) - 1
        /\ \A j \in 1 .. Len(w) - 1 : Unlinked(w, 1)[j] = w[j + 1]
    <3>1. /\ Unlinked(w, 1) = [j \in 1 .. Len(w) - 1 |-> w[j + 1]]
          /\ Len(w) - 1 \in Nat /\ \A j \in 1 .. Len(w) - 1 : w[j + 1] \in S
      BY <1>1 DEF Unlinked
    <3> QED BY <3>1
  <2>2. /\ Tail(w) \in Seq(S) /\ Len(Tail(w)) = Len(w) - 1
        /\ \A j \in 1 .. Len(w) - 1 : Tail(w)[j] = w[j + 1]
    BY <1>1
  <2> QED BY <2>1, <2>2
<1>3. 1 \in 1 .. Len(w) BY <1>1
<1>4. Linked(Head(w), w) BY <1>1, <1>3 DEF Linked
<1>5. /\ Unlinked(w, 1) \in Seq(S) /\ Once(Unlinked(w, 1))
      /\ \A s \in S : Linked(s, Unlinked(w, 1)) <=> Linked(s, w) /\ s # w[1]
  BY <1>3, CutLinks
<1> QED BY Zenon, <1>1, <1>2, <1>4, <1>5

\* An empty queue is one that nobody is linked in.
LEMMA EmptyLinks ==
  ASSUME NEW S, NEW w \in Seq(S)
  PROVE  /\ w = << >> <=> \A s \in S : ~Linked(s, w)
         /\ w = << >> <=> Len(w) = 0
<1>1. w # << >> => w[1] \in S /\ 1 \in 1 .. Len(w) OBVIOUS
<1>2. w = << >> <=> Len(w) = 0 OBVIOUS
<1> QED BY <1>1, <1>2 DEF Linked

\* The empty queue.
LEMMA NoLinks == ASSUME NEW S
                 PROVE  << >> \in Seq(S) /\ Once(<< >>) /\ \A s : ~Linked(s, << >>)
BY DEF Once, Linked

\* wait_current_del unlinks p, if it was linked, and nobody else.
LEMMA DelLinks ==
  ASSUME NEW S, NEW w \in Seq(S), Once(w), NEW p \in S
  PROVE  /\ WaitQueueDel(w, p) \in Seq(S) /\ Once(WaitQueueDel(w, p))
         /\ \A s \in S : Linked(s, WaitQueueDel(w, p)) <=> Linked(s, w) /\ s # p
<1>1. CASE ~Linked(p, w) BY <1>1 DEF WaitQueueDel
<1>2. CASE Linked(p, w)
  <2> DEFINE i == CHOOSE j \in 1 .. Len(w) : w[j] = p
  <2>1. i \in 1 .. Len(w) /\ w[i] = p BY <1>2 DEF Linked
  <2>2. WaitQueueDel(w, p) = Unlinked(w, i) BY <1>2 DEF WaitQueueDel
  <2> HIDE DEF i
  <2> QED BY <2>1, <2>2, CutLinks
<1> QED BY <1>1, <1>2

\* Who is linked in such a queue is so at one place.
LEMMA OnePlace ==
  ASSUME NEW S, NEW w \in Seq(S), Once(w), NEW p, Linked(p, w)
  PROVE  \E i \in DOMAIN w : {j \in DOMAIN w : w[j] = p} = {i}
<1>1. DOMAIN w = 1 .. Len(w) OBVIOUS
<1>2. PICK i \in 1 .. Len(w) : w[i] = p BY DEF Linked
<1>3. {j \in DOMAIN w : w[j] = p} = {i} BY <1>1, <1>2 DEF Once
<1> QED BY <1>1, <1>3
-----------------------------------------------------------------------------
EventTypeOK ==
  /\ life \in [Proc -> {"alive", "zombie", "none"}]
  /\ event_pc \in [Proc -> {"run", "send", "recv"}]
  /\ event_asleep \in [Proc -> BOOLEAN]
  /\ event_box \in [Proc -> Seq(Proc)]
  /\ to \in [Proc -> Proc \cup {Nobody}]
  /\ event_flags \in [Proc -> {"WT_INTERRUPTED", "WT_EVENT_SEND"}]
  /\ taken \in [Proc -> BOOLEAN]

\* A process is in a box once.
LinkedOnce == \A q \in Proc : Once(event_box[q])

\* Whoever sends has a receiver, and only who sends or receives sleeps.
Sending == \A s \in Proc : /\ event_pc[s] = "send" => to[s] \in Proc /\ to[s] # s
                           /\ event_asleep[s] => event_pc[s] # "run"

\* The inductive invariant: TakenOnce and NoMissedSender need each other, as an event
\* is taken from the box and its sender leaves the box in the same step.
EventIInv == EventTypeOK /\ LinkedOnce /\ Sending /\ TakenOnce /\ NoMissedSender

LEMMA EventInitIInv == EventInit => EventIInv
BY DEF EventInit, EventIInv, EventTypeOK, LinkedOnce, Once, Sending, TakenOnce, NoMissedSender, Linked
-----------------------------------------------------------------------------
\* NoMissedSender said with links only, of any state: those of the successor states
\* below are given by their links.
Links(lf, c, a, w, t) ==
  /\ \A s, q \in Proc : Linked(s, w[q]) => /\ lf[q] = "alive" /\ c[s] = "send" /\ t[s] = q
                                           /\ ~(c[q] = "recv" /\ a[q])
  /\ \A s \in Proc : c[s] = "send" /\ a[s] => Linked(s, w[t[s]])

LEMMA LinksSame == ASSUME EventTypeOK PROVE NoMissedSender <=> Links(life, event_pc, event_asleep, event_box, to)
<1>1. \A q \in Proc : event_box[q] = << >> <=> \A s \in Proc : ~Linked(s, event_box[q])
  BY EmptyLinks DEF EventTypeOK
<1> QED BY <1>1 DEF NoMissedSender, Links

LEMMA LinksSamePrime ==
  ASSUME EventTypeOK', Links(life', event_pc', event_asleep', event_box', to') PROVE NoMissedSender'
<1>1. \A q \in Proc : event_box'[q] = << >> <=> \A s \in Proc : ~Linked(s, event_box'[q])
  BY EmptyLinks DEF EventTypeOK
<1> QED BY <1>1 DEF NoMissedSender, Links
-----------------------------------------------------------------------------
\* One lemma for each kind of step.
LEMMA SendIInv == ASSUME EventIInv, NEW p \in Proc, NEW q \in Proc, EventSend(p, q) PROVE EventIInv'
<1>1. Links(life, event_pc, event_asleep, event_box, to) BY LinksSame DEF EventIInv
<1>2. /\ q # p /\ life[q] = "alive" /\ event_pc[p] = "run" /\ ~event_asleep[p]
      /\ event_asleep' = [event_asleep EXCEPT ![q] = IF event_pc[q] = "recv" THEN FALSE ELSE @, ![p] = TRUE]
      /\ event_pc' = [event_pc EXCEPT ![p] = "send"] /\ to' = [to EXCEPT ![p] = q]
      /\ event_box' = [event_box EXCEPT ![q] = Append(@, p)]
      /\ event_flags' = [event_flags EXCEPT ![p] = "WT_INTERRUPTED"]
      /\ taken' = [taken EXCEPT ![p] = FALSE] /\ life' = life
  BY DEF EventSend, Running, EventIInv, Sending
<1>3. \A r \in Proc : ~Linked(p, event_box[r]) BY <1>1, <1>2 DEF Links
<1>4. /\ Append(event_box[q], p) \in Seq(Proc) /\ Once(Append(event_box[q], p))
      /\ \A s \in Proc : Linked(s, Append(event_box[q], p)) <=> Linked(s, event_box[q]) \/ s = p
  BY <1>3, AppendLinks DEF EventIInv, EventTypeOK, LinkedOnce
<1>5. /\ event_box' \in [Proc -> Seq(Proc)] /\ LinkedOnce'
      /\ \A s, r \in Proc : Linked(s, event_box'[r]) <=> Linked(s, event_box[r]) \/ (s = p /\ r = q)
  BY <1>2, <1>4 DEF EventIInv, EventTypeOK, LinkedOnce
<1>6. EventTypeOK' BY Zenon, <1>2, <1>5 DEF EventIInv, EventTypeOK
<1>7. Sending' BY Zenon, <1>2 DEF EventIInv, EventTypeOK, Sending
<1>8. TakenOnce' BY <1>2, <1>5 DEF EventIInv, EventTypeOK, TakenOnce
<1>9. Links(life', event_pc', event_asleep', event_box', to')
  <2>1. ASSUME NEW s \in Proc, NEW r \in Proc, Linked(s, event_box'[r])
        PROVE  /\ life'[r] = "alive" /\ event_pc'[s] = "send" /\ to'[s] = r
               /\ ~(event_pc'[r] = "recv" /\ event_asleep'[r])
    <3>1. life[r] = "alive" /\ event_pc'[s] = "send" /\ to'[s] = r
      BY <1>1, <1>2, <1>5, <2>1 DEF EventIInv, EventTypeOK, Links
    <3>2. CASE r = q BY Zenon, <1>2, <3>1, <3>2 DEF EventIInv, EventTypeOK
    <3>3. CASE r # q
      <4>1. Linked(s, event_box[r]) BY <1>5, <2>1, <3>3
      <4>2. ~(event_pc[r] = "recv" /\ event_asleep[r]) BY <1>1, <4>1 DEF Links
      <4>3. r # p => event_pc'[r] = event_pc[r] /\ (event_asleep'[r] <=> event_asleep[r])
        BY <1>2, <3>3 DEF EventIInv, EventTypeOK
      <4>4. r = p => event_pc'[r] = "send" BY <1>2 DEF EventIInv, EventTypeOK
      <4> QED BY <1>2, <3>1, <4>2, <4>3, <4>4
    <3> QED BY <3>2, <3>3
  <2>2. ASSUME NEW s \in Proc, event_pc'[s] = "send", event_asleep'[s] PROVE Linked(s, event_box'[to'[s]])
    <3>1. CASE s = p BY <1>2, <1>5, <3>1 DEF EventIInv, EventTypeOK
    <3>2. CASE s # p
      <4>1. event_pc[s] = "send" /\ event_asleep[s] /\ to'[s] = to[s] /\ to[s] \in Proc
        BY Zenon, <1>2, <2>2, <3>2 DEF EventIInv, EventTypeOK, Sending
      <4> QED BY <1>1, <1>5, <4>1 DEF Links
    <3> QED BY <3>1, <3>2
  <2> QED BY <2>1, <2>2 DEF Links
<1> QED BY <1>5, <1>6, <1>7, <1>8, <1>9, LinksSamePrime DEF EventIInv

LEMMA SendReturnIInv == ASSUME EventIInv, NEW p \in Proc, SendReturn(p) PROVE EventIInv'
<1> DEFINE q == to[p]
<1>1. Links(life, event_pc, event_asleep, event_box, to) BY LinksSame DEF EventIInv
<1>2. /\ event_pc[p] = "send" /\ ~event_asleep[p] /\ q \in Proc
      /\ event_pc' = [event_pc EXCEPT ![p] = "run"] /\ to' = [to EXCEPT ![p] = Nobody]
      /\ UNCHANGED <<life, event_asleep, event_flags, taken>>
  BY DEF SendReturn, EventIInv, Sending
<1>3. \A r \in Proc : Linked(p, event_box[r]) => r = q BY <1>1 DEF Links
<1>4. /\ event_box' \in [Proc -> Seq(Proc)] /\ LinkedOnce'
      /\ \A s, r \in Proc : Linked(s, event_box'[r]) <=> Linked(s, event_box[r]) /\ s # p
  <2> DEFINE v == WaitQueueDel(event_box[q], p)
  <2>1. event_box' = [event_box EXCEPT ![q] = v] BY DEF SendReturn
  <2>2. event_box[q] \in Seq(Proc) /\ Once(event_box[q]) BY <1>2 DEF EventIInv, EventTypeOK, LinkedOnce
  <2>3. /\ v \in Seq(Proc) /\ Once(v)
        /\ \A s \in Proc : Linked(s, v) <=> Linked(s, event_box[q]) /\ s # p
    BY <2>2, DelLinks
  <2> HIDE DEF v, q
  <2> QED BY <1>2, <1>3, <2>1, <2>3 DEF EventIInv, EventTypeOK, LinkedOnce
<1>5. EventTypeOK' BY Zenon, <1>2, <1>4 DEF EventIInv, EventTypeOK
<1>6. Sending' BY <1>2 DEF EventIInv, EventTypeOK, Sending
<1>7. TakenOnce' BY <1>2, <1>4 DEF EventIInv, EventTypeOK, TakenOnce
<1>8. Links(life', event_pc', event_asleep', event_box', to')
  BY <1>1, <1>2, <1>4 DEF EventIInv, EventTypeOK, Links, Sending
<1> QED BY <1>4, <1>5, <1>6, <1>7, <1>8, LinksSamePrime DEF EventIInv

\* The event of the first sender is taken; the receiver returns.
LEMMA TakeIInv ==
  ASSUME EventIInv, NEW p \in Proc, event_box[p] # << >>, RecvTake(p), ~event_asleep[p],
         event_pc[p] \in {"run", "recv"}, event_pc' = [event_pc EXCEPT ![p] = "run"], UNCHANGED <<life, to>>
  PROVE  EventIInv'
<1> DEFINE h == Head(event_box[p])
           v == Tail(event_box[p])
<1>1. Links(life, event_pc, event_asleep, event_box, to) BY LinksSame DEF EventIInv
<1>2. /\ event_box' = [event_box EXCEPT ![p] = v]
      /\ event_asleep' = [event_asleep EXCEPT ![h] = FALSE]
      /\ event_flags' = [event_flags EXCEPT ![h] = "WT_EVENT_SEND"]
      /\ taken' = [taken EXCEPT ![h] = TRUE]
  BY DEF RecvTake
<1>3. /\ v \in Seq(Proc) /\ Once(v) /\ h \in Proc /\ Linked(h, event_box[p])
      /\ \A s \in Proc : Linked(s, v) <=> Linked(s, event_box[p]) /\ s # h
  BY TailLinks DEF EventIInv, EventTypeOK, LinkedOnce
<1> HIDE DEF h, v
<1>4. /\ event_box' \in [Proc -> Seq(Proc)] /\ LinkedOnce'
      /\ \A s, r \in Proc : Linked(s, event_box'[r]) <=> Linked(s, event_box[r]) /\ ~(s = h /\ r = p)
  BY <1>2, <1>3 DEF EventIInv, EventTypeOK, LinkedOnce
<1>5. event_pc[h] = "send" /\ to[h] = p /\ h # p /\ \A r \in Proc : Linked(h, event_box[r]) => r = p
  BY <1>1, <1>3 DEF Links
<1>6. EventTypeOK' BY <1>2, <1>3, <1>4 DEF EventIInv, EventTypeOK
<1>7. Sending' BY <1>2, <1>3 DEF EventIInv, EventTypeOK, Sending
<1>8. TakenOnce' BY <1>2, <1>3, <1>4, <1>5 DEF EventIInv, EventTypeOK, TakenOnce
<1>9. Links(life', event_pc', event_asleep', event_box', to')
  BY <1>1, <1>2, <1>3, <1>4, <1>5 DEF EventIInv, EventTypeOK, Links, Sending
<1> QED BY <1>4, <1>6, <1>7, <1>8, <1>9, LinksSamePrime DEF EventIInv

\* Steps that leave the queues alone.
LEMMA QuietIInv ==
  ASSUME EventIInv, NEW p \in Proc, UNCHANGED <<event_box, to, event_flags, taken>>,
         \/ EventInterrupt(p) \/ EventReap(p) \/ EventFork(p)
         \/ EventRecv(p) /\ event_box[p] = << >>
         \/ RecvReturn(p) /\ event_box[p] = << >>
  PROVE  EventIInv'
<1>1. Links(life, event_pc, event_asleep, event_box, to) BY LinksSame DEF EventIInv
<1>2. event_box[p] = << >> => \A s \in Proc : ~Linked(s, event_box[p])
  BY EmptyLinks DEF EventIInv, EventTypeOK
<1>3. \/ event_asleep[p] /\ event_asleep' = [event_asleep EXCEPT ![p] = FALSE] /\ UNCHANGED <<life, event_pc>>
      \/ /\ event_box[p] = << >> /\ event_pc[p] = "run" /\ life' = life
         /\ event_asleep' = [event_asleep EXCEPT ![p] = TRUE] /\ event_pc' = [event_pc EXCEPT ![p] = "recv"]
      \/ /\ event_pc[p] = "recv" /\ ~event_asleep[p]
         /\ event_pc' = [event_pc EXCEPT ![p] = "run"] /\ UNCHANGED <<event_asleep, life>>
      \/ /\ life[p] # "alive" /\ \E l \in {"none", "alive"} : life' = [life EXCEPT ![p] = l]
         /\ UNCHANGED <<event_pc, event_asleep>>
  BY DEF EventInterrupt, EventReap, EventFork, EventRecv, RecvReturn, Running
<1>4. EventTypeOK'
  <2>1. life' \in [Proc -> {"alive", "zombie", "none"}] BY Zenon, <1>3 DEF EventIInv, EventTypeOK
  <2>2. event_pc' \in [Proc -> {"run", "send", "recv"}] BY Zenon, <1>3 DEF EventIInv, EventTypeOK
  <2>3. event_asleep' \in [Proc -> BOOLEAN] BY Zenon, <1>3 DEF EventIInv, EventTypeOK
  <2> QED BY <2>1, <2>2, <2>3 DEF EventIInv, EventTypeOK
<1>5. Sending'
  <2>1. \A s \in Proc : event_pc'[s] = "send" => event_pc[s] = "send" BY <1>3 DEF EventIInv, EventTypeOK
  <2>2. ASSUME NEW s \in Proc, event_asleep'[s] PROVE event_pc'[s] # "run"
    <3>1. CASE s = p BY <1>3, <2>2, <3>1 DEF EventIInv, EventTypeOK, Sending
    <3>2. CASE s # p
      <4>1. event_asleep[s] /\ event_pc'[s] = event_pc[s] BY <1>3, <2>2, <3>2 DEF EventIInv, EventTypeOK
      <4> QED BY <4>1 DEF EventIInv, Sending
    <3> QED BY <3>1, <3>2
  <2> QED BY <2>1, <2>2 DEF EventIInv, Sending
<1>6. TakenOnce' BY <1>3 DEF EventIInv, EventTypeOK, TakenOnce
<1>7. Links(life', event_pc', event_asleep', event_box', to')
  <2>1. ASSUME NEW s \in Proc, NEW q \in Proc, Linked(s, event_box[q])
        PROVE  /\ life'[q] = "alive" /\ event_pc'[s] = "send"
               /\ ~(event_pc'[q] = "recv" /\ event_asleep'[q])
    <3>1. life[q] = "alive" /\ event_pc[s] = "send" /\ ~(event_pc[q] = "recv" /\ event_asleep[q])
      BY <1>1, <2>1 DEF Links
    <3>2. life'[q] = "alive" BY <1>3, <3>1 DEF EventIInv, EventTypeOK
    <3>3. event_pc'[s] = "send" BY <1>3, <3>1 DEF EventIInv, EventTypeOK
    <3>4. ~(event_pc'[q] = "recv" /\ event_asleep'[q])
      <4>1. CASE q # p
        <5>1. event_pc'[q] = event_pc[q] /\ event_asleep'[q] = event_asleep[q]
          BY <1>3, <4>1 DEF EventIInv, EventTypeOK
        <5> QED BY <3>1, <5>1
      <4>2. CASE q = p BY <1>2, <1>3, <2>1, <3>1, <4>2 DEF EventIInv, EventTypeOK
      <4> QED BY <4>1, <4>2
    <3> QED BY <3>2, <3>3, <3>4
  <2>2. ASSUME NEW s \in Proc, event_pc'[s] = "send", event_asleep'[s] PROVE Linked(s, event_box[to[s]])
    <3>1. event_pc[s] = "send" /\ event_asleep[s] BY Zenon, <1>3, <2>2 DEF EventIInv, EventTypeOK
    <3> QED BY <1>1, <3>1 DEF Links
  <2>3. \A s, q \in Proc : Linked(s, event_box[q]) => to[s] = q BY <1>1 DEF Links
  <2> QED BY <2>1, <2>2, <2>3 DEF Links
<1> QED BY <1>4, <1>5, <1>6, <1>7, LinksSamePrime DEF EventIInv, LinkedOnce

LEMMA ExitIInv == ASSUME EventIInv, NEW p \in Proc, EventExit(p) PROVE EventIInv'
<1>1. Links(life, event_pc, event_asleep, event_box, to) BY LinksSame DEF EventIInv
<1>2. /\ event_box' = [event_box EXCEPT ![p] = << >>]
      /\ life' = [life EXCEPT ![p] = "zombie"]
      /\ event_asleep' = [q \in Proc |-> event_asleep[q] /\ ~Linked(q, event_box[p])]
      /\ UNCHANGED <<event_pc, to, event_flags, taken>>
  BY DEF EventExit
<1>3. << >> \in Seq(Proc) /\ Once(<< >>) /\ \A s \in Proc : ~Linked(s, << >>)
  BY DEF Once, Linked
<1>4. /\ event_box' \in [Proc -> Seq(Proc)] /\ LinkedOnce'
      /\ \A s, r \in Proc : Linked(s, event_box'[r]) <=> Linked(s, event_box[r]) /\ r # p
  BY <1>2, <1>3 DEF EventIInv, EventTypeOK, LinkedOnce
<1>5. event_asleep' \in [Proc -> BOOLEAN] /\ \A q \in Proc : event_asleep'[q] => event_asleep[q] /\ ~Linked(q, event_box[p])
  BY Zenon, <1>2
<1>6. EventTypeOK' BY <1>2, <1>4, <1>5 DEF EventIInv, EventTypeOK
<1>7. Sending' BY <1>2, <1>5 DEF EventIInv, EventTypeOK, Sending
<1>8. TakenOnce' BY <1>2, <1>4 DEF EventIInv, EventTypeOK, TakenOnce
<1>9. Links(life', event_pc', event_asleep', event_box', to')
  BY <1>1, <1>2, <1>4, <1>5 DEF EventIInv, EventTypeOK, Links, Sending
<1> QED BY <1>4, <1>6, <1>7, <1>8, <1>9, LinksSamePrime DEF EventIInv

LEMMA EventNextIInv == EventIInv /\ [EventNext]_eventVars => EventIInv'
<1> SUFFICES ASSUME EventIInv, [EventNext]_eventVars PROVE EventIInv' OBVIOUS
<1>1. ASSUME NEW p \in Proc, NEW q \in Proc, EventSend(p, q) PROVE EventIInv' BY <1>1, SendIInv
<1>2. ASSUME NEW p \in Proc, SendReturn(p) PROVE EventIInv' BY <1>2, SendReturnIInv
<1>3. ASSUME NEW p \in Proc, EventInterrupt(p) \/ EventReap(p) \/ EventFork(p) PROVE EventIInv'
  BY <1>3, QuietIInv DEF EventInterrupt, EventReap, EventFork
<1>4. ASSUME NEW p \in Proc, EventRecv(p) PROVE EventIInv'
  <2>1. CASE event_box[p] = << >> BY <1>4, <2>1, QuietIInv DEF EventRecv
  <2>2. CASE event_box[p] # << >>
    <3>1. ~event_asleep[p] /\ event_pc[p] = "run" /\ event_pc' = [event_pc EXCEPT ![p] = "run"]
      BY <1>4, <2>2 DEF EventRecv, Running, EventIInv, EventTypeOK, Sending
    <3> QED BY Zenon, <1>4, <2>2, <3>1, TakeIInv DEF EventRecv
  <2> QED BY <2>1, <2>2
<1>5. ASSUME NEW p \in Proc, RecvReturn(p) PROVE EventIInv'
  <2>1. CASE event_box[p] = << >> BY Zenon, <1>5, <2>1, QuietIInv DEF RecvReturn
  <2>2. CASE event_box[p] # << >> BY Zenon, <1>5, <2>2, TakeIInv DEF RecvReturn
  <2> QED BY <2>1, <2>2
<1>6. ASSUME NEW p \in Proc, EventExit(p) PROVE EventIInv' BY <1>6, ExitIInv
<1>7. CASE UNCHANGED eventVars
  BY <1>7 DEF eventVars, EventIInv, EventTypeOK, LinkedOnce, Sending, TakenOnce, NoMissedSender
<1> QED BY <1>1, <1>2, <1>3, <1>4, <1>5, <1>6, <1>7 DEF EventNext

LEMMA EventInductive == EventSpec => []EventIInv
BY EventInitIInv, EventNextIInv, PTL DEF EventSpec

\* send_event returns 0 exactly if a receiver has taken the event, and none is taken
\* twice, for any number of senders, receivers, timers and exits.
THEOREM EventsTakenOnce == EventSpec => []TakenOnce
BY EventInductive, PTL DEF EventIInv

\* No receiver sleeps beside a waiting sender, and no box holds the wait_t of a process
\* that has returned from send_event or outlives its receiver.
THEOREM SendersNeverMissed == EventSpec => []NoMissedSender
BY EventInductive, PTL DEF EventIInv
=============================================================================
