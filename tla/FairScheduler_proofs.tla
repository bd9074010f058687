------------------------ MODULE FairScheduler_proofs ------------------------
(***************************************************************************)
(* Proofs about FairScheduler, for every number of CPUs and tasks, all     *)
(* weights, charges and bounds of the clock.  The source leaves the order  *)
(* after SortedInsert as a TODO, and assumes ValidState at the end of      *)
(* Enqueue and of Dispatch; both are proved here.  What the trait promises *)
(* of Enqueue beyond that, `t in s'.all_tasks`, does not hold of the task  *)
(* it is given (GivenRecordRegistered), but of the record it stores.       *)
(***************************************************************************)
EXTENDS FairScheduler, WellFoundedInduction, TLAPS

(* Facts about the two queue operations.                                    *)

\* An insertion keeps what stood before the gap and shifts what stood behind it.
LEMMA InsertFacts ==
    ASSUME NEW q \in Seq(Task), NEW t \in Task, NEW idx \in 0 .. Len(q)
    PROVE  /\ InsertAfter(q, t, idx) \in Seq(Task)
           /\ Len(InsertAfter(q, t, idx)) = Len(q) + 1
           /\ InsertAfter(q, t, idx)[idx + 1] = t
           /\ \A i \in 1 .. idx : InsertAfter(q, t, idx)[i] = q[i]
           /\ \A i \in idx + 2 .. Len(q) + 1 : InsertAfter(q, t, idx)[i] = q[i - 1]
<1> DEFINE a == SubSeq(q, 1, idx)
           b == SubSeq(q, idx + 1, Len(q))
           ab == a \o <<t>>
<1>1. a \in Seq(Task) /\ Len(a) = idx /\ \A i \in 1 .. idx : a[i] = q[i]
  OBVIOUS
<1>2. /\ b \in Seq(Task)
      /\ Len(b) = Len(q) - idx
      /\ \A i \in 1 .. Len(q) - idx : b[i] = q[idx + i]
  <2>1. b \in Seq(Task)
    OBVIOUS
  <2>2. Len(b) = Len(q) - idx
    OBVIOUS
  <2>3. \A i \in 1 .. Len(q) - idx : b[i] = q[idx + i]
    OBVIOUS
  <2> QED
    BY <2>1, <2>2, <2>3
<1> HIDE DEF a, b
<1>3. /\ ab \in Seq(Task)
      /\ Len(ab) = idx + 1
      /\ ab[idx + 1] = t
      /\ \A i \in 1 .. idx : ab[i] = q[i]
  BY <1>1
<1> HIDE DEF ab
<1>4. /\ ab \o b \in Seq(Task)
      /\ Len(ab \o b) = Len(q) + 1
      /\ \A i \in 1 .. idx + 1 : (ab \o b)[i] = ab[i]
  BY <1>2, <1>3
<1>5. ASSUME NEW i \in idx + 2 .. Len(q) + 1
      PROVE  (ab \o b)[i] = q[i - 1]
  <2>1. i - (idx + 1) \in 1 .. Len(q) - idx
    OBVIOUS
  <2>2. (ab \o b)[i] = b[i - (idx + 1)]
    BY <1>2, <1>3
  <2>3. b[i - (idx + 1)] = q[idx + (i - (idx + 1))]
    BY <1>2, <2>1
  <2> QED
    BY <2>2, <2>3
<1>6. InsertAfter(q, t, idx) = ab \o b
  BY DEF InsertAfter, a, b, ab
<1> QED
  BY <1>3, <1>4, <1>5, <1>6

\* Removing the head moves every later element one position forward.
LEMMA TailFacts ==
    ASSUME NEW q \in Seq(Task), q # << >>
    PROVE  /\ Tail(q) \in Seq(Task)
           /\ Len(Tail(q)) = Len(q) - 1
           /\ Len(q) \in Nat \ {0}
           /\ Head(q) = q[1]
           /\ Head(q) \in Task
           /\ \A i \in 1 .. Len(Tail(q)) : Tail(q)[i] = q[i + 1]
OBVIOUS

\* The loop's exit condition and the new time stamp keep the queue stable: what
\* the code assumes at the end of SortedInsert.
LEMMA InsertKeepsStable ==
    ASSUME NEW q \in Seq(Task), NEW t \in Task, Stable(q),
           \A i \in 1 .. Len(q) : q[i].enqueue_time < t.enqueue_time,
           NEW idx \in InsertionPoints(q, t)
    PROVE  Stable(InsertAfter(q, t, idx))
<1> DEFINE r == InsertAfter(q, t, idx)
           Old(k) == IF k > idx + 1 THEN k - 1 ELSE k
<1>1. /\ idx \in 0 .. Len(q)
      /\ \A i \in 1 .. idx : q[i].vruntime <= t.vruntime
      /\ idx < Len(q) => q[idx + 1].vruntime > t.vruntime
  BY DEF InsertionPoints
<1>2. /\ Len(r) = Len(q) + 1
      /\ r[idx + 1] = t
      /\ \A i \in 1 .. idx : r[i] = q[i]
      /\ \A i \in idx + 2 .. Len(q) + 1 : r[i] = q[i - 1]
  BY <1>1, InsertFacts
<1> HIDE DEF r
<1>3. \A i \in 1 .. Len(q) : q[i].vruntime \in Nat /\ q[i].enqueue_time \in Nat
  <2>1. \A i \in 1 .. Len(q) : q[i] \in Task
    OBVIOUS
  <2> QED
    BY <2>1 DEF Task
<1>4. t.vruntime \in Nat /\ t.enqueue_time \in Nat
  BY DEF Task
<1>5. ASSUME NEW i \in 1 .. Len(r), NEW j \in 1 .. Len(r), i < j
      PROVE  Before(r[i], r[j])
  <2>1. CASE i <= idx /\ j = idx + 1
    <3>1. i \in 1 .. idx /\ i \in 1 .. Len(q) /\ r[i] = q[i] /\ r[j] = t
      BY <1>1, <1>2, <2>1
    <3>2. q[i].vruntime <= t.vruntime /\ q[i].enqueue_time < t.enqueue_time
      BY <1>1, <3>1
    <3> QED
      BY <1>3, <1>4, <3>1, <3>2 DEF Before
  <2>2. CASE i = idx + 1
    <3>1. /\ r[i] = t
          /\ r[j] = q[j - 1]
          /\ idx + 1 \in 1 .. Len(q)
          /\ j - 1 \in 1 .. Len(q)
      BY <1>1, <1>2, <1>5, <2>2
    <3>2. q[idx + 1].vruntime > t.vruntime
      BY <1>1, <3>1
    <3>3. q[j - 1].vruntime >= q[idx + 1].vruntime
      <4>1. CASE j - 1 = idx + 1
        BY <1>3, <3>1, <4>1
      <4>2. CASE j - 1 > idx + 1
        <5>1. Before(q[idx + 1], q[j - 1])
          BY <3>1, <4>2 DEF Stable
        <5> QED
          BY <1>3, <3>1, <5>1 DEF Before
      <4> QED
        BY <1>1, <1>5, <2>2, <4>1, <4>2
    <3> QED
      BY <1>3, <1>4, <3>1, <3>2, <3>3, SMTT(30) DEF Before
  <2>3. CASE i # idx + 1 /\ j # idx + 1
    <3>1. /\ Old(i) \in 1 .. Len(q) /\ r[i] = q[Old(i)]
          /\ Old(j) \in 1 .. Len(q) /\ r[j] = q[Old(j)]
          /\ Old(i) < Old(j)
      BY <1>1, <1>2, <1>5, <2>3
    <3> QED
      BY <3>1 DEF Stable
  <2> QED
    BY <1>1, <1>5, <2>1, <2>2, <2>3
<1> QED
  BY <1>5 DEF Stable, r

LEMMA TailKeepsStable ==
    ASSUME NEW q \in Seq(Task), q # << >>, Stable(q)
    PROVE  Stable(Tail(q))
BY TailFacts DEF Stable

\* A stable queue is sorted.
LEMMA StableSorted ==
    ASSUME NEW q \in Seq(Task), Stable(q)
    PROVE  Sorted(q)
<1>1. \A i \in 1 .. Len(q) : q[i].vruntime \in Nat
  <2>1. \A i \in 1 .. Len(q) : q[i] \in Task
    OBVIOUS
  <2> QED
    BY <2>1 DEF Task
<1> QED
  BY <1>1, SMTT(30) DEF Stable, Before, Sorted

-----------------------------------------------------------------------------

(* The inductive invariant.                                                 *)

LEMMA InitIInv == Init => IInv
BY ConstantsAssumption DEF ConstantsAssumption, Init, IInv, TypeOK, StableOrder, Stable

\* The position a queued task had before an insertion into cpu's queue at idx + 1.
Old(c, i, cpu, idx) == IF c = cpu /\ i > idx + 1 THEN i - 1 ELSE i

InsertedAt(t, cpu, idx) ==
    tasks' = [tasks EXCEPT ![cpu] = InsertAfter(tasks[cpu], t, idx)]

\* After an insertion, a position holds the new task or what it held before.
LEMMA InsertPlaces ==
    ASSUME TypeOK, NEW t \in Task, NEW cpu \in Cpus, NEW idx \in 0 .. Len(tasks[cpu]),
           InsertedAt(t, cpu, idx),
           NEW c \in Cpus, NEW i \in 1 .. Len(tasks'[c])
    PROVE  \/ c = cpu /\ i = idx + 1 /\ tasks'[c][i] = t
           \/ /\ ~(c = cpu /\ i = idx + 1)
              /\ Old(c, i, cpu, idx) \in 1 .. Len(tasks[c])
              /\ tasks'[c][i] = tasks[c][Old(c, i, cpu, idx)]
<1>1. tasks \in [Cpus -> Seq(Task)] /\ tasks[cpu] \in Seq(Task)
  BY DEF TypeOK
<1>2. CASE c = cpu
  <2>1. tasks'[c] = InsertAfter(tasks[c], t, idx)
    BY <1>1, <1>2 DEF InsertedAt
  <2>2. CASE i = idx + 1
    BY <1>1, <1>2, <2>1, <2>2, InsertFacts
  <2>3. CASE i <= idx
    <3>1. i \in 1 .. idx
      BY <2>3
    <3>2. Old(c, i, cpu, idx) = i
      BY <2>3 DEF Old
    <3> QED
      BY <1>1, <1>2, <2>1, <3>1, <3>2, InsertFacts
  <2>4. CASE i > idx + 1
    <3>1. Len(tasks'[c]) = Len(tasks[c]) + 1
      BY <1>1, <1>2, <2>1, InsertFacts
    <3>2. i \in idx + 2 .. Len(tasks[c]) + 1
      BY <1>1, <1>2, <2>4, <3>1
    <3>3. Old(c, i, cpu, idx) = i - 1
      BY <1>2, <2>4 DEF Old
    <3>4. tasks'[c][i] = tasks[c][i - 1]
      BY <1>1, <1>2, <2>1, <3>2, InsertFacts
    <3> QED
      BY <1>1, <1>2, <2>4, <3>2, <3>3, <3>4
  <2> QED
    BY <2>2, <2>3, <2>4
<1>3. CASE c # cpu
  <2>1. tasks'[c] = tasks[c]
    BY <1>1, <1>3 DEF InsertedAt
  <2> QED
    BY <1>3, <2>1 DEF Old
<1> QED
  BY <1>2, <1>3

\* Time only passes for the tasks already enqueued.
LEMMA KnownEarlier ==
    ASSUME IInv
    PROVE  \A u \in all_tasks : u.enqueue_time < clock + 1
<1>1. clock \in Nat /\ \A u \in all_tasks : u.enqueue_time \in Nat
  BY DEF IInv, TypeOK, Task
<1> QED
  BY <1>1 DEF IInv

\* What a wake-up and a requeue share: a valid runnable task is stamped and inserted.
LEMMA EnqueueStep ==
    ASSUME IInv, NEW t \in Task, NEW cpu \in Cpus, Enqueue(t, cpu)
    PROVE  /\ tasks' \in [Cpus -> Seq(Task)]
           /\ min_vruntime' \in [Cpus -> Nat]
           /\ all_tasks' \in SUBSET Task
           /\ clock' \in Nat
           /\ active_cpus' \in SUBSET Cpus
           /\ \A c \in Cpus : \A i \in 1 .. Len(tasks'[c]) : QueuedOK(tasks'[c][i], clock')
           /\ \A u \in all_tasks' : u.enqueue_time < clock'
           /\ StableOrder'
<1> DEFINE s == Stamp(t)
<1>1. /\ tasks \in [Cpus -> Seq(Task)]
      /\ min_vruntime \in [Cpus -> Nat]
      /\ all_tasks \in SUBSET Task
      /\ clock \in Nat
      /\ active_cpus \in SUBSET Cpus
      /\ TypeOK
  BY DEF IInv, TypeOK
<1>2. s \in Task /\ s.enqueue_time = clock /\ ValidTask(s) /\ s.state = "Runnable"
  <2>1. s \in Task /\ s.enqueue_time = clock
    BY <1>1 DEF Stamp, Task
  <2>2. s.weight = t.weight /\ s.cpu_affinity = t.cpu_affinity /\ s.state = t.state
    BY DEF Stamp, Task
  <2> QED
    BY <2>1, <2>2 DEF Enqueue, ValidTask
<1>3. /\ all_tasks' = all_tasks \cup {s}
      /\ clock' = clock + 1
      /\ min_vruntime' = min_vruntime
      /\ active_cpus' = active_cpus
  BY DEF Enqueue
<1>4. PICK idx \in InsertionPoints(tasks[cpu], s) :
         tasks' = [tasks EXCEPT ![cpu] = InsertAfter(tasks[cpu], s, idx)]
  BY DEF Enqueue, SortedInsert
<1> HIDE DEF s
<1>5. idx \in 0 .. Len(tasks[cpu])
  BY <1>4 DEF InsertionPoints
<1>6. InsertAfter(tasks[cpu], s, idx) \in Seq(Task)
  BY <1>1, <1>2, <1>5, InsertFacts
<1>7. \A c \in Cpus : \A i \in 1 .. Len(tasks[c]) :
         tasks[c][i].enqueue_time < clock /\ tasks[c][i].enqueue_time \in Nat
  <2>1. ASSUME NEW c \in Cpus, NEW i \in 1 .. Len(tasks[c])
        PROVE  tasks[c][i] \in Task /\ QueuedOK(tasks[c][i], clock)
    BY <1>1 DEF IInv
  <2> QED
    BY <2>1 DEF QueuedOK, Task
<1>8. ASSUME NEW c \in Cpus, NEW i \in 1 .. Len(tasks'[c])
      PROVE  QueuedOK(tasks'[c][i], clock')
  <2>1. CASE tasks'[c][i] = s
    BY <1>1, <1>2, <1>3, <2>1 DEF QueuedOK, ValidTask
  <2>2. CASE /\ Old(c, i, cpu, idx) \in 1 .. Len(tasks[c])
             /\ tasks'[c][i] = tasks[c][Old(c, i, cpu, idx)]
    <3> DEFINE k == Old(c, i, cpu, idx)
    <3>1. k \in 1 .. Len(tasks[c]) /\ tasks'[c][i] = tasks[c][k]
      BY <2>2
    <3> HIDE DEF k
    <3>2. QueuedOK(tasks[c][k], clock) /\ tasks[c][k].enqueue_time \in Nat
      BY <1>7, <3>1 DEF IInv
    <3> QED
      BY <1>1, <1>3, <3>1, <3>2 DEF QueuedOK
  <2>3. \/ tasks'[c][i] = s
        \/ /\ Old(c, i, cpu, idx) \in 1 .. Len(tasks[c])
           /\ tasks'[c][i] = tasks[c][Old(c, i, cpu, idx)]
    <3>1. InsertedAt(s, cpu, idx)
      BY <1>4 DEF InsertedAt
    <3> QED
      BY <1>1, <1>2, <1>5, <3>1, InsertPlaces
  <2> QED
    BY <2>1, <2>2, <2>3
<1>9. ASSUME NEW c \in Cpus
      PROVE  Stable(tasks'[c])
  <2>1. tasks[c] \in Seq(Task) /\ Stable(tasks[c])
    BY <1>1 DEF IInv, StableOrder
  <2>2. CASE c = cpu
    <3>1. \A i \in 1 .. Len(tasks[c]) : tasks[c][i].enqueue_time < s.enqueue_time
      BY <1>2, <1>7
    <3>2. Stable(InsertAfter(tasks[c], s, idx))
      BY <1>2, <1>4, <2>1, <2>2, <3>1, InsertKeepsStable
    <3> QED
      BY <1>1, <1>4, <2>2, <3>2
  <2>3. CASE c # cpu
    BY <1>1, <1>4, <2>1, <2>3
  <2> QED
    BY <2>2, <2>3
<1>10. \A u \in all_tasks' : u.enqueue_time < clock'
  BY <1>1, <1>2, <1>3, KnownEarlier
<1> QED
  BY <1>1, <1>2, <1>3, <1>4, <1>6, <1>8, <1>9, <1>10 DEF StableOrder, Stable

\* The task a CPU hands back, charged for its run.
LEMMA ChargedFacts ==
    ASSUME NEW t \in Task, NEW charge \in Charges
    PROVE  /\ [t EXCEPT !.vruntime = @ + charge] \in Task
           /\ [t EXCEPT !.vruntime = @ + charge].pid = t.pid
           /\ [t EXCEPT !.vruntime = @ + charge].cpu_affinity = t.cpu_affinity
<1>1. charge \in Nat
  BY ConstantsAssumption DEF ConstantsAssumption
<1> QED
  BY <1>1 DEF Task

\* A dispatch takes the head of one queue.
LEMMA DispatchStep ==
    ASSUME IInv, NEW cpu \in Cpus, DispatchFirst(cpu)
    PROVE  IInv'
<1> DEFINE q == tasks[cpu]
<1>1. /\ tasks \in [Cpus -> Seq(Task)]
      /\ min_vruntime \in [Cpus -> Nat]
      /\ all_tasks \in SUBSET Task
      /\ clock \in Nat
      /\ active_cpus \in SUBSET Cpus
      /\ current \in [Cpus -> Task \cup {None}]
  BY DEF IInv, TypeOK
<1>2. /\ q # << >>
      /\ tasks' = [tasks EXCEPT ![cpu] = Tail(q)]
      /\ min_vruntime' = [min_vruntime EXCEPT ![cpu] =
                             IF Tail(q) # << >> THEN Head(Tail(q)).vruntime ELSE min_vruntime[cpu]]
      /\ clock' = clock + 1
      /\ current' = [current EXCEPT ![cpu] = Head(q)]
      /\ all_tasks' = all_tasks /\ active_cpus' = active_cpus
  BY DEF DispatchFirst
<1>3. /\ q \in Seq(Task)
      /\ Stable(q)
      /\ \A i \in 1 .. Len(q) : QueuedOK(q[i], clock)
  BY <1>1 DEF IInv, StableOrder
<1> HIDE DEF q
<1>4. /\ Tail(q) \in Seq(Task)
      /\ Len(Tail(q)) = Len(q) - 1
      /\ Len(q) \in Nat \ {0}
      /\ Head(q) = q[1]
      /\ Head(q) \in Task
      /\ \A i \in 1 .. Len(Tail(q)) : Tail(q)[i] = q[i + 1]
  BY <1>2, <1>3, TailFacts
<1>5. Tail(q) # << >> => Head(Tail(q)).vruntime \in Nat
  <2>1. Tail(q) # << >> => Head(Tail(q)) \in Task
    BY <1>4, TailFacts
  <2> QED
    BY <2>1 DEF Task
<1>6. TypeOK'
  BY <1>1, <1>2, <1>4, <1>5 DEF TypeOK
<1>7. \A c \in Cpus : tasks'[c] = IF c = cpu THEN Tail(q) ELSE tasks[c]
  BY <1>1, <1>2
<1>8. ASSUME NEW c \in Cpus, NEW i \in 1 .. Len(tasks'[c])
      PROVE  QueuedOK(tasks'[c][i], clock')
  <2>1. PICK t \in Task : QueuedOK(t, clock) /\ tasks'[c][i] = t
    <3>1. CASE c = cpu
      <4>1. i \in 1 .. Len(Tail(q)) /\ tasks'[c][i] = q[i + 1]
        BY <1>4, <1>7, <3>1
      <4>2. i + 1 \in 1 .. Len(q)
        BY <1>4, <4>1
      <4>3. q[i + 1] \in Task /\ QueuedOK(q[i + 1], clock)
        BY <1>3, <4>2
      <4> QED
        BY <4>1, <4>3
    <3>2. CASE c # cpu
      <4>1. tasks[c] \in Seq(Task) /\ tasks'[c] = tasks[c]
        BY <1>1, <1>7, <3>2
      <4>2. tasks[c][i] \in Task /\ QueuedOK(tasks[c][i], clock)
        BY <4>1 DEF IInv
      <4> QED
        BY <4>1, <4>2
    <3> QED
      BY <3>1, <3>2
  <2>2. t.enqueue_time \in Nat
    BY DEF Task
  <2> QED
    BY <1>1, <1>2, <2>1, <2>2 DEF QueuedOK
<1>9. ASSUME NEW c \in Cpus
      PROVE  current'[c] # None => RunningOK(current'[c])
  <2>1. CASE c = cpu
    <3>1. current'[c] = q[1] /\ QueuedOK(q[1], clock)
      BY <1>1, <1>2, <1>3, <1>4, <2>1
    <3> QED
      BY <3>1 DEF QueuedOK, RunningOK, ValidTask
  <2>2. CASE c # cpu
    <3>1. current'[c] = current[c]
      BY <1>1, <1>2, <2>2
    <3>2. current[c] # None => RunningOK(current[c])
      BY DEF IInv
    <3> QED
      BY <3>1, <3>2 DEF RunningOK, ValidTask
  <2> QED
    BY <2>1, <2>2
<1>10. ASSUME NEW c \in Cpus
       PROVE  Stable(tasks'[c])
  <2>1. Stable(Tail(q))
    BY <1>2, <1>3, TailKeepsStable
  <2>2. Stable(tasks[c])
    BY DEF IInv, StableOrder
  <2> QED
    BY <1>7, <2>1, <2>2
<1>11. \A u \in all_tasks' : u.enqueue_time < clock'
  BY <1>2, KnownEarlier
<1> QED
  BY <1>6, <1>8, <1>9, <1>10, <1>11 DEF IInv, StableOrder, Stable

\* Every call of a method, and the block of a task, keeps the inductive invariant.
LEMMA NextIInv == IInv /\ [Next]_vars => IInv'
<1> SUFFICES ASSUME IInv, [Next]_vars
             PROVE  IInv'
  OBVIOUS
<1>t. /\ TypeOK
      /\ clock \in Nat
      /\ current \in [Cpus -> Task \cup {None}]
  BY DEF IInv, TypeOK
<1>r. \A c \in Cpus : current[c] # None => RunningOK(current[c])
  BY DEF IInv
<1>1. ASSUME NEW cpu \in Cpus, NEW t \in Wakeable, WakeUp(t, cpu)
      PROVE  IInv'
  <2>1. t \in Task /\ Enqueue(t, cpu) /\ current' = current
    BY <1>1, ConstantsAssumption DEF ConstantsAssumption, WakeUp
  <2> QED
    BY <1>t, <1>r, <2>1, EnqueueStep DEF IInv, TypeOK
<1>2. ASSUME NEW cpu \in Cpus, Dispatch(cpu)
      PROVE  IInv'
  <2>1. CASE DispatchEmpty(cpu)
    <3>1. /\ tasks' = tasks
          /\ min_vruntime' = min_vruntime
          /\ all_tasks' = all_tasks
          /\ clock' = clock + 1
          /\ active_cpus' = active_cpus
          /\ current' = current
      BY <2>1 DEF DispatchEmpty
    <3>2. ASSUME NEW c \in Cpus, NEW i \in 1 .. Len(tasks[c])
          PROVE  QueuedOK(tasks[c][i], clock')
      <4>1. tasks[c] \in Seq(Task)
        BY <1>t DEF TypeOK
      <4>2. tasks[c][i].enqueue_time \in Nat
        <5>1. tasks[c][i] \in Task
          BY <4>1
        <5> QED
          BY <5>1 DEF Task
      <4>3. QueuedOK(tasks[c][i], clock)
        BY DEF IInv
      <4> QED
        BY <1>t, <3>1, <4>2, <4>3 DEF QueuedOK
    <3> QED
      BY <1>t, <1>r, <3>1, <3>2, KnownEarlier DEF IInv, TypeOK, StableOrder
  <2> QED
    BY <1>2, <2>1, DispatchStep DEF Dispatch
<1>3. ASSUME NEW cpu \in Cpus, NEW from \in Cpus, NEW charge \in Charges,
             Requeue(from, cpu, charge)
      PROVE  IInv'
  <2> DEFINE t == [current[from] EXCEPT !.vruntime = @ + charge]
  <2>1. current[from] \in Task
    BY <1>t, <1>3 DEF Requeue
  <2>2. t \in Task
    BY <2>1, ChargedFacts
  <2>3. Enqueue(t, cpu) /\ current' = [current EXCEPT ![from] = None]
    BY <1>3 DEF Requeue
  <2> HIDE DEF t
  <2>4. \A c \in Cpus : current'[c] # None => current'[c] = current[c]
    BY <1>t, <2>3
  <2>5. current' \in [Cpus -> Task \cup {None}]
    BY <1>t, <2>3
  <2> QED
    BY <1>t, <1>r, <2>2, <2>3, <2>4, <2>5, EnqueueStep DEF IInv, TypeOK
<1>4. ASSUME NEW cpu \in Cpus, Block(cpu)
      PROVE  IInv'
  <2>1. /\ current' = [current EXCEPT ![cpu] = None]
        /\ UNCHANGED <<tasks, min_vruntime, all_tasks, clock, active_cpus>>
    BY <1>4 DEF Block, schedVars
  <2>2. \A c \in Cpus : current'[c] # None => current'[c] = current[c]
    BY <1>t, <2>1
  <2> QED
    BY <1>t, <1>r, <2>1, <2>2 DEF IInv, TypeOK, StableOrder
<1>5. CASE UNCHANGED vars
  BY <1>5 DEF vars, IInv, TypeOK, StableOrder
<1> QED
  BY <1>1, <1>2, <1>3, <1>4, <1>5 DEF Next

\* The inductive invariant holds in every reachable state.
THEOREM Invariance == Spec => []IInv
BY InitIInv, NextIInv, PTL DEF Spec

\* The variables keep their types; min_vruntime never goes below zero.
THEOREM TypeCorrect == Spec => []TypeOK
<1>1. IInv => TypeOK
  BY DEF IInv
<1> QED
  BY <1>1, Invariance, PTL

\* Every queue is ordered by vruntime, and by arrival among equals.
THEOREM StableOrderAlways == Spec => []StableOrder
<1>1. IInv => StableOrder
  BY DEF IInv
<1> QED
  BY <1>1, Invariance, PTL

\* What the methods require of the state always holds: the assumptions marked
\* TODO in SortedInsert and Enqueue are theorems.
THEOREM CallsAlwaysLegal == Spec => []CallsAreLegal
<1>1. ASSUME IInv
      PROVE  CallsAreLegal
  <2>1. TypeOK
    BY <1>1 DEF IInv
  <2>2. \A cpu \in Cpus : \A i \in 1 .. Len(tasks[cpu]) :
           ValidTask(tasks[cpu][i]) /\ tasks[cpu][i].state = "Runnable"
    BY <1>1 DEF IInv, QueuedOK
  <2>3. \A cpu \in Cpus : Sorted(tasks[cpu])
    <3>1. ASSUME NEW cpu \in Cpus
          PROVE  tasks[cpu] \in Seq(Task) /\ Stable(tasks[cpu])
      BY <1>1, <2>1 DEF IInv, TypeOK, StableOrder
    <3> QED
      BY <3>1, StableSorted
  <2>4. \A cpu \in Cpus : current[cpu] # None =>
            ValidTask(current[cpu]) /\ current[cpu].state = "Runnable"
    BY <1>1 DEF IInv, RunningOK
  <2>5. ValidState
    BY <2>1, <2>2, ConstantsAssumption DEF ConstantsAssumption, TypeOK, ValidState
  <2> QED
    BY <2>2, <2>3, <2>4, <2>5 DEF CallsAreLegal
<1> QED
  BY <1>1, Invariance, PTL

-----------------------------------------------------------------------------

(* SortedInsert, of any sorted queue.                                       *)

\* Of a set of naturals with a member, one is the least.
LEMMA LeastNatural ==
    ASSUME NEW S \in SUBSET Nat, S # {}
    PROVE  \E m \in S : \A k \in S : m <= k
<1>1. \E m \in S : \A k \in S : ~ (<<k, m>> \in OpToRel(<, Nat))
  BY WFMin, NatLessThanWellFounded
<1>2. PICK m \in S : \A k \in S : <<k, m>> \notin OpToRel(<, Nat)
  BY <1>1
<1>3. ASSUME NEW k \in S
      PROVE  m <= k
  <2>1. k \in Nat /\ m \in Nat
    OBVIOUS
  <2>2. ~ (k < m)
    BY <1>2, <2>1 DEF OpToRel
  <2> QED
    BY <2>1, <2>2
<1> QED
  BY <1>3

\* In a sorted queue the loop of SortedInsert can stop at one place only, and it
\* does stop there.
LEMMA OnePoint ==
    ASSUME NEW q \in Seq(Task), NEW t \in Task, Sorted(q)
    PROVE  \E idx \in 0 .. Len(q) : InsertionPoints(q, t) = {idx}
<1> DEFINE Larger == {i \in 1 .. Len(q) : q[i].vruntime > t.vruntime}
<1>1. \A i \in 1 .. Len(q) : q[i].vruntime \in Nat
  <2>1. \A i \in 1 .. Len(q) : q[i] \in Task
    OBVIOUS
  <2> QED
    BY <2>1 DEF Task
<1>2. t.vruntime \in Nat /\ Len(q) \in Nat
  BY DEF Task
<1>3. PICK idx \in 0 .. Len(q) :
         /\ \A i \in 1 .. idx : q[i].vruntime <= t.vruntime
         /\ idx < Len(q) => q[idx + 1].vruntime > t.vruntime
  <2>1. CASE Larger = {}
    <3>1. \A i \in 1 .. Len(q) : q[i].vruntime <= t.vruntime
      BY <1>1, <1>2, <2>1
    <3> QED
      BY <1>2, <3>1
  <2>2. CASE Larger # {}
    <3>1. Larger \subseteq Nat
      OBVIOUS
    <3>2. PICK m \in Larger : \A k \in Larger : m <= k
      BY <2>2, <3>1, LeastNatural
    <3>3. m \in 1 .. Len(q) /\ q[m].vruntime > t.vruntime
      OBVIOUS
    <3>4. ASSUME NEW i \in 1 .. m - 1
          PROVE  q[i].vruntime <= t.vruntime
      <4>1. i \in 1 .. Len(q) /\ i \notin Larger
        BY <1>2, <3>2, <3>3
      <4> QED
        BY <1>1, <1>2, <4>1
    <3>5. m - 1 \in 0 .. Len(q) /\ (m - 1) + 1 = m
      BY <1>2, <3>3
    <3> QED
      BY <3>3, <3>4, <3>5
  <2> QED
    BY <2>1, <2>2
<1> HIDE DEF Larger
<1>4. ASSUME NEW j \in InsertionPoints(q, t)
      PROVE  j = idx
  <2>1. /\ j \in 0 .. Len(q)
        /\ \A i \in 1 .. j : q[i].vruntime <= t.vruntime
        /\ j < Len(q) => q[j + 1].vruntime > t.vruntime
    BY DEF InsertionPoints
  <2>2. ~ (j < idx)
    <3> SUFFICES ASSUME j < idx PROVE FALSE
      OBVIOUS
    <3>1. j + 1 \in 1 .. idx /\ j + 1 \in 1 .. Len(q) /\ j < Len(q)
      BY <1>2, <2>1
    <3>2. q[j + 1].vruntime <= t.vruntime /\ q[j + 1].vruntime > t.vruntime
      BY <1>3, <2>1, <3>1
    <3> QED
      BY <1>1, <1>2, <3>1, <3>2
  <2>3. ~ (idx < j)
    <3> SUFFICES ASSUME idx < j PROVE FALSE
      OBVIOUS
    <3>1. idx + 1 \in 1 .. j /\ idx + 1 \in 1 .. Len(q) /\ idx < Len(q)
      BY <1>2, <2>1
    <3>2. q[idx + 1].vruntime <= t.vruntime /\ q[idx + 1].vruntime > t.vruntime
      BY <1>3, <2>1, <3>1
    <3> QED
      BY <1>1, <1>2, <3>1, <3>2
  <2> QED
    BY <2>1, <2>2, <2>3
<1>5. idx \in InsertionPoints(q, t)
  BY <1>3 DEF InsertionPoints
<1> QED
  BY <1>4, <1>5

\* Where the loop stops, the queue stays sorted.
LEMMA InsertKeepsSorted ==
    ASSUME NEW q \in Seq(Task), NEW t \in Task, Sorted(q), NEW idx \in InsertionPoints(q, t)
    PROVE  Sorted(InsertAfter(q, t, idx))
<1> DEFINE r == InsertAfter(q, t, idx)
<1>1. /\ idx \in 0 .. Len(q) /\ Len(q) \in Nat
      /\ \A i \in 1 .. idx : q[i].vruntime <= t.vruntime
      /\ idx < Len(q) => q[idx + 1].vruntime > t.vruntime
  BY DEF InsertionPoints
<1>2. /\ Len(r) = Len(q) + 1
      /\ r[idx + 1] = t
      /\ \A i \in 1 .. idx : r[i] = q[i]
      /\ \A i \in idx + 2 .. Len(q) + 1 : r[i] = q[i - 1]
  BY <1>1, InsertFacts
<1> HIDE DEF r
<1>3. \A i \in 1 .. Len(q) : q[i].vruntime \in Nat
  <2>1. \A i \in 1 .. Len(q) : q[i] \in Task
    OBVIOUS
  <2> QED
    BY <2>1 DEF Task
<1>4. t.vruntime \in Nat
  BY DEF Task
<1>5. \A i \in idx + 1 .. Len(q) : q[i].vruntime > t.vruntime
  <2> SUFFICES ASSUME NEW i \in idx + 1 .. Len(q)
               PROVE  q[i].vruntime > t.vruntime
    OBVIOUS
  <2>1. idx < Len(q) /\ idx + 1 \in 1 .. Len(q) /\ i \in 1 .. Len(q)
    BY <1>1
  <2>2. q[idx + 1].vruntime <= q[i].vruntime
    BY <1>1, <1>3, <2>1 DEF Sorted
  <2> QED
    BY <1>1, <1>3, <1>4, <2>1, <2>2
<1>6. ASSUME NEW i \in 1 .. Len(r), NEW j \in 1 .. Len(r), i < j
      PROVE  r[i].vruntime <= r[j].vruntime
  <2>1. CASE j <= idx
    <3>1. i \in 1 .. idx /\ j \in 1 .. idx /\ i \in 1 .. Len(q) /\ j \in 1 .. Len(q)
      BY <1>1, <1>2, <1>6, <2>1
    <3> QED
      BY <1>2, <1>6, <3>1 DEF Sorted
  <2>2. CASE j = idx + 1
    <3>1. i \in 1 .. idx
      BY <1>1, <1>2, <1>6, <2>2
    <3> QED
      BY <1>1, <1>2, <2>2, <3>1
  <2>3. CASE i = idx + 1
    <3>1. j \in idx + 2 .. Len(q) + 1 /\ j - 1 \in idx + 1 .. Len(q) /\ j - 1 \in 1 .. Len(q)
      BY <1>1, <1>2, <1>6, <2>3
    <3>2. q[j - 1].vruntime > t.vruntime /\ q[j - 1].vruntime \in Nat
      BY <1>3, <1>5, <3>1
    <3> QED
      BY <1>2, <1>4, <2>3, <3>1, <3>2
  <2>4. CASE i <= idx /\ j > idx + 1
    <3>1. /\ i \in 1 .. idx /\ i \in 1 .. Len(q)
          /\ j \in idx + 2 .. Len(q) + 1 /\ j - 1 \in idx + 1 .. Len(q) /\ j - 1 \in 1 .. Len(q)
      BY <1>1, <1>2, <1>6, <2>4
    <3>2. /\ q[i].vruntime <= t.vruntime /\ q[j - 1].vruntime > t.vruntime
          /\ q[i].vruntime \in Nat /\ q[j - 1].vruntime \in Nat
      BY <1>1, <1>3, <1>5, <3>1
    <3>3. r[i] = q[i] /\ r[j] = q[j - 1]
      BY <1>2, <3>1
    <3> QED
      BY <1>4, <3>2, <3>3
  <2>5. CASE i > idx + 1
    <3>1. /\ i \in idx + 2 .. Len(q) + 1 /\ j \in idx + 2 .. Len(q) + 1
          /\ i - 1 \in 1 .. Len(q) /\ j - 1 \in 1 .. Len(q) /\ i - 1 < j - 1
      BY <1>1, <1>2, <1>6, <2>5
    <3>2. q[i - 1].vruntime <= q[j - 1].vruntime
      BY <3>1 DEF Sorted
    <3> QED
      BY <1>2, <3>1, <3>2
  <2> QED
    BY <1>1, <1>2, <1>6, <2>1, <2>2, <2>3, <2>4, <2>5
<1> QED
  BY <1>6 DEF Sorted, r

\* What SortedInsert ensures, of any sorted queue: it returns, at one place only,
\* a sorted queue that is the old one with the task put in, nothing lost, doubled
\* or moved past another.
THEOREM SortedInsertCorrect ==
    ASSUME NEW q \in Seq(Task), NEW t \in Task, Sorted(q)
    PROVE  \E idx \in 0 .. Len(q) :
              /\ InsertionPoints(q, t) = {idx}
              /\ Sorted(InsertAfter(q, t, idx))
              /\ Len(InsertAfter(q, t, idx)) = Len(q) + 1
              /\ InsertAfter(q, t, idx)[idx + 1] = t
              /\ \A i \in 1 .. Len(q) :
                    InsertAfter(q, t, idx)[IF i <= idx THEN i ELSE i + 1] = q[i]
<1>1. PICK idx \in 0 .. Len(q) : InsertionPoints(q, t) = {idx}
  BY OnePoint
<1>2. Sorted(InsertAfter(q, t, idx))
  BY <1>1, InsertKeepsSorted
<1>3. /\ Len(InsertAfter(q, t, idx)) = Len(q) + 1
      /\ InsertAfter(q, t, idx)[idx + 1] = t
      /\ \A i \in 1 .. idx : InsertAfter(q, t, idx)[i] = q[i]
      /\ \A i \in idx + 2 .. Len(q) + 1 : InsertAfter(q, t, idx)[i] = q[i - 1]
  BY InsertFacts
<1>4. ASSUME NEW i \in 1 .. Len(q)
      PROVE  InsertAfter(q, t, idx)[IF i <= idx THEN i ELSE i + 1] = q[i]
  <2>1. CASE i <= idx
    <3>1. i \in 1 .. idx
      BY <2>1
    <3> QED
      BY <1>3, <2>1, <3>1
  <2>2. CASE i > idx
    <3>1. i + 1 \in idx + 2 .. Len(q) + 1 /\ ~ (i <= idx)
      BY <2>2
    <3>2. InsertAfter(q, t, idx)[i + 1] = q[(i + 1) - 1]
      BY <1>3, <3>1
    <3> QED
      BY <3>1, <3>2
  <2> QED
    BY <2>1, <2>2
<1> QED
  BY <1>1, <1>2, <1>3, <1>4

\* The loop of SortedInsert has one exit, whatever the task and the CPU.
OneInsertionPoint ==
    \A cpu \in Cpus : \A t \in Task : \E idx \in 0 .. Len(tasks[cpu]) :
        InsertionPoints(tasks[cpu], t) = {idx}

\* In every reachable state an enqueue returns, and what it returns is determined:
\* the choice of a point in the model's SortedInsert is none.
THEOREM EnqueueDetermined == Spec => []OneInsertionPoint
<1>1. IInv => OneInsertionPoint
  <2> SUFFICES ASSUME IInv, NEW cpu \in Cpus, NEW t \in Task
               PROVE  \E idx \in 0 .. Len(tasks[cpu]) : InsertionPoints(tasks[cpu], t) = {idx}
    BY DEF OneInsertionPoint
  <2>1. tasks[cpu] \in Seq(Task) /\ Stable(tasks[cpu])
    BY DEF IInv, TypeOK, StableOrder
  <2> QED
    BY <2>1, StableSorted, OnePoint
<1> QED
  BY <1>1, Invariance, PTL

-----------------------------------------------------------------------------

(* OvertakenOnlyByLess: the records of a stable queue are distinct, so a    *)
(* record that is found again one place further back stood behind the gap.  *)

LEMMA StableDistinct ==
    ASSUME NEW q \in Seq(Task), Stable(q),
           NEW i \in 1 .. Len(q), NEW j \in 1 .. Len(q), q[i] = q[j]
    PROVE  i = j
<1>1. q[i] \in Task
  OBVIOUS
<1>2. q[i].vruntime \in Nat /\ q[i].enqueue_time \in Nat
  BY <1>1 DEF Task
<1>3. ~Before(q[i], q[i])
  BY <1>2 DEF Before
<1>4. ~Before(q[i], q[j]) /\ ~Before(q[j], q[i])
  BY <1>3
<1> QED
  BY <1>4 DEF Stable

\* Behind the gap, and only there, tasks move back; the newcomer has run for less.
LEMMA EnqueueOvertakes ==
    ASSUME IInv, NEW t \in Task, NEW cpu \in Cpus, Enqueue(t, cpu),
           NEW c \in Cpus, NEW i \in 1 .. Len(tasks[c]), NEW j \in 1 .. Len(tasks'[c]),
           tasks'[c][j] = tasks[c][i], j > i
    PROVE  /\ j = i + 1
           /\ \E k \in 1 .. i : /\ tasks'[c][k] \notin all_tasks
                                /\ tasks'[c][k].vruntime < tasks[c][i].vruntime
<1> DEFINE s == Stamp(t)
           q == tasks[c]
<1>1. /\ TypeOK
      /\ clock \in Nat
      /\ q \in Seq(Task) /\ Stable(q)
      /\ q[i] \in Task
      /\ tasks \in [Cpus -> Seq(Task)]
  BY DEF IInv, TypeOK, StableOrder
<1>2. s \in Task /\ s.enqueue_time = clock
  BY <1>1 DEF Stamp, Task
<1>3. PICK idx \in InsertionPoints(tasks[cpu], s) : InsertedAt(s, cpu, idx)
  BY DEF Enqueue, SortedInsert, InsertedAt
<1> HIDE DEF s
<1>4. /\ idx \in 0 .. Len(tasks[cpu])
      /\ idx < Len(tasks[cpu]) => tasks[cpu][idx + 1].vruntime > s.vruntime
  BY <1>3 DEF InsertionPoints
<1>5. s \notin all_tasks
  BY <1>1, <1>2 DEF IInv
<1>6. q[i] # s
  <2>1. QueuedOK(q[i], clock) /\ q[i].enqueue_time \in Nat
    BY <1>1 DEF IInv, Task
  <2> QED
    BY <1>1, <1>2, <2>1 DEF QueuedOK
<1> HIDE DEF q
<1>7. /\ Old(c, j, cpu, idx) \in 1 .. Len(q)
      /\ tasks'[c][j] = q[Old(c, j, cpu, idx)]
  BY <1>1, <1>2, <1>3, <1>4, <1>6, InsertPlaces DEF q
<1>8. Old(c, j, cpu, idx) = i
  <2> DEFINE o == Old(c, j, cpu, idx)
  <2>1. o \in 1 .. Len(q) /\ q[o] = q[i] /\ i \in 1 .. Len(q)
    BY <1>7 DEF q
  <2> HIDE DEF o
  <2>2. o = i
    BY <1>1, <2>1, StableDistinct
  <2> QED
    BY <2>2 DEF o
<1>9. c = cpu /\ j > idx + 1 /\ j = i + 1
  BY <1>4, <1>8 DEF Old
<1>10. idx + 1 \in 1 .. i /\ idx + 1 \in 1 .. Len(q) /\ i \in 1 .. Len(q)
  BY <1>4, <1>9 DEF q
<1>11. tasks'[c][idx + 1] = s
  <2>1. tasks'[c] = InsertAfter(q, s, idx)
    BY <1>1, <1>3, <1>9 DEF InsertedAt, q
  <2> QED
    BY <1>1, <1>2, <1>4, <1>9, <2>1, InsertFacts DEF q
<1>12. s.vruntime < q[i].vruntime
  <2>1. /\ q[idx + 1] \in Task
        /\ q[idx + 1].vruntime > s.vruntime
    BY <1>1, <1>4, <1>9, <1>10 DEF q
  <2>2. /\ q[idx + 1].vruntime \in Nat
        /\ q[i].vruntime \in Nat
        /\ s.vruntime \in Nat
    BY <1>1, <1>2, <2>1 DEF Task
  <2>3. q[idx + 1].vruntime <= q[i].vruntime
    <3>1. CASE idx + 1 = i
      BY <2>2, <3>1
    <3>2. CASE idx + 1 < i
      BY <1>1, <1>10, <2>2, <3>2, StableSorted DEF Sorted
    <3> QED
      BY <1>10, <3>1, <3>2
  <2> QED
    BY <2>1, <2>2, <2>3
<1>13. \E k \in 1 .. i : tasks'[c][k] \notin all_tasks /\ tasks'[c][k].vruntime < q[i].vruntime
  BY <1>5, <1>10, <1>11, <1>12
<1> QED
  BY <1>9, <1>13 DEF q

\* A removal moves nothing back.
LEMMA DispatchOvertakes ==
    ASSUME IInv, NEW cpu \in Cpus, DispatchFirst(cpu),
           NEW c \in Cpus, NEW i \in 1 .. Len(tasks[c]), NEW j \in 1 .. Len(tasks'[c]),
           tasks'[c][j] = tasks[c][i]
    PROVE  j <= i
<1>1. /\ tasks \in [Cpus -> Seq(Task)]
      /\ tasks[c] \in Seq(Task)
      /\ Stable(tasks[c])
  BY DEF IInv, TypeOK, StableOrder
<1>2. tasks[cpu] # << >> /\ tasks' = [tasks EXCEPT ![cpu] = Tail(tasks[cpu])]
  BY DEF DispatchFirst
<1>3. CASE c = cpu
  <2>1. tasks'[c] = Tail(tasks[c]) /\ tasks[c] # << >>
    BY <1>1, <1>2, <1>3
  <2>2. j + 1 \in 1 .. Len(tasks[c]) /\ tasks'[c][j] = tasks[c][j + 1]
    BY <1>1, <2>1, TailFacts
  <2>3. j + 1 = i
    BY <1>1, <2>2, StableDistinct
  <2> QED
    BY <2>3
<1>4. CASE c # cpu
  <2>1. tasks'[c] = tasks[c]
    BY <1>1, <1>2, <1>4
  <2>2. j = i
    BY <1>1, <2>1, StableDistinct
  <2> QED
    BY <2>2
<1> QED
  BY <1>3, <1>4

\* What a step may do to the order of a queue.
Overtaking(c, i, j) ==
    tasks'[c][j] = tasks[c][i] /\ j > i =>
        /\ j = i + 1
        /\ \E k \in 1 .. i : /\ tasks'[c][k] \notin all_tasks
                             /\ tasks'[c][k].vruntime < tasks[c][i].vruntime

LEMMA NextOvertaking ==
    ASSUME IInv, [Next]_vars, NEW c \in Cpus,
           NEW i \in 1 .. Len(tasks[c]), NEW j \in 1 .. Len(tasks'[c])
    PROVE  Overtaking(c, i, j)
<1>t. current \in [Cpus -> Task \cup {None}]
  BY DEF IInv, TypeOK
<1>0. ASSUME tasks' = tasks
      PROVE  Overtaking(c, i, j)
  <2>1. tasks[c] \in Seq(Task) /\ Stable(tasks[c])
    BY DEF IInv, TypeOK, StableOrder
  <2>2. tasks[c][j] = tasks[c][i] => i = j
    BY <1>0, <2>1, StableDistinct
  <2> QED
    BY <1>0, <2>2 DEF Overtaking
<1>1. ASSUME NEW cpu \in Cpus, NEW t \in Wakeable, WakeUp(t, cpu)
      PROVE  Overtaking(c, i, j)
  <2>1. t \in Task /\ Enqueue(t, cpu)
    BY <1>1, ConstantsAssumption DEF ConstantsAssumption, WakeUp
  <2> QED
    BY <2>1, EnqueueOvertakes DEF Overtaking
<1>2. ASSUME NEW cpu \in Cpus, Dispatch(cpu)
      PROVE  Overtaking(c, i, j)
  <2>1. CASE DispatchEmpty(cpu)
    BY <1>0, <2>1 DEF DispatchEmpty
  <2>2. CASE DispatchFirst(cpu)
    <3>1. tasks'[c][j] = tasks[c][i] => j <= i
      BY <2>2, DispatchOvertakes
    <3> QED
      BY <3>1 DEF Overtaking
  <2> QED
    BY <1>2, <2>1, <2>2 DEF Dispatch
<1>3. ASSUME NEW cpu \in Cpus, NEW from \in Cpus, NEW charge \in Charges,
             Requeue(from, cpu, charge)
      PROVE  Overtaking(c, i, j)
  <2> DEFINE t == [current[from] EXCEPT !.vruntime = @ + charge]
  <2>1. current[from] \in Task
    BY <1>t, <1>3 DEF Requeue
  <2>2. t \in Task
    BY <2>1, ChargedFacts
  <2>3. Enqueue(t, cpu)
    BY <1>3 DEF Requeue
  <2> HIDE DEF t
  <2> QED
    BY <2>2, <2>3, EnqueueOvertakes DEF Overtaking
<1>4. ASSUME NEW cpu \in Cpus, Block(cpu)
      PROVE  Overtaking(c, i, j)
  BY <1>0, <1>4 DEF Block, schedVars
<1>5. CASE UNCHANGED vars
  BY <1>0, <1>5 DEF vars
<1> QED
  BY <1>1, <1>2, <1>3, <1>4, <1>5 DEF Next

\* A waiting task is overtaken only by a newcomer that has run for less, one at a
\* time, whatever the CPUs, charges and affinities are.
THEOREM OvertakingBounded == Spec => OvertakenOnlyByLess
<1>1. IInv /\ [Next]_vars =>
         [\A cpu \in Cpus : \A i \in 1 .. Len(tasks[cpu]), j \in 1 .. Len(tasks'[cpu]) :
            tasks'[cpu][j] = tasks[cpu][i] /\ j > i =>
              /\ j = i + 1
              /\ \E k \in 1 .. i : /\ tasks'[cpu][k] \notin all_tasks
                                   /\ tasks'[cpu][k].vruntime < tasks[cpu][i].vruntime]_vars
  BY NextOvertaking DEF Overtaking
<1> QED
  BY <1>1, Invariance, PTL DEF Spec, OvertakenOnlyByLess

-----------------------------------------------------------------------------

(* OnePlace: the guard of a wake-up and the hand-over between a queue's     *)
(* head and the running slot keep every pid in at most one place.           *)

\* An insertion of a pid that no queue holds, and that no slot holds afterwards.
LEMMA OnePlaceInsert ==
    ASSUME TypeOK, OnePlace, NEW t \in Task, NEW cpu \in Cpus,
           NEW idx \in 0 .. Len(tasks[cpu]), InsertedAt(t, cpu, idx),
           \A c \in Cpus : \A i \in 1 .. Len(tasks[c]) : tasks[c][i].pid # t.pid,
           \A c \in Cpus : current'[c] # None =>
                /\ current'[c] = current[c]
                /\ current[c].pid # t.pid
    PROVE  OnePlace'
<1>1. ASSUME NEW c \in Cpus, NEW d \in Cpus,
             NEW i \in 1 .. Len(tasks'[c]), NEW j \in 1 .. Len(tasks'[d]),
             tasks'[c][i].pid = tasks'[d][j].pid
      PROVE  c = d /\ i = j
  <2> DEFINE x == Old(c, i, cpu, idx)
             y == Old(d, j, cpu, idx)
  <2>1. \/ c = cpu /\ i = idx + 1 /\ tasks'[c][i] = t
        \/ /\ ~(c = cpu /\ i = idx + 1)
           /\ x \in 1 .. Len(tasks[c])
           /\ tasks'[c][i] = tasks[c][x]
    BY InsertPlaces
  <2>2. \/ d = cpu /\ j = idx + 1 /\ tasks'[d][j] = t
        \/ /\ ~(d = cpu /\ j = idx + 1)
           /\ y \in 1 .. Len(tasks[d])
           /\ tasks'[d][j] = tasks[d][y]
    BY InsertPlaces
  <2> HIDE DEF x, y
  <2>3. CASE tasks'[c][i] = t \/ tasks'[d][j] = t
    BY <1>1, <2>1, <2>2, <2>3
  <2>4. CASE tasks'[c][i] # t /\ tasks'[d][j] # t
    <3>1. /\ ~(c = cpu /\ i = idx + 1) /\ x \in 1 .. Len(tasks[c])
          /\ ~(d = cpu /\ j = idx + 1) /\ y \in 1 .. Len(tasks[d])
          /\ tasks[c][x].pid = tasks[d][y].pid
      BY <1>1, <2>1, <2>2, <2>4
    <3>2. c = d /\ x = y
      BY <3>1 DEF OnePlace
    <3>3. idx \in Nat /\ i \in Nat /\ j \in Nat
      OBVIOUS
    <3> QED
      BY <3>1, <3>2, <3>3 DEF x, y, Old
  <2> QED
    BY <2>3, <2>4
<1>2. ASSUME NEW c \in Cpus, NEW d \in Cpus, current'[c] # None,
             NEW j \in 1 .. Len(tasks'[d])
      PROVE  tasks'[d][j].pid # current'[c].pid
  <2>1. CASE tasks'[d][j] = t
    BY <1>2, <2>1
  <2>2. CASE tasks'[d][j] # t
    <3> DEFINE y == Old(d, j, cpu, idx)
    <3>1. y \in 1 .. Len(tasks[d]) /\ tasks'[d][j] = tasks[d][y]
      BY <2>2, InsertPlaces
    <3> HIDE DEF y
    <3> QED
      BY <1>2, <3>1 DEF OnePlace
  <2> QED
    BY <2>1, <2>2
<1>3. ASSUME NEW c \in Cpus, NEW d \in Cpus, current'[c] # None, current'[d] # None,
             current'[d].pid = current'[c].pid
      PROVE  c = d
  BY <1>3 DEF OnePlace
<1> QED
  BY <1>1, <1>2, <1>3 DEF OnePlace

\* After a removal of the head, a position holds what the next one held.
LEMMA TailPlaces ==
    ASSUME TypeOK, NEW cpu \in Cpus, tasks[cpu] # << >>,
           tasks' = [tasks EXCEPT ![cpu] = Tail(tasks[cpu])],
           NEW c \in Cpus, NEW i \in 1 .. Len(tasks'[c])
    PROVE  LET k == IF c = cpu THEN i + 1 ELSE i IN
           /\ k \in 1 .. Len(tasks[c])
           /\ tasks'[c][i] = tasks[c][k]
<1>1. tasks[c] \in Seq(Task) /\ tasks \in [Cpus -> Seq(Task)]
  BY DEF TypeOK
<1>2. CASE c = cpu
  <2>1. tasks'[c] = Tail(tasks[c]) /\ tasks[c] # << >>
    BY <1>1, <1>2
  <2> QED
    BY <1>1, <1>2, <2>1, TailFacts
<1>3. CASE c # cpu
  BY <1>1, <1>3
<1> QED
  BY <1>2, <1>3

\* A dispatch moves the head of a queue to the slot, so it stays in one place.
LEMMA OnePlaceDispatch ==
    ASSUME TypeOK, OnePlace, NEW cpu \in Cpus, DispatchFirst(cpu)
    PROVE  OnePlace'
<1> DEFINE k(c, i) == IF c = cpu THEN i + 1 ELSE i
<1>1. /\ tasks[cpu] # << >>
      /\ tasks' = [tasks EXCEPT ![cpu] = Tail(tasks[cpu])]
      /\ current' = [current EXCEPT ![cpu] = Head(tasks[cpu])]
  BY DEF DispatchFirst
<1>2. tasks[cpu] \in Seq(Task) /\ current \in [Cpus -> Task \cup {None}]
  BY DEF TypeOK
<1>3. 1 \in 1 .. Len(tasks[cpu]) /\ Head(tasks[cpu]) = tasks[cpu][1]
  BY <1>1, <1>2, TailFacts
<1>4. ASSUME NEW c \in Cpus, NEW i \in 1 .. Len(tasks'[c])
      PROVE  /\ k(c, i) \in 1 .. Len(tasks[c])
             /\ tasks'[c][i] = tasks[c][k(c, i)]
             /\ i \in Nat \ {0}
  <2>1. i \in Nat \ {0}
    OBVIOUS
  <2> QED
    BY <1>1, <2>1, TailPlaces, ZenonT(60)
<1>5. \A c \in Cpus : current'[c] = IF c = cpu THEN tasks[cpu][1] ELSE current[c]
  BY <1>1, <1>2, <1>3
<1>6. ASSUME NEW c \in Cpus, NEW d \in Cpus,
             NEW i \in 1 .. Len(tasks'[c]), NEW j \in 1 .. Len(tasks'[d]),
             tasks'[c][i].pid = tasks'[d][j].pid
      PROVE  c = d /\ i = j
  <2> DEFINE x == k(c, i)
             y == k(d, j)
  <2>1. /\ x \in 1 .. Len(tasks[c]) /\ tasks'[c][i] = tasks[c][x]
        /\ y \in 1 .. Len(tasks[d]) /\ tasks'[d][j] = tasks[d][y]
    BY <1>4
  <2> HIDE DEF x, y
  <2>2. c = d /\ x = y
    BY <1>6, <2>1 DEF OnePlace
  <2>3. i \in Nat /\ j \in Nat
    OBVIOUS
  <2> QED
    BY <2>2, <2>3 DEF x, y
<1>7. ASSUME NEW c \in Cpus, NEW d \in Cpus, current'[c] # None,
             NEW j \in 1 .. Len(tasks'[d])
      PROVE  tasks'[d][j].pid # current'[c].pid
  <2> DEFINE y == k(d, j)
  <2>1. y \in 1 .. Len(tasks[d]) /\ tasks'[d][j] = tasks[d][y]
    BY <1>4
  <2>2. d = cpu => y # 1
    BY <1>4
  <2> HIDE DEF y
  <2>3. CASE c = cpu
    <3>1. tasks[d][y].pid = tasks[cpu][1].pid => d = cpu /\ y = 1
      BY <1>3, <2>1 DEF OnePlace
    <3> QED
      BY <1>5, <2>1, <2>2, <2>3, <3>1
  <2>4. CASE c # cpu
    <3>1. current'[c] = current[c]
      BY <1>5, <2>4
    <3> QED
      BY <1>7, <2>1, <3>1 DEF OnePlace
  <2> QED
    BY <2>3, <2>4
<1>8. ASSUME NEW c \in Cpus, NEW d \in Cpus, current'[c] # None, current'[d] # None,
             current'[d].pid = current'[c].pid
      PROVE  c = d
  <2>1. CASE c # cpu /\ d # cpu
    BY <1>5, <1>8, <2>1 DEF OnePlace
  <2>2. CASE c = cpu /\ d # cpu
    BY <1>3, <1>5, <1>8, <2>2 DEF OnePlace
  <2>3. CASE c # cpu /\ d = cpu
    BY <1>3, <1>5, <1>8, <2>3 DEF OnePlace
  <2> QED
    BY <2>1, <2>2, <2>3
<1> HIDE DEF k
<1> QED
  BY <1>6, <1>7, <1>8 DEF OnePlace

\* The record that a wake-up or a requeue inserts has the pid it was called with.
LEMMA StampFacts ==
    ASSUME TypeOK, NEW t \in Task
    PROVE  /\ Stamp(t) \in Task
           /\ Stamp(t).pid = t.pid
           /\ Stamp(t).cpu_affinity = t.cpu_affinity
BY DEF Stamp, Task, TypeOK

LEMMA EnqueueInserts ==
    ASSUME NEW t, NEW cpu, Enqueue(t, cpu)
    PROVE  \E idx \in 0 .. Len(tasks[cpu]) : InsertedAt(Stamp(t), cpu, idx)
BY DEF Enqueue, SortedInsert, InsertedAt, InsertionPoints

\* Every step keeps each pid in at most one place.
LEMMA NextOnePlace == IInv /\ OnePlace /\ [Next]_vars => OnePlace'
<1> SUFFICES ASSUME IInv, OnePlace, [Next]_vars
             PROVE  OnePlace'
  OBVIOUS
<1>t. TypeOK /\ current \in [Cpus -> Task \cup {None}]
  BY DEF IInv, TypeOK
<1>1. ASSUME NEW cpu \in Cpus, NEW t \in Wakeable, WakeUp(t, cpu)
      PROVE  OnePlace'
  <2>1. t \in Task /\ Enqueue(t, cpu) /\ current' = current /\ ~Held(t.pid)
    BY <1>1, ConstantsAssumption DEF ConstantsAssumption, WakeUp
  <2>2. PICK idx \in 0 .. Len(tasks[cpu]) : InsertedAt(Stamp(t), cpu, idx)
    BY <2>1, EnqueueInserts
  <2> QED
    BY <1>t, <2>1, <2>2, StampFacts, OnePlaceInsert DEF Held
<1>2. ASSUME NEW cpu \in Cpus, Dispatch(cpu)
      PROVE  OnePlace'
  <2>1. CASE DispatchEmpty(cpu)
    BY <2>1 DEF DispatchEmpty, OnePlace
  <2> QED
    BY <1>t, <1>2, <2>1, OnePlaceDispatch DEF Dispatch
<1>3. ASSUME NEW cpu \in Cpus, NEW from \in Cpus, NEW charge \in Charges,
             Requeue(from, cpu, charge)
      PROVE  OnePlace'
  <2> DEFINE t == [current[from] EXCEPT !.vruntime = @ + charge]
  <2>1. current[from] \in Task /\ current[from] # None
    BY <1>t, <1>3 DEF Requeue
  <2>2. t \in Task /\ t.pid = current[from].pid
    BY <2>1, ChargedFacts
  <2>3. Enqueue(t, cpu) /\ current' = [current EXCEPT ![from] = None]
    BY <1>3 DEF Requeue
  <2> HIDE DEF t
  <2>4. PICK idx \in 0 .. Len(tasks[cpu]) : InsertedAt(Stamp(t), cpu, idx)
    BY <2>3, EnqueueInserts
  <2>5. \A c \in Cpus : \A i \in 1 .. Len(tasks[c]) : tasks[c][i].pid # t.pid
    BY <2>1, <2>2 DEF OnePlace
  <2>6. \A c \in Cpus : current'[c] # None => /\ current'[c] = current[c]
                                             /\ current[c].pid # t.pid
    BY <1>t, <2>1, <2>2, <2>3 DEF OnePlace
  <2> QED
    BY <1>t, <2>2, <2>4, <2>5, <2>6, StampFacts, OnePlaceInsert
<1>4. ASSUME NEW cpu \in Cpus, Block(cpu)
      PROVE  OnePlace'
  <2>1. tasks' = tasks /\ current' = [current EXCEPT ![cpu] = None]
    BY <1>4 DEF Block, schedVars
  <2>2. \A c \in Cpus : current'[c] # None => current'[c] = current[c]
    BY <1>t, <2>1
  <2> QED
    BY <2>1, <2>2 DEF OnePlace
<1>5. CASE UNCHANGED vars
  BY <1>5 DEF vars, OnePlace
<1> QED
  BY <1>1, <1>2, <1>3, <1>4, <1>5 DEF Next

\* A pid is never queued twice, run twice, or queued while it runs, although the
\* task may wander between the CPUs' queues.
THEOREM OnePlaceAlways == Spec => []OnePlace
<1>1. Init => OnePlace
  BY DEF Init, OnePlace
<1> QED
  BY <1>1, NextOnePlace, Invariance, PTL DEF Spec

-----------------------------------------------------------------------------

(* HeldAreNewest: a record is registered with a stamp that no other has, and *)
(* its pid gets a newer one only once it is not held any more.               *)

\* An insertion of a pid that nothing else holds afterwards.
LEMMA NewestInsert ==
    ASSUME IInv, HeldAreNewest, NEW t \in Task, NEW cpu \in Cpus, Enqueue(t, cpu),
           \A c \in Cpus : \A i \in 1 .. Len(tasks[c]) : tasks[c][i].pid # t.pid,
           \A c \in Cpus : current'[c] # None =>
                /\ current'[c] = current[c]
                /\ current[c].pid # t.pid
    PROVE  HeldAreNewest'
<1> SUFFICES ASSUME NEW r, r = Stamp(t)
             PROVE  HeldAreNewest'
  OBVIOUS
<1>1. /\ r \in Task /\ r.pid = t.pid /\ r.enqueue_time = clock
      /\ all_tasks' = all_tasks \cup {r}
  BY StampFacts DEF IInv, Enqueue, Stamp, Task
<1>2. \A u \in all_tasks : u.enqueue_time < clock
  BY DEF IInv
<1>3. NewestOfItsPid(r, all_tasks')
  BY <1>1, <1>2 DEF NewestOfItsPid
<1>4. ASSUME NEW u, NewestOfItsPid(u, all_tasks), u.pid # t.pid
      PROVE  NewestOfItsPid(u, all_tasks')
  BY <1>1, <1>4 DEF NewestOfItsPid
<1>5. PICK idx \in 0 .. Len(tasks[cpu]) : InsertedAt(r, cpu, idx)
  BY EnqueueInserts
<1>6. ASSUME NEW c \in Cpus, NEW i \in 1 .. Len(tasks'[c])
      PROVE  NewestOfItsPid(tasks'[c][i], all_tasks')
  <2>1. \/ tasks'[c][i] = r
        \/ \E x \in 1 .. Len(tasks[c]) : tasks'[c][i] = tasks[c][x]
    BY <1>1, <1>5, InsertPlaces DEF IInv
  <2> QED
    BY <1>3, <1>4, <2>1 DEF HeldAreNewest
<1>7. \A c \in Cpus : current'[c] # None => NewestOfItsPid(current'[c], all_tasks')
  BY <1>4 DEF HeldAreNewest
<1> QED
  BY <1>6, <1>7 DEF HeldAreNewest

LEMMA NextNewest == IInv /\ OnePlace /\ HeldAreNewest /\ [Next]_vars => HeldAreNewest'
<1> SUFFICES ASSUME IInv, OnePlace, HeldAreNewest, [Next]_vars
             PROVE  HeldAreNewest'
  OBVIOUS
<1>t. TypeOK /\ current \in [Cpus -> Task \cup {None}]
  BY DEF IInv, TypeOK
<1>1. ASSUME NEW cpu \in Cpus, NEW t \in Wakeable, WakeUp(t, cpu)
      PROVE  HeldAreNewest'
  <2>1. t \in Task /\ Enqueue(t, cpu) /\ current' = current /\ ~Held(t.pid)
    BY <1>1, ConstantsAssumption DEF ConstantsAssumption, WakeUp
  <2> QED
    BY <2>1, NewestInsert DEF Held
<1>2. ASSUME NEW cpu \in Cpus, DispatchFirst(cpu)
      PROVE  HeldAreNewest'
  <2>1. /\ tasks[cpu] # << >> /\ all_tasks' = all_tasks
        /\ tasks' = [tasks EXCEPT ![cpu] = Tail(tasks[cpu])]
        /\ current' = [current EXCEPT ![cpu] = Head(tasks[cpu])]
    BY <1>2 DEF DispatchFirst
  <2>3. tasks[cpu] \in Seq(Task)
    BY <1>t DEF TypeOK
  <2>4. 1 \in 1 .. Len(tasks[cpu]) /\ Head(tasks[cpu]) = tasks[cpu][1]
    BY <2>1, <2>3, TailFacts
  <2>5. NewestOfItsPid(Head(tasks[cpu]), all_tasks)
    BY <2>4 DEF HeldAreNewest
  <2>6. ASSUME NEW c \in Cpus, NEW i \in 1 .. Len(tasks'[c])
        PROVE  NewestOfItsPid(tasks'[c][i], all_tasks)
    <3>1. \E k \in 1 .. Len(tasks[c]) : tasks'[c][i] = tasks[c][k]
      BY <1>t, <2>1, TailPlaces
    <3> QED
      BY <3>1 DEF HeldAreNewest
  <2>7. \A c \in Cpus : current'[c] # None => NewestOfItsPid(current'[c], all_tasks)
    BY <1>t, <2>1, <2>5 DEF HeldAreNewest
  <2> QED
    BY <2>1, <2>6, <2>7 DEF HeldAreNewest
<1>3. ASSUME NEW cpu \in Cpus, NEW from \in Cpus, NEW charge \in Charges,
             Requeue(from, cpu, charge)
      PROVE  HeldAreNewest'
  <2> DEFINE t == [current[from] EXCEPT !.vruntime = @ + charge]
  <2>1. current[from] \in Task /\ current[from] # None
    BY <1>t, <1>3 DEF Requeue
  <2>2. t \in Task /\ t.pid = current[from].pid
    BY <2>1, ChargedFacts
  <2>3. Enqueue(t, cpu) /\ current' = [current EXCEPT ![from] = None]
    BY <1>3 DEF Requeue
  <2> HIDE DEF t
  <2>4. \A c \in Cpus : \A i \in 1 .. Len(tasks[c]) : tasks[c][i].pid # t.pid
    BY <2>1, <2>2 DEF OnePlace
  <2>5. \A c \in Cpus : current'[c] # None => /\ current'[c] = current[c]
                                             /\ current[c].pid # t.pid
    BY <1>t, <2>1, <2>2, <2>3 DEF OnePlace
  <2> QED
    BY <2>2, <2>3, <2>4, <2>5, NewestInsert
<1>4. ASSUME tasks' = tasks, all_tasks' = all_tasks,
             \A c \in Cpus : current'[c] # None => current'[c] = current[c]
      PROVE  HeldAreNewest'
  BY <1>4 DEF HeldAreNewest, NewestOfItsPid
<1>5. ASSUME NEW cpu \in Cpus, DispatchEmpty(cpu) \/ Block(cpu)
      PROVE  HeldAreNewest'
  BY <1>t, <1>4, <1>5 DEF DispatchEmpty, Block, schedVars
<1>6. CASE UNCHANGED vars
  BY <1>4, <1>6 DEF vars
<1> QED
  BY <1>1, <1>2, <1>3, <1>5, <1>6 DEF Next, Dispatch

\* Whatever is woken, requeued and dispatched on whatever CPUs, what a queue or a
\* CPU holds is the last record its pid was registered with.
THEOREM HeldAlwaysNewest == Spec => []HeldAreNewest
<1>1. Init => HeldAreNewest
  BY DEF Init, HeldAreNewest
<1> QED
  BY <1>1, NextNewest, Invariance, OnePlaceAlways, PTL DEF Spec

\* The record a caller gives to Enqueue is in all_tasks afterwards only if it was
\* before, or if it already carried the stamp it is about to get: the literal
\* `ensures t in s'.all_tasks` fails of every other.
LEMMA GivenRecordRegistered ==
    ASSUME NEW t \in Task, NEW cpu, Enqueue(t, cpu), t \in all_tasks'
    PROVE  t \in all_tasks \/ t.enqueue_time = clock
<1>1. t \in all_tasks \/ t = Stamp(t)
  BY DEF Enqueue
<1>2. Stamp(t).enqueue_time = clock
  BY DEF Stamp, Task
<1> QED
  BY <1>1, <1>2
=============================================================================
