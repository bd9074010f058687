------------------------ MODULE ScxFramework_proofs ------------------------
(***************************************************************************)
(* Proofs about the sched_ext framework, for any number of tasks and CPUs, *)
(* any affinity, slice and clock width: what every scheduler on it keeps,  *)
(* as long as its callbacks go by the framework's steps.                   *)
(***************************************************************************)
EXTENDS ScxFramework, FiniteSetTheorems, TLAPS

(* Facts about queues and constants.                                        *)

LEMMA ConstantFacts ==
    /\ SLICE \in Nat \ {0}
    /\ TimeMod \in Nat \ {0}
    /\ WaitCap \in Nat
    /\ \A p \in Tasks : Affinity[p] # {} /\ Affinity[p] \subseteq Cpus
BY FiniteAssumption, AffinityAssumption, TimeAssumption, FS_CardinalityType
DEF FiniteAssumption, AffinityAssumption, TimeAssumption, WaitCap

LEMMA AppendFacts ==
    ASSUME NEW q \in Seq(Tasks), NEW p \in Tasks
    PROVE  /\ Append(q, p) \in Seq(Tasks)
           /\ Len(Append(q, p)) = Len(q) + 1
           /\ Append(q, p)[Len(q) + 1] = p
           /\ \A i \in 1 .. Len(q) : Append(q, p)[i] = q[i]
OBVIOUS

LEMMA PushFacts ==
    ASSUME NEW q \in Seq(Tasks), NEW p \in Tasks
    PROVE  /\ <<p>> \o q \in Seq(Tasks)
           /\ Len(<<p>> \o q) = Len(q) + 1
           /\ (<<p>> \o q)[1] = p
           /\ \A i \in 2 .. Len(q) + 1 : (<<p>> \o q)[i] = q[i - 1]
OBVIOUS

LEMMA TailFacts ==
    ASSUME NEW q \in Seq(Tasks), q # << >>
    PROVE  /\ Tail(q) \in Seq(Tasks)
           /\ Len(Tail(q)) = Len(q) - 1
           /\ Len(q) \in Nat \ {0}
           /\ Head(q) = q[1]
           /\ Head(q) \in Tasks
           /\ \A i \in 1 .. Len(Tail(q)) : Tail(q)[i] = q[i + 1]
OBVIOUS

\* Removing an element moves those behind it one place forward.
LEMMA RemoveFacts ==
    ASSUME NEW q \in Seq(Tasks), NEW i \in 1 .. Len(q)
    PROVE  /\ RemoveAt(q, i) \in Seq(Tasks)
           /\ Len(RemoveAt(q, i)) = Len(q) - 1
           /\ \A j \in 1 .. i - 1 : RemoveAt(q, i)[j] = q[j]
           /\ \A j \in i .. Len(q) - 1 : RemoveAt(q, i)[j] = q[j + 1]
<1> DEFINE a == SubSeq(q, 1, i - 1)
           b == SubSeq(q, i + 1, Len(q))
<1>1. a \in Seq(Tasks) /\ Len(a) = i - 1 /\ \A j \in 1 .. i - 1 : a[j] = q[j]
  OBVIOUS
<1>2. /\ b \in Seq(Tasks)
      /\ Len(b) = Len(q) - i
      /\ \A j \in 1 .. Len(q) - i : b[j] = q[i + j]
  <2>1. b \in Seq(Tasks)
    OBVIOUS
  <2>2. Len(b) = Len(q) - i
    OBVIOUS
  <2>3. \A j \in 1 .. Len(q) - i : b[j] = q[i + j]
    OBVIOUS
  <2> QED
    BY <2>1, <2>2, <2>3
<1>3. RemoveAt(q, i) = a \o b
  BY DEF RemoveAt
<1> HIDE DEF a, b
<1>4. a \o b \in Seq(Tasks) /\ Len(a \o b) = Len(q) - 1
  <2>1. a \in Seq(Tasks) /\ b \in Seq(Tasks)
    BY <1>1, <1>2
  <2>2. a \o b \in Seq(Tasks) /\ Len(a \o b) = Len(a) + Len(b)
    BY <2>1
  <2>3. Len(a) = i - 1 /\ Len(b) = Len(q) - i
    BY <1>1, <1>2
  <2>4. Len(q) \in Nat
    OBVIOUS
  <2> QED
    BY <2>2, <2>3, <2>4
<1>6. ASSUME NEW j \in 1 .. i - 1
      PROVE  (a \o b)[j] = q[j]
  <2>1. j \in 1 .. Len(a) /\ a[j] = q[j]
    BY <1>1
  <2>2. (a \o b)[j] = a[j]
    BY <1>1, <1>2, <2>1
  <2> QED
    BY <2>1, <2>2
<1>5. ASSUME NEW j \in i .. Len(q) - 1
      PROVE  (a \o b)[j] = q[j + 1]
  <2>1. j - (i - 1) \in 1 .. Len(q) - i
    OBVIOUS
  <2>2. (a \o b)[j] = b[j - (i - 1)]
    BY <1>1, <1>2
  <2>3. b[j - (i - 1)] = q[i + (j - (i - 1))]
    BY <1>2, <2>1
  <2> QED
    BY <2>2, <2>3
<1> QED
  BY <1>3, <1>4, <1>5, <1>6

(* What the queue operations do to the set of queued tasks.                  *)

LEMMA EmptyQueue == \A p : ~Contains(<< >>, p)
BY DEF Contains

LEMMA EmptyInjective == IsInjective(<< >>) /\ << >> \in Seq(Tasks)
BY DEF IsInjective

LEMMA SingleQueue ==
    ASSUME NEW p \in Tasks
    PROVE  /\ <<p>> \in Seq(Tasks)
           /\ IsInjective(<<p>>)
           /\ \A r : Contains(<<p>>, r) <=> r = p
BY DEF Contains, IsInjective

LEMMA HeadIsQueued ==
    ASSUME NEW q \in Seq(Tasks), NEW i \in 1 .. Len(q)
    PROVE  q[i] \in Tasks /\ Contains(q, q[i])
BY DEF Contains

LEMMA AppendQueue ==
    ASSUME NEW q \in Seq(Tasks), NEW p \in Tasks
    PROVE  /\ Append(q, p) \in Seq(Tasks)
           /\ \A r : Contains(Append(q, p), r) <=> Contains(q, r) \/ r = p
           /\ IsInjective(q) /\ ~Contains(q, p) => IsInjective(Append(q, p))
<1> DEFINE a == Append(q, p)
<1>1. /\ a \in Seq(Tasks)
      /\ Len(a) = Len(q) + 1
      /\ a[Len(q) + 1] = p
      /\ \A i \in 1 .. Len(q) : a[i] = q[i]
  BY AppendFacts
<1>2. Len(q) \in Nat /\ DOMAIN q = 1 .. Len(q) /\ DOMAIN a = 1 .. Len(a)
  BY <1>1
<1> HIDE DEF a
<1>3. \A r : Contains(a, r) <=> Contains(q, r) \/ r = p
  BY <1>1, <1>2 DEF Contains
<1>4. IsInjective(q) /\ ~Contains(q, p) => IsInjective(a)
  BY <1>1, <1>2 DEF IsInjective, Contains
<1> QED
  BY <1>1, <1>3, <1>4 DEF a

LEMMA PushQueue ==
    ASSUME NEW q \in Seq(Tasks), NEW p \in Tasks
    PROVE  /\ <<p>> \o q \in Seq(Tasks)
           /\ \A r : Contains(<<p>> \o q, r) <=> Contains(q, r) \/ r = p
           /\ IsInjective(q) /\ ~Contains(q, p) => IsInjective(<<p>> \o q)
<1> DEFINE a == <<p>> \o q
<1>1. /\ a \in Seq(Tasks)
      /\ Len(a) = Len(q) + 1
      /\ a[1] = p
      /\ \A i \in 2 .. Len(q) + 1 : a[i] = q[i - 1]
  BY PushFacts
<1>2. Len(q) \in Nat /\ DOMAIN q = 1 .. Len(q) /\ DOMAIN a = 1 .. Len(a)
  BY <1>1
<1> HIDE DEF a
<1>3. ASSUME NEW i \in 1 .. Len(q)
      PROVE  i + 1 \in 2 .. Len(q) + 1 /\ a[i + 1] = q[i]
  BY <1>1, <1>2
<1>4. \A r : Contains(a, r) <=> Contains(q, r) \/ r = p
  BY <1>1, <1>2, <1>3 DEF Contains
<1>5. IsInjective(q) /\ ~Contains(q, p) => IsInjective(a)
  BY <1>1, <1>2, SMTT(30), ZenonT(30) DEF IsInjective, Contains
<1> QED
  BY <1>1, <1>4, <1>5 DEF a

LEMMA TailQueue ==
    ASSUME NEW q \in Seq(Tasks), q # << >>
    PROVE  /\ Tail(q) \in Seq(Tasks)
           /\ Head(q) \in Tasks
           /\ \A r : Contains(q, r) <=> Contains(Tail(q), r) \/ r = Head(q)
           /\ IsInjective(q) => IsInjective(Tail(q)) /\ ~Contains(Tail(q), Head(q))
<1> DEFINE a == Tail(q)
<1>1. /\ a \in Seq(Tasks)
      /\ Len(a) = Len(q) - 1
      /\ Len(q) \in Nat \ {0}
      /\ Head(q) = q[1]
      /\ Head(q) \in Tasks
      /\ \A i \in 1 .. Len(a) : a[i] = q[i + 1]
  BY TailFacts
<1>2. DOMAIN q = 1 .. Len(q) /\ DOMAIN a = 1 .. Len(a)
  BY <1>1
<1> HIDE DEF a
<1>3. ASSUME NEW i \in 1 .. Len(q), i # 1
      PROVE  i - 1 \in 1 .. Len(a) /\ a[i - 1] = q[i]
  <2>1. i - 1 \in 1 .. Len(a) /\ (i - 1) + 1 = i
    BY <1>1, <1>3
  <2> QED
    BY <1>1, <2>1
<1>4. ASSUME NEW r PROVE Contains(q, r) <=> Contains(a, r) \/ r = Head(q)
  <2>1. Contains(q, r) => Contains(a, r) \/ r = Head(q)
    BY <1>1, <1>3 DEF Contains
  <2>2. Contains(a, r) \/ r = Head(q) => Contains(q, r)
    BY <1>1 DEF Contains
  <2> QED
    BY <2>1, <2>2
<1>5. ASSUME NEW i \in 1 .. Len(a)
      PROVE  i + 1 \in 1 .. Len(q) /\ i + 1 # 1 /\ a[i] = q[i + 1]
  BY <1>1
<1>6. ASSUME IsInjective(q) PROVE IsInjective(a)
  <2> SUFFICES ASSUME NEW i \in 1 .. Len(a), NEW j \in 1 .. Len(a), a[i] = a[j]
               PROVE  i = j
    BY <1>2 DEF IsInjective
  <2>1. i + 1 = j + 1
    BY <1>2, <1>5, <1>6 DEF IsInjective
  <2> QED
    BY <2>1
<1>7. ASSUME IsInjective(q) PROVE ~Contains(a, Head(q))
  <2> SUFFICES ASSUME NEW i \in 1 .. Len(a), a[i] = Head(q)
               PROVE  FALSE
    BY DEF Contains
  <2>1. 1 \in 1 .. Len(q) /\ q[i + 1] = q[1]
    BY <1>1, <1>5
  <2> QED
    BY <1>2, <1>5, <1>7, <2>1 DEF IsInjective
<1> QED
  BY <1>1, <1>4, <1>6, <1>7 DEF a

LEMMA RemoveQueue ==
    ASSUME NEW q \in Seq(Tasks), NEW i \in 1 .. Len(q), IsInjective(q)
    PROVE  /\ RemoveAt(q, i) \in Seq(Tasks)
           /\ \A r : Contains(RemoveAt(q, i), r) <=> Contains(q, r) /\ r # q[i]
           /\ IsInjective(RemoveAt(q, i))
<1> DEFINE a == RemoveAt(q, i)
<1>1. /\ a \in Seq(Tasks)
      /\ Len(a) = Len(q) - 1
      /\ \A j \in 1 .. i - 1 : a[j] = q[j]
      /\ \A j \in i .. Len(q) - 1 : a[j] = q[j + 1]
  BY RemoveFacts
<1>2. DOMAIN q = 1 .. Len(q) /\ DOMAIN a = 1 .. Len(a) /\ Len(q) \in Nat
  BY <1>1
<1> HIDE DEF a
<1>3. ASSUME NEW j \in 1 .. Len(a)
      PROVE  \/ j < i /\ j \in 1 .. Len(q) /\ a[j] = q[j]
             \/ j >= i /\ j + 1 \in 1 .. Len(q) /\ a[j] = q[j + 1]
  BY <1>1, <1>2
<1>4. ASSUME NEW j \in 1 .. Len(q), j # i
      PROVE  \/ j < i /\ j \in 1 .. Len(a) /\ a[j] = q[j]
             \/ j > i /\ j - 1 \in 1 .. Len(a) /\ a[j - 1] = q[j]
  <2>1. CASE j < i
    BY <1>1, <1>2, <2>1
  <2>2. CASE j > i
    <3>1. j - 1 \in i .. Len(q) - 1 /\ j - 1 \in 1 .. Len(a) /\ (j - 1) + 1 = j
      BY <1>1, <1>2, <2>2
    <3> QED
      BY <1>1, <2>2, <3>1
  <2> QED
    BY <1>4, <2>1, <2>2
<1>5. ASSUME NEW r PROVE Contains(a, r) <=> Contains(q, r) /\ r # q[i]
  <2>1. ASSUME Contains(a, r) PROVE Contains(q, r) /\ r # q[i]
    <3>1. PICK j \in 1 .. Len(a) : a[j] = r
      BY <2>1 DEF Contains
    <3> QED
      BY <1>2, <1>3, <3>1 DEF Contains, IsInjective
  <2>2. ASSUME Contains(q, r), r # q[i] PROVE Contains(a, r)
    <3>1. PICK j \in 1 .. Len(q) : q[j] = r
      BY <2>2 DEF Contains
    <3>2. j # i
      BY <2>2, <3>1
    <3> QED
      BY <1>4, <3>1, <3>2 DEF Contains
  <2> QED
    BY <2>1, <2>2
<1>6. IsInjective(a)
  <2> SUFFICES ASSUME NEW j \in 1 .. Len(a), NEW k \in 1 .. Len(a), a[j] = a[k]
               PROVE  j = k
    BY <1>2 DEF IsInjective
  <2> DEFINE Old(n) == IF n < i THEN n ELSE n + 1
  <2>1. Old(j) \in 1 .. Len(q) /\ a[j] = q[Old(j)]
    BY <1>2, <1>3
  <2>2. Old(k) \in 1 .. Len(q) /\ a[k] = q[Old(k)]
    BY <1>2, <1>3
  <2>3. Old(j) = Old(k)
    <3> HIDE DEF Old
    <3> QED
      BY <1>2, <2>1, <2>2 DEF IsInjective
  <2> QED
    BY <2>3
<1> QED
  BY <1>1, <1>5, <1>6 DEF a


-----------------------------------------------------------------------------
(* The inductive invariant: each conjunct, under each of the steps.          *)

USE DEF SetStatus, taskVars, runVars, idleVars, scxVars

LEMMA InitIInv == ScxInit => ScxIInv
<1> SUFFICES ASSUME ScxInit PROVE ScxIInv
  OBVIOUS
<1>1. ASSUME NEW p \in Tasks
      PROVE  target[p] \in Affinity[p]
  BY ConstantFacts, <1>1 DEF ScxInit
<1>2. ScxTypeOK
  BY <1>1, ConstantFacts, EmptyInjective DEF ScxInit, ScxTypeOK, Status
<1>3. OnePlace
  BY EmptyQueue, EmptyInjective, NoTaskAssumption
  DEF ScxInit, OnePlace, InShared, InLocal, Runs, NoTaskAssumption
<1>4. AffinityRespected
  BY EmptyQueue DEF ScxInit, AffinityRespected
<1>5. TargetAllowed
  BY DEF ScxInit, TargetAllowed
<1>6. WaiterHasACpu
  BY EmptyQueue DEF ScxInit, WaiterHasACpu, InShared
<1>7. LockHeldByOne
  BY DEF ScxInit, LockHeldByOne, InEnqueue
<1> QED
  BY <1>2, <1>3, <1>4, <1>5, <1>6, <1>7 DEF ScxIInv

LEMMA NextType ==
    ASSUME ScxTypeOK, AffinityRespected, ScxNext
    PROVE  ScxTypeOK'
<1> USE ConstantFacts DEF ScxTypeOK
<1>1. ASSUME NEW p \in Tasks, Fork(p) PROVE ScxTypeOK'
  BY <1>1 DEF Fork, Status
<1>2. ASSUME NEW p \in Tasks, InsertLocal(p) PROVE ScxTypeOK'
  <2>1. Append(local_dsq[target[p]], p) \in Seq(Tasks)
    BY AppendFacts
  <2> QED
    BY <1>2, <2>1 DEF InsertLocal, Kick, Status
<1>3. ASSUME NEW p \in Tasks, BeginEnqueue(p) PROVE ScxTypeOK'
  BY <1>3 DEF BeginEnqueue, Status
<1>4. ASSUME NEW p \in Tasks, InsertShared(p) PROVE ScxTypeOK'
  <2>1. Append(shared_dsq, p) \in Seq(Tasks)
    BY AppendFacts
  <2> QED
    BY <1>4, <2>1 DEF InsertShared, Kick, Status
<1>5. ASSUME NEW p \in Tasks, LeaveOut(p) PROVE ScxTypeOK'
  BY <1>5 DEF LeaveOut, Kick, Status
<1>6. ASSUME NEW cpu \in Cpus, Resched(cpu) PROVE ScxTypeOK'
  BY <1>6 DEF Resched
<1>7. ASSUME NEW cpu \in Cpus, MoveToLocal(cpu) PROVE ScxTypeOK'
  <2>1. PICK i \in Eligible(cpu) :
           /\ local_dsq' = [local_dsq EXCEPT ![cpu] = <<shared_dsq[i]>>]
           /\ shared_dsq' = RemoveAt(shared_dsq, i)
           /\ quanta' = [quanta EXCEPT ![shared_dsq[i]] = 0]
    BY <1>7 DEF MoveToLocal
  <2>2. i \in 1 .. Len(shared_dsq) /\ shared_dsq[i] \in Tasks
    BY <2>1, HeadIsQueued DEF Eligible
  <2>3. RemoveAt(shared_dsq, i) \in Seq(Tasks) /\ <<shared_dsq[i]>> \in Seq(Tasks)
    BY <2>2, RemoveFacts, SingleQueue
  <2>4. 0 \in 0 .. WaitCap
    OBVIOUS
  <2> QED
    BY <1>7, <2>1, <2>2, <2>3, <2>4 DEF MoveToLocal
<1>8. ASSUME NEW cpu \in Cpus, GoIdle(cpu) PROVE ScxTypeOK'
  BY <1>8 DEF GoIdle
<1>9. ASSUME NEW p \in Tasks, NEW cpu \in Cpus, SelectCpu(p, cpu) PROVE ScxTypeOK'
  BY <1>9 DEF SelectCpu, Status
<1>10. ASSUME NEW p \in Tasks, NEW cpu \in Cpus, RunNext(cpu, p) PROVE ScxTypeOK'
  <2>1. Tail(local_dsq[cpu]) \in Seq(Tasks)
    BY <1>10, TailFacts DEF RunNext
  <2>2. quanta' \in [Tasks -> 0 .. WaitCap]
    <3> DEFINE Counted(q) == IF q \in Overtaken(cpu, p) /\ quanta[q] < WaitCap
                          THEN quanta[q] + 1 ELSE quanta[q]
    <3>1. quanta' = [q \in Tasks |-> Counted(q)]
      BY <1>10 DEF RunNext
    <3>2. ASSUME NEW q \in Tasks PROVE Counted(q) \in 0 .. WaitCap
      <4>1. quanta[q] \in 0 .. WaitCap /\ WaitCap \in Nat
        OBVIOUS
      <4> QED
        BY <4>1
    <3> QED
      BY <3>1, <3>2
  <2> QED
    BY <1>10, <2>1, <2>2 DEF RunNext, Status
<1>11. ASSUME NEW p \in Tasks, NEW cpu \in Cpus, Expire(cpu, p) PROVE ScxTypeOK'
  BY <1>11, SMTT(30) DEF Expire, Stop, Status
<1>12. ASSUME NEW p \in Tasks, NEW cpu \in Cpus, Preempt(cpu, p) PROVE ScxTypeOK'
  <2>1. <<p>> \o local_dsq[cpu] \in Seq(Tasks)
    BY PushFacts
  <2>2. slice[p] - Elapsed(exec_start[cpu]) \in 0 .. SLICE
    BY <1>12, SMTT(30) DEF Preempt
  <2> QED
    BY <1>12, <2>1, <2>2, SMTT(30) DEF Preempt, Stop, Status
<1>13. ASSUME NEW p \in Tasks, NEW cpu \in Cpus, Sleep(cpu, p) \/ Exit(cpu, p)
       PROVE  ScxTypeOK'
  <2>1. CASE Sleep(cpu, p)
    BY <2>1, SMTT(30) DEF Sleep, Stop, Status
  <2>2. CASE Exit(cpu, p)
    BY <2>2 DEF Exit, Stop, Status
  <2> QED
    BY <1>13, <2>1, <2>2
<1>14. CASE Tick
  <2>1. now' \in 0 .. TimeMod - 1
    BY <1>14 DEF Tick
  <2> QED
    BY <1>14, <2>1 DEF Tick
<1> QED
  BY <1>1, <1>2, <1>3, <1>4, <1>5, <1>6, <1>7, <1>8, <1>9, <1>10, <1>11, <1>12, <1>13, <1>14
  DEF ScxNext, ScxTaskStep, ScxCpuStep, ScxRunStep


LEMMA NextOnePlace ==
    ASSUME ScxTypeOK, OnePlace, ScxNext
    PROVE  OnePlace'
<1> USE NoTaskAssumption DEF ScxTypeOK, OnePlace, InShared, InLocal, Runs, NoTaskAssumption
<1>1. ASSUME NEW p \in Tasks, Fork(p) PROVE OnePlace'
  BY <1>1 DEF Fork
<1>2. ASSUME NEW p \in Tasks, InsertLocal(p) PROVE OnePlace'
  <2> DEFINE c == target[p]
             q == Append(local_dsq[c], p)
  <2>1. /\ c \in Cpus
        /\ status[p] = "selected"
        /\ local_dsq' = [local_dsq EXCEPT ![c] = q]
        /\ status' = [status EXCEPT ![p] = "queued"]
        /\ UNCHANGED <<shared_dsq, curr>>
    BY <1>2 DEF InsertLocal
  <2>2. /\ ~Contains(shared_dsq, p)
        /\ \A d \in Cpus : ~Contains(local_dsq[d], p)
    BY <2>1
  <2>3. IsInjective(q) /\ \A r : Contains(q, r) <=> Contains(local_dsq[c], r) \/ r = p
    BY <2>1, <2>2, AppendQueue
  <2> HIDE DEF q, c
  <2>4. ASSUME NEW d \in Cpus
        PROVE  /\ IsInjective(local_dsq'[d])
               /\ \A r : Contains(local_dsq'[d], r) <=>
                      Contains(local_dsq[d], r) \/ (d = c /\ r = p)
    BY <2>1, <2>3
  <2>5. \A r \in Tasks : InLocal(r)' <=> InLocal(r) \/ r = p
    BY <2>1, <2>4
  <2>6. \A d, e \in Cpus, r \in Tasks :
          Contains(local_dsq'[d], r) /\ Contains(local_dsq'[e], r) => d = e
    BY <2>2, <2>4, SMTT(30), ZenonT(30)
  <2>7. \A r \in Tasks : /\ InShared(r)' <=> InShared(r)
                         /\ Runs(r)' <=> Runs(r)
    BY <2>1
  <2>8. \A r \in Tasks : /\ ~(InShared(r)' /\ InLocal(r)')
                         /\ status'[r] = "queued" <=> InShared(r)' \/ InLocal(r)'
                         /\ status'[r] = "running" <=> Runs(r)'
    <3> SUFFICES ASSUME NEW r \in Tasks
                 PROVE  /\ ~(InShared(r)' /\ InLocal(r)')
                        /\ status'[r] = "queued" <=> InShared(r)' \/ InLocal(r)'
                        /\ status'[r] = "running" <=> Runs(r)'
      OBVIOUS
    <3>1. status'[r] = IF r = p THEN "queued" ELSE status[r]
      BY <2>1
    <3> QED
      BY <2>1, <2>2, <2>5, <2>7, <3>1, SMTT(30), ZenonT(30)
  <2> QED
    BY <2>1, <2>4, <2>6, <2>8 DEF OnePlace
<1>3. ASSUME NEW p \in Tasks, BeginEnqueue(p) PROVE OnePlace'
  BY <1>3 DEF BeginEnqueue, MayEnqueue
<1>4. ASSUME NEW p \in Tasks, InsertShared(p) PROVE OnePlace'
  <2> DEFINE q == Append(shared_dsq, p)
  <2>1. /\ status[p] = "stamped"
        /\ shared_dsq' = q
        /\ status' = [status EXCEPT ![p] = "queued"]
        /\ UNCHANGED <<local_dsq, curr>>
    BY <1>4 DEF InsertShared
  <2>2. /\ ~Contains(shared_dsq, p)
        /\ \A d \in Cpus : ~Contains(local_dsq[d], p)
    BY <2>1
  <2>3. IsInjective(q) /\ \A r : Contains(q, r) <=> Contains(shared_dsq, r) \/ r = p
    BY <2>2, AppendQueue
  <2> HIDE DEF q
  <2> QED
    BY <2>1, <2>2, <2>3
<1>5. ASSUME NEW p \in Tasks, LeaveOut(p) PROVE OnePlace'
  BY <1>5 DEF LeaveOut, MayEnqueue
<1>6. ASSUME NEW cpu \in Cpus, Resched(cpu) PROVE OnePlace'
  BY <1>6 DEF Resched
<1>7. ASSUME NEW cpu \in Cpus, MoveToLocal(cpu) PROVE OnePlace'
  <2>1. PICK i \in Eligible(cpu) :
           /\ local_dsq' = [local_dsq EXCEPT ![cpu] = <<shared_dsq[i]>>]
           /\ shared_dsq' = RemoveAt(shared_dsq, i)
    BY <1>7 DEF MoveToLocal
  <2> DEFINE p == shared_dsq[i]
             q == <<p>>
             s == RemoveAt(shared_dsq, i)
  <2>2. i \in 1 .. Len(shared_dsq) /\ p \in Tasks /\ Contains(shared_dsq, p)
    BY <2>1, HeadIsQueued DEF Eligible
  <2>3. IsInjective(q) /\ \A r : Contains(q, r) <=> r = p
    BY <2>2, SingleQueue
  <2>4. IsInjective(s) /\ \A r : Contains(s, r) <=> Contains(shared_dsq, r) /\ r # p
    BY <2>2, RemoveQueue
  <2>5. \A r : ~Contains(local_dsq[cpu], r)
    BY <1>7, EmptyQueue DEF MoveToLocal
  <2>6. /\ local_dsq' = [local_dsq EXCEPT ![cpu] = q]
        /\ shared_dsq' = s
        /\ UNCHANGED <<status, curr>>
    BY <1>7, <2>1 DEF MoveToLocal
  <2> HIDE DEF p, q, s
  <2>7. \A r \in Tasks : InShared(r)' <=> InShared(r) /\ r # p
    BY <2>4, <2>6
  <2>8. \A r \in Tasks : InLocal(r)' <=> InLocal(r) \/ r = p
    BY <2>3, <2>5, <2>6
  <2>9. ASSUME NEW c \in Cpus, NEW d \in Cpus, NEW r \in Tasks,
               Contains(local_dsq'[c], r), Contains(local_dsq'[d], r)
        PROVE  c = d
    <3>1. ASSUME NEW e \in Cpus, Contains(local_dsq'[e], r)
          PROVE  Contains(local_dsq[e], r) \/ (e = cpu /\ r = p)
      <4>1. local_dsq'[e] = IF e = cpu THEN q ELSE local_dsq[e]
        BY <2>6
      <4> QED
        BY <2>3, <3>1, <4>1
    <3>2. \A e \in Cpus : ~Contains(local_dsq[e], p)
      BY <2>2
    <3>3. \A d1, d2 \in Cpus : Contains(local_dsq[d1], r) /\ Contains(local_dsq[d2], r) => d1 = d2
      OBVIOUS
    <3> HIDE DEF ScxTypeOK, OnePlace
    <3>4. CASE r = p
      BY <2>9, <3>1, <3>2, <3>4
    <3>5. CASE r # p
      BY <2>9, <3>1, <3>3, <3>5
    <3> QED
      BY <3>4, <3>5
  <2>10. \A c \in Cpus : IsInjective(local_dsq'[c])
    BY <2>3, <2>6
  <2>11. \A r \in Tasks : Runs(r)' <=> Runs(r)
    BY <2>6
  <2>12. \A r \in Tasks :
       /\ ~(InShared(r)' /\ InLocal(r)')
       /\ status'[r] = "queued" <=> InShared(r)' \/ InLocal(r)'
       /\ status'[r] = "running" <=> Runs(r)'
    <3>1. InShared(p) /\ ~InLocal(p)
      BY <2>2
    <3>2. \A r \in Tasks :
         /\ ~(InShared(r) /\ InLocal(r))
         /\ status[r] = "queued" <=> InShared(r) \/ InLocal(r)
         /\ status[r] = "running" <=> Runs(r)
      OBVIOUS
    <3>3. status' = status
      BY <2>6
    <3> HIDE DEF InShared, InLocal, Runs, OnePlace
    <3> QED
      BY <2>7, <2>8, <2>11, <3>1, <3>2, <3>3
  <2>13. \A c, d \in Cpus : curr'[c] = curr'[d] /\ curr'[c] # NoTask => c = d
    BY <2>6
  <2> QED
    BY <2>4, <2>6, <2>9, <2>10, <2>12, <2>13 DEF OnePlace
<1>8. ASSUME NEW cpu \in Cpus, GoIdle(cpu) PROVE OnePlace'
  BY <1>8 DEF GoIdle
<1>9. ASSUME NEW p \in Tasks, NEW cpu \in Cpus, SelectCpu(p, cpu) PROVE OnePlace'
  BY <1>9 DEF SelectCpu
<1>10. ASSUME NEW p \in Tasks, NEW cpu \in Cpus, RunNext(cpu, p) PROVE OnePlace'
  <2> DEFINE q == Tail(local_dsq[cpu])
  <2>1. /\ curr[cpu] = NoTask
        /\ p = Head(local_dsq[cpu])
        /\ local_dsq[cpu] # << >>
        /\ local_dsq' = [local_dsq EXCEPT ![cpu] = q]
        /\ curr' = [curr EXCEPT ![cpu] = p]
        /\ status' = [status EXCEPT ![p] = "running"]
        /\ UNCHANGED shared_dsq
    BY <1>10 DEF RunNext, Picking
  <2>2. /\ IsInjective(q) /\ ~Contains(q, p)
        /\ \A r : Contains(local_dsq[cpu], r) <=> Contains(q, r) \/ r = p
    BY <2>1, TailQueue
  <2> HIDE DEF q
  <2>3. status[p] = "queued" /\ ~Contains(shared_dsq, p)
    BY <2>2
  <2>9. ASSUME NEW c \in Cpus, NEW r \in Tasks
        PROVE  Contains(local_dsq'[c], r) <=> Contains(local_dsq[c], r) /\ r # p
    <3>1. CASE c = cpu
      BY <2>1, <2>2, <3>1
    <3>2. CASE c # cpu
      BY <2>1, <2>2, <3>2
    <3> QED
      BY <3>1, <3>2
  <2>4. \A r \in Tasks : InLocal(r)' <=> InLocal(r) /\ r # p
    BY <2>9
  <2>5. ASSUME NEW r \in Tasks PROVE Runs(r)' <=> Runs(r) \/ r = p
    <3>1. \A c \in Cpus : curr'[c] = r <=> curr[c] = r \/ (c = cpu /\ r = p)
      BY <2>1, SMTT(30), ZenonT(30)
    <3> QED
      BY <3>1
  <2>6. \A c \in Cpus : curr[c] # p
    BY <2>3
  <2>7. \A c, d \in Cpus : curr'[c] = curr'[d] /\ curr'[c] # NoTask => c = d
    BY <2>1, <2>6, SMTT(30)
  <2>8. \A c, d \in Cpus, r \in Tasks :
          Contains(local_dsq'[c], r) /\ Contains(local_dsq'[d], r) => c = d
    BY <2>1, <2>2, SMTT(30)
  <2>10. \A c \in Cpus : IsInjective(local_dsq'[c])
    BY <2>1, <2>2
  <2>11. /\ \A r \in Tasks : InShared(r)' <=> InShared(r)
         /\ IsInjective(shared_dsq')
    BY <2>1
  <2>12. \A r \in Tasks :
       /\ ~(InShared(r)' /\ InLocal(r)')
       /\ status'[r] = "queued" <=> InShared(r)' \/ InLocal(r)'
       /\ status'[r] = "running" <=> Runs(r)'
    <3>1. \A r \in Tasks :
         /\ ~(InShared(r) /\ InLocal(r))
         /\ status[r] = "queued" <=> InShared(r) \/ InLocal(r)
         /\ status[r] = "running" <=> Runs(r)
      OBVIOUS
    <3>2. ~InShared(p)
      BY <2>3
    <3>3. \A r \in Tasks : status'[r] = IF r = p THEN "running" ELSE status[r]
      BY <2>1
    <3> HIDE DEF InShared, InLocal, Runs, OnePlace
    <3> QED
      BY <2>4, <2>5, <2>11, <3>1, <3>2, <3>3
  <2> QED
    BY <2>7, <2>8, <2>10, <2>11, <2>12 DEF OnePlace
<1>11. ASSUME NEW p \in Tasks, NEW cpu \in Cpus, Expire(cpu, p) PROVE OnePlace'
  BY <1>11, SMTT(30), ZenonT(30) DEF Expire, Stop
<1>12. ASSUME NEW p \in Tasks, NEW cpu \in Cpus, Preempt(cpu, p) PROVE OnePlace'
  <2> DEFINE q == <<p>> \o local_dsq[cpu]
  <2>1. /\ curr[cpu] = p
        /\ local_dsq' = [local_dsq EXCEPT ![cpu] = q]
        /\ curr' = [curr EXCEPT ![cpu] = NoTask]
        /\ status' = [status EXCEPT ![p] = "queued"]
        /\ UNCHANGED shared_dsq
    BY <1>12 DEF Preempt, Stop
  <2>2. /\ status[p] = "running"
        /\ ~Contains(shared_dsq, p)
        /\ \A d \in Cpus : ~Contains(local_dsq[d], p)
    BY <2>1
  <2>3. IsInjective(q) /\ \A r : Contains(q, r) <=> Contains(local_dsq[cpu], r) \/ r = p
    BY <2>2, PushQueue
  <2> HIDE DEF q
  <2>4. ASSUME NEW r \in Tasks PROVE InLocal(r)' <=> InLocal(r) \/ r = p
    <3>1. \A c \in Cpus : Contains(local_dsq'[c], r) <=>
              Contains(local_dsq[c], r) \/ (c = cpu /\ r = p)
      BY <2>1, <2>3
    <3> QED
      BY <3>1
  <2>5. ASSUME NEW r \in Tasks PROVE Runs(r)' <=> Runs(r) /\ r # p
    <3>1. \A c \in Cpus : curr'[c] = r <=> curr[c] = r /\ c # cpu
      BY <2>1
    <3>2. \A c \in Cpus : c # cpu => curr[c] # p
      BY <2>1
    <3> QED
      BY <2>1, <3>1, <3>2
  <2>7. \A c, d \in Cpus : curr'[c] = curr'[d] /\ curr'[c] # NoTask => c = d
    BY <2>1
  <2>8. \A c, d \in Cpus, r \in Tasks :
          Contains(local_dsq'[c], r) /\ Contains(local_dsq'[d], r) => c = d
    BY <2>1, <2>2, <2>3, SMTT(30)
  <2>10. \A c \in Cpus : IsInjective(local_dsq'[c])
    BY <2>1, <2>3
  <2>11. /\ \A r \in Tasks : InShared(r)' <=> InShared(r)
         /\ IsInjective(shared_dsq')
    BY <2>1
  <2>12. \A r \in Tasks :
       /\ ~(InShared(r)' /\ InLocal(r)')
       /\ status'[r] = "queued" <=> InShared(r)' \/ InLocal(r)'
       /\ status'[r] = "running" <=> Runs(r)'
    <3>1. \A r \in Tasks :
         /\ ~(InShared(r) /\ InLocal(r))
         /\ status[r] = "queued" <=> InShared(r) \/ InLocal(r)
         /\ status[r] = "running" <=> Runs(r)
      OBVIOUS
    <3>2. ~InShared(p)
      BY <2>2
    <3>3. \A r \in Tasks : status'[r] = IF r = p THEN "queued" ELSE status[r]
      BY <2>1
    <3> HIDE DEF InShared, InLocal, Runs, OnePlace
    <3> QED
      BY <2>4, <2>5, <2>11, <3>1, <3>2, <3>3
  <2> QED
    BY <2>7, <2>8, <2>10, <2>11, <2>12 DEF OnePlace
<1>13. ASSUME NEW p \in Tasks, NEW cpu \in Cpus, Sleep(cpu, p) \/ Exit(cpu, p)
       PROVE  OnePlace'
  <2>1. CASE Sleep(cpu, p)
    BY <2>1, SMTT(30), ZenonT(30) DEF Sleep, Stop
  <2>2. CASE Exit(cpu, p)
    BY <2>2, SMTT(30) DEF Exit, Stop
  <2> QED
    BY <1>13, <2>1, <2>2
<1>14. CASE Tick
  BY <1>14 DEF Tick
<1> QED
  BY <1>1, <1>2, <1>3, <1>4, <1>5, <1>6, <1>7, <1>8, <1>9, <1>10, <1>11, <1>12, <1>13, <1>14
  DEF ScxNext, ScxTaskStep, ScxCpuStep, ScxRunStep


LEMMA NextTarget ==
    ASSUME ScxTypeOK, AffinityRespected, TargetAllowed, ScxNext
    PROVE  TargetAllowed'
<1> USE ConstantFacts DEF ScxTypeOK, TargetAllowed
<1>1. ASSUME NEW p \in Tasks, ScxTaskStep(p) PROVE TargetAllowed'
  BY <1>1 DEF ScxTaskStep, Fork, InsertLocal, BeginEnqueue, MayEnqueue, InsertShared, LeaveOut
<1>2. ASSUME NEW cpu \in Cpus, ScxCpuStep(cpu) PROVE TargetAllowed'
  BY <1>2 DEF ScxCpuStep, Resched, MoveToLocal, GoIdle
<1>3. ASSUME NEW p \in Tasks, NEW cpu \in Cpus, SelectCpu(p, cpu) PROVE TargetAllowed'
  <2>1. cpu \in Affinity[p]
    BY <1>3 DEF SelectCpu, Claimable
  <2> QED
    BY <1>3, <2>1 DEF SelectCpu
<1>4. ASSUME NEW p \in Tasks, NEW cpu \in Cpus, RunNext(cpu, p) PROVE TargetAllowed'
  BY <1>4 DEF RunNext
<1>5. ASSUME NEW p \in Tasks, NEW cpu \in Cpus, Expire(cpu, p) PROVE TargetAllowed'
  <2>1. cpu \in Affinity[p]
    BY <1>5, NoTaskAssumption DEF Expire, Stop, AffinityRespected, NoTaskAssumption
  <2> QED
    BY <1>5, <2>1 DEF Expire, Stop
<1>6. ASSUME NEW p \in Tasks, NEW cpu \in Cpus, Preempt(cpu, p) PROVE TargetAllowed'
  BY <1>6 DEF Preempt, Stop
<1>7. ASSUME NEW p \in Tasks, NEW cpu \in Cpus, Sleep(cpu, p) PROVE TargetAllowed'
  BY <1>7 DEF Sleep, Stop
<1>8. ASSUME NEW p \in Tasks, NEW cpu \in Cpus, Exit(cpu, p) PROVE TargetAllowed'
  BY <1>8 DEF Exit, Stop
<1>9. CASE Tick
  BY <1>9 DEF Tick
<1> QED
  BY <1>1, <1>2, <1>3, <1>4, <1>5, <1>6, <1>7, <1>8, <1>9 DEF ScxNext, ScxRunStep

\* A step that leaves the local queues and the CPUs alone.
LEMMA SamePlacement ==
    AffinityRespected /\ UNCHANGED <<local_dsq, curr>> => AffinityRespected'
BY DEF AffinityRespected

LEMMA NextAffinity ==
    ASSUME ScxTypeOK, AffinityRespected, TargetAllowed, ScxNext
    PROVE  AffinityRespected'
<1> USE NoTaskAssumption, ConstantFacts DEF ScxTypeOK, AffinityRespected, NoTaskAssumption
<1>1. ASSUME NEW p \in Tasks, Fork(p) \/ BeginEnqueue(p) \/ InsertShared(p) \/ LeaveOut(p)
      PROVE  AffinityRespected'
  <2>1. UNCHANGED <<local_dsq, curr>>
    BY <1>1 DEF Fork, BeginEnqueue, InsertShared, LeaveOut
  <2> QED
    BY <2>1, SamePlacement
<1>2. ASSUME NEW p \in Tasks, InsertLocal(p) PROVE AffinityRespected'
  <2> DEFINE c == target[p]
             q == Append(local_dsq[c], p)
  <2>1. /\ c \in Affinity[p]
        /\ local_dsq' = [local_dsq EXCEPT ![c] = q]
        /\ UNCHANGED curr
    BY <1>2 DEF InsertLocal, TargetAllowed
  <2>2. \A r : Contains(q, r) <=> Contains(local_dsq[c], r) \/ r = p
    BY AppendQueue
  <2> HIDE DEF q, c
  <2> QED
    BY <2>1, <2>2
<1>3. ASSUME NEW cpu \in Cpus, Resched(cpu) \/ GoIdle(cpu) PROVE AffinityRespected'
  <2>1. UNCHANGED <<local_dsq, curr>>
    BY <1>3 DEF Resched, GoIdle
  <2> QED
    BY <2>1, SamePlacement
<1>4. ASSUME NEW cpu \in Cpus, MoveToLocal(cpu) PROVE AffinityRespected'
  <2>1. PICK i \in Eligible(cpu) : local_dsq' = [local_dsq EXCEPT ![cpu] = <<shared_dsq[i]>>]
    BY <1>4 DEF MoveToLocal
  <2>2. shared_dsq[i] \in Tasks /\ cpu \in Affinity[shared_dsq[i]]
    BY <2>1, HeadIsQueued DEF Eligible
  <2>3. \A r : Contains(<<shared_dsq[i]>>, r) <=> r = shared_dsq[i]
    BY <2>2, SingleQueue
  <2>4. UNCHANGED curr
    BY <1>4 DEF MoveToLocal
  <2> QED
    BY <2>1, <2>2, <2>3, <2>4
<1>5. ASSUME NEW p \in Tasks, NEW cpu \in Cpus, SelectCpu(p, cpu) PROVE AffinityRespected'
  <2>1. UNCHANGED <<local_dsq, curr>>
    BY <1>5 DEF SelectCpu
  <2> QED
    BY <2>1, SamePlacement
<1>6. ASSUME NEW p \in Tasks, NEW cpu \in Cpus, RunNext(cpu, p) PROVE AffinityRespected'
  <2> DEFINE q == Tail(local_dsq[cpu])
  <2>1. /\ p = Head(local_dsq[cpu])
        /\ local_dsq[cpu] # << >>
        /\ local_dsq' = [local_dsq EXCEPT ![cpu] = q]
        /\ curr' = [curr EXCEPT ![cpu] = p]
    BY <1>6 DEF RunNext
  <2>2. \A r : Contains(local_dsq[cpu], r) <=> Contains(q, r) \/ r = p
    BY <2>1, TailQueue
  <2> HIDE DEF q
  <2>3. cpu \in Affinity[p]
    BY <2>2
  <2> QED
    BY <2>1, <2>2, <2>3
<1>7. ASSUME NEW p \in Tasks, NEW cpu \in Cpus, Preempt(cpu, p) PROVE AffinityRespected'
  <2> DEFINE q == <<p>> \o local_dsq[cpu]
  <2>1. /\ cpu \in Affinity[p]
        /\ local_dsq' = [local_dsq EXCEPT ![cpu] = q]
        /\ curr' = [curr EXCEPT ![cpu] = NoTask]
    BY <1>7 DEF Preempt, Stop
  <2>2. \A r : Contains(q, r) <=> Contains(local_dsq[cpu], r) \/ r = p
    BY PushQueue
  <2> HIDE DEF q
  <2> QED
    BY <2>1, <2>2
<1>8. ASSUME NEW p \in Tasks, NEW cpu \in Cpus, Expire(cpu, p) \/ Sleep(cpu, p) \/ Exit(cpu, p)
      PROVE  AffinityRespected'
  <2>1. curr' = [curr EXCEPT ![cpu] = NoTask] /\ UNCHANGED local_dsq
    BY <1>8 DEF Expire, Sleep, Exit, Stop
  <2> QED
    BY <2>1
<1>9. CASE Tick
  BY <1>9, SamePlacement DEF Tick
<1> QED
  BY <1>1, <1>2, <1>3, <1>4, <1>5, <1>6, <1>7, <1>8, <1>9
  DEF ScxNext, ScxTaskStep, ScxCpuStep, ScxRunStep

\* A CPU that is awake, or told to reschedule, stays so when no CPU goes idle and
\* none is told less.
LEMMA NextWaiter ==
    ASSUME ScxTypeOK, OnePlace, TargetAllowed, WaiterHasACpu, ScxNext
    PROVE  WaiterHasACpu'
<1> USE ConstantFacts DEF ScxTypeOK, WaiterHasACpu, InShared
<1>1. ASSUME NEW p \in Tasks, Fork(p) \/ BeginEnqueue(p) PROVE WaiterHasACpu'
  <2>1. UNCHANGED <<shared_dsq, idle, kicked>>
    BY <1>1 DEF Fork, BeginEnqueue
  <2> QED
    BY <2>1
<1>2. ASSUME NEW p \in Tasks, InsertLocal(p) \/ LeaveOut(p) PROVE WaiterHasACpu'
  <2>1. UNCHANGED <<shared_dsq, idle>> /\ kicked \subseteq kicked'
    BY <1>2 DEF InsertLocal, LeaveOut, Kick
  <2> QED
    BY <2>1
<1>3. ASSUME NEW p \in Tasks, InsertShared(p) PROVE WaiterHasACpu'
  <2>1. /\ target[p] \in Affinity[p]
        /\ shared_dsq' = Append(shared_dsq, p)
        /\ kicked' = kicked \cup ({target[p]} \cap idle)
        /\ UNCHANGED idle
    BY <1>3 DEF InsertShared, Kick, TargetAllowed
  <2>2. \A r : Contains(shared_dsq', r) <=> Contains(shared_dsq, r) \/ r = p
    BY <2>1, AppendQueue
  <2> QED
    BY <2>1, <2>2
<1>4. ASSUME NEW cpu \in Cpus, Resched(cpu) PROVE WaiterHasACpu'
  BY <1>4 DEF Resched
<1>5. ASSUME NEW cpu \in Cpus, MoveToLocal(cpu) PROVE WaiterHasACpu'
  <2>1. PICK i \in Eligible(cpu) : shared_dsq' = RemoveAt(shared_dsq, i)
    BY <1>5 DEF MoveToLocal
  <2>2. \A r : Contains(shared_dsq', r) => Contains(shared_dsq, r)
    BY <2>1, RemoveQueue DEF Eligible, OnePlace
  <2>3. UNCHANGED <<idle, kicked>>
    BY <1>5 DEF MoveToLocal
  <2> QED
    BY <2>2, <2>3
<1>6. ASSUME NEW cpu \in Cpus, GoIdle(cpu) PROVE WaiterHasACpu'
  <2>1. \A p \in Tasks : Contains(shared_dsq, p) => cpu \notin Affinity[p]
    BY <1>6 DEF GoIdle, Eligible, Contains
  <2>2. idle' = idle \cup {cpu} /\ UNCHANGED <<shared_dsq, kicked>>
    BY <1>6 DEF GoIdle
  <2> QED
    BY <2>1, <2>2
<1>7. ASSUME NEW p \in Tasks, NEW cpu \in Cpus, ScxRunStep(cpu, p) PROVE WaiterHasACpu'
  <2>1. UNCHANGED <<shared_dsq, idle, kicked>>
    BY <1>7 DEF ScxRunStep, SelectCpu, RunNext, Expire, Preempt, Sleep, Exit, Stop
  <2> QED
    BY <2>1
<1>8. CASE Tick
  BY <1>8 DEF Tick
<1> QED
  BY <1>1, <1>2, <1>3, <1>4, <1>5, <1>6, <1>7, <1>8 DEF ScxNext, ScxTaskStep, ScxCpuStep

\* A task enters ops.enqueue only under a lock that is free, or that it holds.
LEMMA NextLock ==
    ASSUME ScxTypeOK, LockHeldByOne, ScxNext
    PROVE  LockHeldByOne'
<1> USE DEF ScxTypeOK, LockHeldByOne, InEnqueue, RqFree
\* A step of one task that takes no lock, or only the one it held.
<1>1. ASSUME NEW p \in Tasks, NEW s,
             status' = [status EXCEPT ![p] = s],
             \A q \in Tasks \ {p} : target'[q] = target[q],
             s \in InEnqueue => status[p] \in InEnqueue /\ target'[p] = target[p]
      PROVE  LockHeldByOne'
  BY <1>1
\* A step of one task that takes a free one.
<1>2. ASSUME NEW p \in Tasks, NEW s,
             status' = [status EXCEPT ![p] = s],
             \A q \in Tasks \ {p} : target'[q] = target[q],
             RqFree(target'[p])
      PROVE  LockHeldByOne'
  BY <1>2
<1>3. ASSUME UNCHANGED <<status, target>> PROVE LockHeldByOne'
  BY <1>3
<1>4. ASSUME NEW p \in Tasks, Fork(p) \/ InsertLocal(p) \/ InsertShared(p) \/ LeaveOut(p)
      PROVE  LockHeldByOne'
  BY <1>1, <1>4 DEF Fork, InsertLocal, InsertShared, LeaveOut
<1>5. ASSUME NEW p \in Tasks, BeginEnqueue(p) PROVE LockHeldByOne'
  <2>1. status' = [status EXCEPT ![p] = "stamped"] /\ UNCHANGED target
    BY <1>5 DEF BeginEnqueue
  <2>2. CASE RqFree(target[p])
    BY <1>2, <2>1, <2>2
  <2>3. CASE status[p] = "requeue"
    BY <1>1, <2>1, <2>3
  <2> QED
    BY <1>5, <2>2, <2>3 DEF BeginEnqueue, MayEnqueue
<1>6. ASSUME NEW cpu \in Cpus, ScxCpuStep(cpu) PROVE LockHeldByOne'
  BY <1>3, <1>6 DEF ScxCpuStep, Resched, MoveToLocal, GoIdle
<1>7. ASSUME NEW p \in Tasks, NEW cpu \in Cpus, Expire(cpu, p) PROVE LockHeldByOne'
  <2>1. /\ RqFree(cpu)
        /\ status' = [status EXCEPT ![p] = "requeue"]
        /\ target' = [target EXCEPT ![p] = cpu]
    BY <1>7 DEF Expire, Stop
  <2>2. target'[p] = cpu /\ \A q \in Tasks \ {p} : target'[q] = target[q]
    BY <2>1
  <2> QED
    BY <1>2, <2>1, <2>2
<1>8. ASSUME NEW p \in Tasks, NEW cpu \in Cpus,
             \/ SelectCpu(p, cpu) \/ RunNext(cpu, p) \/ Preempt(cpu, p)
             \/ Sleep(cpu, p) \/ Exit(cpu, p)
      PROVE  LockHeldByOne'
  <2>1. PICK s \in {"selected", "running", "queued", "asleep", "none"} :
           status' = [status EXCEPT ![p] = s]
    BY <1>8 DEF SelectCpu, RunNext, Preempt, Sleep, Exit
  <2>2. \A q \in Tasks \ {p} : target'[q] = target[q]
    BY <1>8 DEF SelectCpu, RunNext, Preempt, Sleep, Exit
  <2> QED
    BY <1>1, <2>1, <2>2
<1>9. CASE Tick
  BY <1>3, <1>9 DEF Tick
<1> QED
  BY <1>4, <1>5, <1>6, <1>7, <1>8, <1>9 DEF ScxNext, ScxTaskStep, ScxRunStep

\* What the framework's steps keep, whatever a scheduler keeps beside them.
THEOREM ScxInvariance == ScxSpec => []ScxIInv
<1>1. ScxIInv /\ [ScxNext]_scxVars => ScxIInv'
  <2> SUFFICES ASSUME ScxIInv, [ScxNext]_scxVars PROVE ScxIInv'
    OBVIOUS
  <2>1. CASE ScxNext
    BY <2>1, NextType, NextOnePlace, NextTarget, NextAffinity, NextWaiter, NextLock DEF ScxIInv
  <2>2. CASE UNCHANGED scxVars
    BY <2>2 DEF ScxIInv, ScxTypeOK, OnePlace, AffinityRespected, TargetAllowed,
                WaiterHasACpu, LockHeldByOne, InShared, InLocal, Runs
  <2> QED
    BY <2>1, <2>2
<1> QED
  BY InitIInv, <1>1, PTL DEF ScxSpec


-----------------------------------------------------------------------------
(* A scheduler that leaves no task out hands tasks over as TaskHandover says *)

\* No callback returns without having inserted its task.
NobodyLeftOut == \A p \in Tasks : ~LeaveOut(p)

LEMMA InitRefines == ScxInit => Handover!Init
BY DEF ScxInit, Handover!Init, Ready

\* A step that changes neither what runs nor, for any task, whether it is ready.
LEMMA SameReady ==
    ASSUME UNCHANGED curr, \A r \in Tasks : r \in Ready' <=> r \in Ready
    PROVE  UNCHANGED Handover!vars
<1>1. Ready' \subseteq Tasks /\ Ready \subseteq Tasks
  BY DEF Ready
<1>2. Ready' = Ready
  BY <1>1
<1> QED
  BY <1>2 DEF Handover!vars

LEMMA NextRefines ==
    ASSUME ScxTypeOK, OnePlace, AffinityRespected, [ScxNext]_scxVars,
           [NobodyLeftOut]_scxVars
    PROVE  [Handover!Next]_(Handover!vars)
<1> USE NoTaskAssumption, ConstantFacts DEF ScxTypeOK, NoTaskAssumption
<1>1. ASSUME NEW p \in Tasks, ScxTaskStep(p), ~LeaveOut(p) PROVE UNCHANGED Handover!vars
  <2>1. UNCHANGED curr
    BY <1>1 DEF ScxTaskStep, Fork, InsertLocal, BeginEnqueue, InsertShared
  <2>2. \A r \in Tasks : r \in Ready' <=> r \in Ready
    BY <1>1 DEF ScxTaskStep, Fork, InsertLocal, BeginEnqueue, MayEnqueue, InsertShared, Ready
  <2> QED
    BY <2>1, <2>2, SameReady
<1>2. ASSUME NEW cpu \in Cpus, ScxCpuStep(cpu) PROVE UNCHANGED Handover!vars
  <2>1. UNCHANGED <<curr, status>>
    BY <1>2 DEF ScxCpuStep, Resched, MoveToLocal, GoIdle
  <2> QED
    BY <2>1, SameReady DEF Ready
<1>3. ASSUME NEW p \in Tasks, NEW cpu \in Cpus, SelectCpu(p, cpu) PROVE Handover!Next
  <2>1. /\ status[p] = "asleep"
        /\ status' = [status EXCEPT ![p] = "selected"]
        /\ UNCHANGED curr
    BY <1>3 DEF SelectCpu
  <2>2. p \notin Ready /\ \A c \in Cpus : curr[c] # p
    BY <2>1 DEF Ready, OnePlace, Runs
  <2>3. Ready' = Ready \cup {p}
    BY <2>1 DEF Ready
  <2> QED
    BY <2>1, <2>2, <2>3 DEF Handover!Next, Handover!WakeUp
<1>4. ASSUME NEW p \in Tasks, NEW cpu \in Cpus, RunNext(cpu, p) PROVE Handover!Next
  <2>1. /\ curr[cpu] = NoTask
        /\ local_dsq[cpu] # << >>
        /\ p = Head(local_dsq[cpu])
        /\ curr' = [curr EXCEPT ![cpu] = p]
        /\ status' = [status EXCEPT ![p] = "running"]
    BY <1>4 DEF RunNext, Picking
  <2>2. Contains(local_dsq[cpu], p)
    BY <2>1, TailQueue
  <2>3. status[p] = "queued" /\ cpu \in Affinity[p]
    BY <2>2 DEF OnePlace, InLocal, AffinityRespected
  <2>4. p \in Ready /\ Ready' = Ready \ {p}
    BY <2>1, <2>3 DEF Ready
  <2> QED
    BY <2>1, <2>3, <2>4 DEF Handover!Next, Handover!Dispatch
<1>5. ASSUME NEW p \in Tasks, NEW cpu \in Cpus, Expire(cpu, p) \/ Preempt(cpu, p)
      PROVE  Handover!Next
  <2>1. /\ curr[cpu] = p
        /\ curr' = [curr EXCEPT ![cpu] = NoTask]
        /\ \E s \in {"requeue", "queued"} : status' = [status EXCEPT ![p] = s]
    BY <1>5 DEF Expire, Preempt, Stop
  <2>2. Ready' = Ready \cup {p}
    BY <2>1 DEF Ready
  <2> QED
    BY <2>1, <2>2 DEF Handover!Next, Handover!Requeue
<1>6. ASSUME NEW p \in Tasks, NEW cpu \in Cpus, Sleep(cpu, p) \/ Exit(cpu, p)
      PROVE  Handover!Next
  <2>1. /\ curr[cpu] = p
        /\ curr' = [curr EXCEPT ![cpu] = NoTask]
        /\ \E s \in {"asleep", "none"} : status' = [status EXCEPT ![p] = s]
    BY <1>6 DEF Sleep, Exit, Stop
  <2>2. status[p] = "running"
    BY <2>1 DEF OnePlace, Runs
  <2>3. Ready' = Ready
    BY <2>1, <2>2 DEF Ready
  <2> QED
    BY <2>1, <2>3 DEF Handover!Next, Handover!Leave
<1>7. CASE Tick
  BY <1>7, SameReady DEF Tick, Ready
<1>8. CASE UNCHANGED scxVars
  BY <1>8, SameReady DEF Ready
<1>9. CASE NobodyLeftOut
  <2>1. \A p \in Tasks : ~LeaveOut(p)
    BY <1>9 DEF NobodyLeftOut
  <2> QED
    BY <2>1, <1>1, <1>2, <1>3, <1>4, <1>5, <1>6, <1>7, <1>8 DEF ScxNext, ScxRunStep
<1> QED
  BY <1>8, <1>9

\* Whatever the callbacks, if none leaves a task out: what is dispatched was held,
\* runs nowhere else and may run on that CPU, and what is held is never dropped.
THEOREM ScxRefinement ==
    ScxSpec /\ [][NobodyLeftOut]_scxVars => HandsOver
<1>1. ScxSpec /\ [][NobodyLeftOut]_scxVars
          => Handover!Init /\ [][Handover!Next]_(Handover!vars)
  BY ScxInvariance, InitRefines, NextRefines, PTL DEF ScxSpec, ScxIInv
<1> QED
  BY <1>1 DEF HandsOver, Handover!Spec

-----------------------------------------------------------------------------
(* Who may overtake whom in the shared queue                                 *)

\* The tasks that may still begin a full quantum before p, on a CPU p may use:
\* those in front of it, and those moved on with their slice still whole.
MayOvertake(p) ==
    {q \in Tasks : \/ InFront(shared_dsq, q, p)
                   \/ /\ slice[q] = SLICE
                      /\ \E cpu \in Affinity[p] : Contains(local_dsq[cpu], q)}

LEMMA AppendInFront ==
    ASSUME NEW s \in Seq(Tasks), NEW r \in Tasks, NEW q, NEW p, p # r,
           InFront(Append(s, r), q, p)
    PROVE  InFront(s, q, p)
<1>1. PICK i \in 1 .. Len(Append(s, r)), j \in 1 .. Len(Append(s, r)) :
         i < j /\ Append(s, r)[i] = q /\ Append(s, r)[j] = p
  BY DEF InFront
<1>2. Len(s) \in Nat /\ j # Len(s) + 1
  BY <1>1, AppendFacts
<1>3. i \in 1 .. Len(s) /\ j \in 1 .. Len(s)
  BY <1>1, <1>2, AppendFacts
<1>4. s[i] = q /\ s[j] = p
  BY <1>1, <1>3, AppendFacts
<1> QED
  BY <1>1, <1>3, <1>4 DEF InFront

LEMMA RemoveInFront ==
    ASSUME NEW s \in Seq(Tasks), NEW n \in 1 .. Len(s), NEW q, NEW p,
           InFront(RemoveAt(s, n), q, p)
    PROVE  InFront(s, q, p)
<1> DEFINE a == RemoveAt(s, n)
           Old(k) == IF k < n THEN k ELSE k + 1
<1>1. PICK i \in 1 .. Len(a), j \in 1 .. Len(a) : i < j /\ a[i] = q /\ a[j] = p
  BY DEF InFront
<1>2. /\ Len(a) = Len(s) - 1
      /\ \A k \in 1 .. n - 1 : a[k] = s[k]
      /\ \A k \in n .. Len(s) - 1 : a[k] = s[k + 1]
  BY RemoveFacts
<1>6. Len(s) \in Nat
  OBVIOUS
<1> HIDE DEF a
<1>3. Old(i) \in 1 .. Len(s) /\ Old(j) \in 1 .. Len(s) /\ Old(i) < Old(j)
  <2>1. i \in 1 .. Len(s) - 1 /\ j \in 1 .. Len(s) - 1 /\ i < j /\ Len(s) \in Nat
    BY <1>1, <1>2, <1>6
  <2>2. n \in Nat
    OBVIOUS
  <2> QED
    BY <2>1, <2>2
<1>4. ASSUME NEW k \in 1 .. Len(a) PROVE a[k] = s[Old(k)]
  <2>1. CASE k < n
    BY <1>2, <2>1
  <2>2. CASE k >= n
    BY <1>2, <2>2
  <2> QED
    BY <1>2, <1>6, <2>1, <2>2
<1>5. s[Old(i)] = q /\ s[Old(j)] = p
  BY <1>1, <1>4
<1> HIDE DEF Old
<1> QED
  BY <1>3, <1>5 DEF InFront

LEMMA NotInFrontOfItself ==
    ASSUME NEW s \in Seq(Tasks), IsInjective(s), NEW p
    PROVE  ~InFront(s, p, p)
<1> SUFFICES ASSUME NEW i \in 1 .. Len(s), NEW j \in 1 .. Len(s), i < j, s[i] = p, s[j] = p
             PROVE  FALSE
  BY DEF InFront
<1>1. i = j
  BY DEF IsInjective
<1> QED
  BY <1>1

LEMMA AppendKeepsOrder ==
    ASSUME NEW s \in Seq(Tasks), NEW r \in Tasks, NEW q
    PROVE  /\ \A p : InFront(s, q, p) => InFront(Append(s, r), q, p)
           /\ Contains(s, q) => InFront(Append(s, r), q, r)
<1>1. /\ Len(Append(s, r)) = Len(s) + 1 /\ Len(s) \in Nat
      /\ Append(s, r)[Len(s) + 1] = r
      /\ \A i \in 1 .. Len(s) : Append(s, r)[i] = s[i]
  BY AppendFacts
<1> DEFINE a == Append(s, r)
<1> HIDE DEF a
<1>2. ASSUME NEW p, InFront(s, q, p) PROVE InFront(a, q, p)
  BY <1>1, <1>2 DEF InFront, a
<1>3. ASSUME Contains(s, q) PROVE InFront(a, q, r)
  <2>1. PICK i \in 1 .. Len(s) : s[i] = q
    BY <1>3 DEF Contains
  <2>2. i < Len(s) + 1 /\ i \in 1 .. Len(a) /\ Len(s) + 1 \in 1 .. Len(a)
    BY <1>1 DEF a
  <2> QED
    BY <1>1, <2>1, <2>2 DEF InFront, a
<1> QED
  BY <1>2, <1>3 DEF a

LEMMA RemoveKeepsOrder ==
    ASSUME NEW s \in Seq(Tasks), NEW n \in 1 .. Len(s), NEW q, NEW p,
           q # s[n], p # s[n], InFront(s, q, p)
    PROVE  InFront(RemoveAt(s, n), q, p)
<1> DEFINE a == RemoveAt(s, n)
           New(k) == IF k < n THEN k ELSE k - 1
<1>1. PICK i \in 1 .. Len(s), j \in 1 .. Len(s) : i < j /\ s[i] = q /\ s[j] = p
  BY DEF InFront
<1>2. /\ Len(a) = Len(s) - 1
      /\ \A k \in 1 .. n - 1 : a[k] = s[k]
      /\ \A k \in n .. Len(s) - 1 : a[k] = s[k + 1]
  BY RemoveFacts
<1>3. Len(s) \in Nat /\ i # n /\ j # n
  BY <1>1
<1> HIDE DEF a
<1>4. ASSUME NEW k \in 1 .. Len(s), k # n
      PROVE  New(k) \in 1 .. Len(a) /\ a[New(k)] = s[k]
  <2>1. CASE k < n
    BY <1>2, <1>3, <2>1
  <2>2. CASE k > n
    <3>1. k - 1 \in n .. Len(s) - 1 /\ (k - 1) + 1 = k /\ k - 1 \in 1 .. Len(a)
      BY <1>2, <1>3, <2>2
    <3>2. New(k) = k - 1
      BY <2>2
    <3> QED
      BY <1>2, <3>1, <3>2
  <2> QED
    BY <1>3, <1>4, <2>1, <2>2
<1>5. New(i) < New(j)
  BY <1>1, <1>3
<1>6. New(i) \in 1 .. Len(a) /\ New(j) \in 1 .. Len(a) /\ a[New(i)] = q /\ a[New(j)] = p
  BY <1>1, <1>3, <1>4
<1> HIDE DEF New
<1> QED
  BY <1>5, <1>6 DEF InFront, a

\* Only the insertion and the dispatch touch the shared queue.
LEMMA NextKeepsOrder ==
    ASSUME ScxTypeOK, OnePlace, [ScxNext]_scxVars
    PROVE  KeepsOrder
<1> USE DEF InShared
<1>1. ASSUME UNCHANGED shared_dsq PROVE KeepsOrder
  BY <1>1 DEF KeepsOrder, InFront, Contains
<1>2. ASSUME NEW r \in Tasks, InsertShared(r) PROVE KeepsOrder
  <2>1. shared_dsq' = Append(shared_dsq, r)
    BY <1>2 DEF InsertShared
  <2>2. \A p : Contains(shared_dsq', p) <=> Contains(shared_dsq, p) \/ p = r
    BY <2>1, AppendQueue DEF ScxTypeOK
  <2>3. ~Contains(shared_dsq, r)
    BY <1>2 DEF InsertShared, OnePlace
  <2>4. ASSUME NEW q \in Tasks, Contains(shared_dsq, q)
        PROVE  /\ \A p : InFront(shared_dsq, q, p) => InFront(shared_dsq', q, p)
               /\ InFront(shared_dsq', q, r)
    BY <2>1, <2>4, AppendKeepsOrder DEF ScxTypeOK
  <2>5. \A p, q : InFront(shared_dsq, q, p) => Contains(shared_dsq, p)
    BY DEF InFront, Contains
  <2> QED
    BY <2>2, <2>3, <2>4, <2>5 DEF KeepsOrder
<1>3. ASSUME NEW cpu \in Cpus, MoveToLocal(cpu) PROVE KeepsOrder
  <2>1. PICK n \in Eligible(cpu) :
           /\ \A j \in Eligible(cpu) : n <= j
           /\ local_dsq' = [local_dsq EXCEPT ![cpu] = <<shared_dsq[n]>>]
           /\ shared_dsq' = RemoveAt(shared_dsq, n)
    BY <1>3 DEF MoveToLocal
  <2> DEFINE r == shared_dsq[n]
  <2>2. n \in 1 .. Len(shared_dsq) /\ r \in Tasks /\ cpu \in Affinity[r]
    BY <2>1, HeadIsQueued DEF Eligible, ScxTypeOK
  <2>3. \A p : Contains(shared_dsq', p) <=> Contains(shared_dsq, p) /\ p # r
    BY <2>1, <2>2, RemoveQueue DEF ScxTypeOK, OnePlace
  <2>4. ASSUME NEW p \in Tasks, NEW q \in Tasks, p # r, q # r, InFront(shared_dsq, q, p)
        PROVE  InFront(shared_dsq', q, p)
    BY <2>1, <2>2, <2>4, RemoveKeepsOrder DEF ScxTypeOK
  <2>5. ASSUME NEW q \in Tasks, InFront(shared_dsq, q, r) PROVE cpu \notin Affinity[q]
    <3>1. PICK i \in 1 .. Len(shared_dsq), j \in 1 .. Len(shared_dsq) :
             i < j /\ shared_dsq[i] = q /\ shared_dsq[j] = r
      BY <2>5 DEF InFront
    <3>2. j = n
      BY <2>2, <3>1 DEF OnePlace, IsInjective
    <3>3. i \notin Eligible(cpu)
      BY <2>1, <2>2, <3>1, <3>2
    <3> QED
      BY <3>1, <3>3 DEF Eligible
  <2>6. Contains(local_dsq'[cpu], r)
    BY <2>1, <2>2, SingleQueue DEF ScxTypeOK
  <2>7. \A p, q : InFront(shared_dsq, q, p) => Contains(shared_dsq, p)
    BY DEF InFront, Contains
  <2> HIDE DEF r
  <2> QED
    BY <2>2, <2>3, <2>4, <2>5, <2>6, <2>7 DEF KeepsOrder
<1>4. ASSUME NEW p \in Tasks, ScxTaskStep(p) PROVE KeepsOrder
  <2>1. InsertShared(p) \/ UNCHANGED shared_dsq
    BY <1>4 DEF ScxTaskStep, Fork, InsertLocal, BeginEnqueue, LeaveOut
  <2> QED
    BY <1>1, <1>2, <2>1
<1>5. ASSUME NEW cpu \in Cpus, ScxCpuStep(cpu) PROVE KeepsOrder
  <2>1. MoveToLocal(cpu) \/ UNCHANGED shared_dsq
    BY <1>5 DEF ScxCpuStep, Resched, GoIdle
  <2> QED
    BY <1>1, <1>3, <2>1
<1>6. ASSUME NEW p \in Tasks, NEW cpu \in Cpus, ScxRunStep(cpu, p) PROVE KeepsOrder
  BY <1>1, <1>6 DEF ScxRunStep, SelectCpu, RunNext, Expire, Preempt, Sleep, Exit, Stop
<1>7. CASE Tick \/ UNCHANGED scxVars
  BY <1>1, <1>7 DEF Tick
<1> QED
  BY <1>4, <1>5, <1>6, <1>7 DEF ScxNext

\* Whatever the callbacks and on any CPUs, the shared queue is served in the
\* order of insertion, but for the CPUs that those in front may not use.
THEOREM ScxInOrder == ScxSpec => InInsertionOrder
BY ScxInvariance, NextKeepsOrder, PTL DEF ScxSpec, ScxIInv, InInsertionOrder

\* Counting the tasks that may overtake.
LEMMA Counting ==
    ASSUME NEW A \in SUBSET Tasks
    PROVE  /\ Cardinality(A) \in Nat
           /\ Cardinality(Tasks) \in Nat
           /\ \A B \in SUBSET A : Cardinality(B) <= Cardinality(A)
           /\ \A x \in A : Cardinality(A \ {x}) = Cardinality(A) - 1
<1>1. IsFiniteSet(Tasks) /\ IsFiniteSet(A)
  BY FiniteAssumption, FS_Subset DEF FiniteAssumption
<1>2. Cardinality(A) \in Nat /\ Cardinality(Tasks) \in Nat
  BY <1>1, FS_CardinalityType
<1>3. \A B \in SUBSET A : Cardinality(B) <= Cardinality(A)
  BY <1>1, FS_Subset
<1>4. \A x \in A : Cardinality(A \ {x}) = Cardinality(A) - 1
  BY <1>1, FS_RemoveElement
<1> QED
  BY <1>2, <1>3, <1>4

\* A step that leaves the queues alone, and makes no slice whole.
LEMMA OvertakeSame ==
    ASSUME UNCHANGED <<shared_dsq, local_dsq, quanta>>,
           \A q \in Tasks : slice'[q] = SLICE => slice[q] = SLICE
    PROVE  \A p \in Tasks : /\ InShared(p)' <=> InShared(p)
                            /\ quanta'[p] = quanta[p]
                            /\ MayOvertake(p)' \subseteq MayOvertake(p)
BY DEF MayOvertake, InShared

\* Tail insertion: the new task waits behind all others, and may not overtake.
LEMMA OvertakeInsert ==
    ASSUME ScxTypeOK, ScxTypeOK', OnePlace, OnePlace',
           NEW r \in Tasks, InsertShared(r)
    PROVE  /\ \A p \in Tasks : /\ InShared(p)' <=> InShared(p) \/ p = r
                               /\ quanta'[p] = quanta[p]
           /\ ~InShared(r)
           /\ \A p \in Tasks \ {r} : MayOvertake(p)' \subseteq MayOvertake(p)
           /\ MayOvertake(r)' \subseteq Tasks \ {r}
<1>1. /\ status[r] = "stamped"
      /\ shared_dsq' = Append(shared_dsq, r)
      /\ slice' = [slice EXCEPT ![r] = SLICE]
      /\ UNCHANGED <<local_dsq, quanta>>
  BY DEF InsertShared
<1>2. /\ ~InShared(r)
      /\ \A cpu \in Cpus : ~Contains(local_dsq[cpu], r)
  BY <1>1 DEF OnePlace, InLocal
<1>3. \A p : Contains(shared_dsq', p) <=> Contains(shared_dsq, p) \/ p = r
  BY <1>1, AppendQueue DEF ScxTypeOK
<1>4. \A q \in Tasks \ {r} : slice'[q] = slice[q]
  BY <1>1 DEF ScxTypeOK
<1>5. \A p \in Tasks : Affinity[p] \subseteq Cpus
  BY ConstantFacts
<1>6. ASSUME NEW p \in Tasks, p # r
      PROVE  MayOvertake(p)' \subseteq MayOvertake(p)
  <2>1. ASSUME NEW q \in Tasks, InFront(shared_dsq', q, p) PROVE InFront(shared_dsq, q, p)
    BY <1>1, <1>6, <2>1, AppendInFront DEF ScxTypeOK
  <2>2. ASSUME NEW q \in Tasks, slice'[q] = SLICE,
               \E cpu \in Affinity[p] : Contains(local_dsq'[cpu], q)
        PROVE  slice[q] = SLICE /\ \E cpu \in Affinity[p] : Contains(local_dsq[cpu], q)
    BY <1>1, <1>2, <1>4, <1>5, <2>2
  <2> QED
    BY <2>1, <2>2 DEF MayOvertake
<1>7. MayOvertake(r)' \subseteq Tasks \ {r}
  <2>1. ~InFront(shared_dsq', r, r)
    BY NotInFrontOfItself DEF ScxTypeOK, OnePlace
  <2>2. \A cpu \in Affinity[r] : ~Contains(local_dsq'[cpu], r)
    BY <1>1, <1>2, <1>5
  <2> QED
    BY <2>1, <2>2 DEF MayOvertake
<1> QED
  BY <1>1, <1>2, <1>3, <1>6, <1>7 DEF InShared

\* The shortcut of select_cpu: the task may overtake who waits for that CPU.
LEMMA OvertakeLocal ==
    ASSUME ScxTypeOK, OnePlace, NEW r \in Tasks, InsertLocal(r)
    PROVE  \A p \in Tasks :
              /\ InShared(p)' <=> InShared(p)
              /\ quanta'[p] = quanta[p]
              /\ MayOvertake(p)' \subseteq
                    MayOvertake(p) \cup (IF target[r] \in Affinity[p] THEN {r} ELSE {})
<1>1. /\ local_dsq' = [local_dsq EXCEPT ![target[r]] = Append(local_dsq[target[r]], r)]
      /\ slice' = [slice EXCEPT ![r] = SLICE]
      /\ UNCHANGED <<shared_dsq, quanta>>
      /\ status[r] = "selected"
  BY DEF InsertLocal
<1>2. target[r] \in Cpus
  BY DEF ScxTypeOK
<1>3. \A p : Contains(Append(local_dsq[target[r]], r), p)
            <=> Contains(local_dsq[target[r]], p) \/ p = r
  BY <1>2, AppendQueue DEF ScxTypeOK
<1>4. ASSUME NEW c \in Cpus, NEW q \in Tasks, Contains(local_dsq'[c], q)
      PROVE  Contains(local_dsq[c], q) \/ (q = r /\ c = target[r])
  BY <1>1, <1>2, <1>3, <1>4 DEF ScxTypeOK
<1>5. \A q \in Tasks \ {r} : slice'[q] = slice[q]
  BY <1>1 DEF ScxTypeOK
<1>6. ASSUME NEW p \in Tasks, NEW q \in MayOvertake(p)'
      PROVE  q \in MayOvertake(p) \/ (q = r /\ target[r] \in Affinity[p])
  <2>1. InFront(shared_dsq, q, p) => q \in MayOvertake(p)
    BY DEF MayOvertake
  <2>2. ASSUME slice'[q] = SLICE, NEW c \in Affinity[p], Contains(local_dsq'[c], q)
        PROVE  q \in MayOvertake(p) \/ (q = r /\ target[r] \in Affinity[p])
    <3>1. c \in Cpus /\ q \in Tasks
      BY ConstantFacts DEF MayOvertake
    <3>2. CASE q = r /\ c = target[r]
      BY <3>2
    <3>3. CASE Contains(local_dsq[c], q) /\ q # r
      BY <1>5, <2>2, <3>1, <3>3 DEF MayOvertake
    <3>4. ~Contains(local_dsq[c], r)
      BY <1>1, <3>1 DEF OnePlace, InLocal
    <3> QED
      BY <1>4, <2>2, <3>1, <3>2, <3>3, <3>4
  <2> QED
    BY <1>1, <2>1, <2>2 DEF MayOvertake
<1> QED
  BY <1>1, <1>6 DEF InShared

\* A dispatch takes the first task that may use the CPU: whom it passes by was
\* not in front of anyone who may use it.
LEMMA OvertakeMove ==
    ASSUME ScxTypeOK, OnePlace, NEW cpu \in Cpus, MoveToLocal(cpu)
    PROVE  \A p \in Tasks :
              /\ InShared(p)' => /\ InShared(p)
                                /\ quanta'[p] = quanta[p]
                                /\ MayOvertake(p)' \subseteq MayOvertake(p)
              /\ ~InShared(p)' => quanta'[p] = IF InShared(p) THEN 0 ELSE quanta[p]
<1>1. PICK n \in Eligible(cpu) :
         /\ \A j \in Eligible(cpu) : n <= j
         /\ local_dsq' = [local_dsq EXCEPT ![cpu] = <<shared_dsq[n]>>]
         /\ shared_dsq' = RemoveAt(shared_dsq, n)
         /\ quanta' = [quanta EXCEPT ![shared_dsq[n]] = 0]
  BY DEF MoveToLocal
<1> DEFINE r == shared_dsq[n]
<1>2. n \in 1 .. Len(shared_dsq) /\ r \in Tasks
  BY <1>1, HeadIsQueued DEF Eligible, ScxTypeOK
<1>3. \A p : Contains(shared_dsq', p) <=> Contains(shared_dsq, p) /\ p # r
  BY <1>1, <1>2, RemoveQueue DEF ScxTypeOK, OnePlace
<1>4. \A p : Contains(<<r>>, p) <=> p = r
  BY <1>2, SingleQueue
<1>5. slice' = slice
  BY DEF MoveToLocal
<1>6. ASSUME NEW p \in Tasks, Contains(shared_dsq', p)
      PROVE  MayOvertake(p)' \subseteq MayOvertake(p)
  <2>1. ASSUME NEW q \in Tasks, InFront(shared_dsq', q, p) PROVE InFront(shared_dsq, q, p)
    BY <1>1, <1>2, <2>1, RemoveInFront DEF ScxTypeOK
  <2>2. ASSUME cpu \in Affinity[p] PROVE InFront(shared_dsq, r, p)
    <3>1. PICK j \in 1 .. Len(shared_dsq) : shared_dsq[j] = p
      BY <1>3, <1>6 DEF Contains
    <3>2. j \in Eligible(cpu) /\ j # n
      BY <1>3, <1>6, <2>2, <3>1 DEF Eligible
    <3>3. n < j
      BY <1>1, <1>2, <3>2
    <3> QED
      BY <1>2, <3>1, <3>3 DEF InFront
  <2>3. ASSUME NEW q \in Tasks, NEW c \in Affinity[p], Contains(local_dsq'[c], q)
        PROVE  Contains(local_dsq[c], q) \/ (c = cpu /\ q = r)
    <3>1. c \in Cpus
      BY ConstantFacts
    <3>2. local_dsq'[c] = IF c = cpu THEN <<r>> ELSE local_dsq[c]
      BY <1>1, <3>1 DEF ScxTypeOK
    <3> QED
      BY <1>4, <2>3, <3>2
  <2> HIDE DEF r
  <2> QED
    BY <1>5, <2>1, <2>2, <2>3 DEF MayOvertake
<1>7. ASSUME NEW p \in Tasks
      PROVE  quanta'[p] = IF p = r THEN 0 ELSE quanta[p]
  BY <1>1, <1>2 DEF ScxTypeOK
<1>8. Contains(shared_dsq, r)
  BY <1>2, HeadIsQueued DEF ScxTypeOK
<1> HIDE DEF r
<1> QED
  BY <1>3, <1>6, <1>7, <1>8 DEF InShared

\* A full quantum that begins before p is one task less that may still do so.
LEMMA OvertakeRun ==
    ASSUME ScxTypeOK, OnePlace, NEW cpu \in Cpus, NEW r \in Tasks, RunNext(cpu, r)
    PROVE  \A p \in Tasks :
              /\ InShared(p)' <=> InShared(p)
              /\ MayOvertake(p)' \subseteq MayOvertake(p) \ {r}
              /\ \/ quanta'[p] = quanta[p]
                 \/ /\ quanta'[p] = quanta[p] + 1
                    /\ InShared(p)
                    /\ cpu \in Affinity[p]
                    /\ r \in MayOvertake(p)
<1> DEFINE q0 == Tail(local_dsq[cpu])
<1>1. /\ local_dsq[cpu] # << >>
      /\ r = Head(local_dsq[cpu])
      /\ local_dsq' = [local_dsq EXCEPT ![cpu] = q0]
      /\ UNCHANGED <<shared_dsq, slice>>
  BY DEF RunNext
<1>2. /\ \A p : Contains(local_dsq[cpu], p) <=> Contains(q0, p) \/ p = r
      /\ ~Contains(q0, r)
  BY <1>1, TailQueue DEF ScxTypeOK, OnePlace
<1>3. ASSUME NEW p \in Tasks
      PROVE  quanta'[p] = IF p \in Overtaken(cpu, r) /\ quanta[p] < WaitCap
                          THEN quanta[p] + 1 ELSE quanta[p]
  BY DEF RunNext
<1> HIDE DEF q0
<1>4. \A p \in Tasks : InShared(p)' <=> InShared(p)
  BY <1>1 DEF InShared
<1>5. ~InShared(r) /\ \A c \in Cpus : Contains(local_dsq[c], r) => c = cpu
  BY <1>1, <1>2 DEF OnePlace, InLocal
<1>6. ASSUME NEW c \in Cpus, NEW q \in Tasks, Contains(local_dsq'[c], q)
      PROVE  Contains(local_dsq[c], q) /\ q # r
  <2>1. CASE c = cpu
    BY <1>1, <1>2, <1>6, <2>1 DEF ScxTypeOK
  <2>2. CASE c # cpu
    BY <1>1, <1>5, <1>6, <2>2 DEF ScxTypeOK
  <2> QED
    BY <2>1, <2>2
<1>7. ASSUME NEW p \in Tasks PROVE MayOvertake(p)' \subseteq MayOvertake(p) \ {r}
  <2>1. ~InFront(shared_dsq, r, p)
    BY <1>5 DEF InFront, InShared, Contains
  <2>2. Affinity[p] \subseteq Cpus
    BY ConstantFacts
  <2> QED
    BY <1>1, <1>6, <2>1, <2>2 DEF MayOvertake
<1>8. ASSUME NEW p \in Tasks, p \in Overtaken(cpu, r)
      PROVE  InShared(p) /\ cpu \in Affinity[p] /\ r \in MayOvertake(p)
  <2>1. InShared(p) /\ cpu \in Affinity[p] /\ slice[r] = SLICE
    BY <1>8 DEF Overtaken
  <2>2. Contains(local_dsq[cpu], r)
    BY <1>2
  <2> QED
    BY <2>1, <2>2 DEF MayOvertake
<1> QED
  BY <1>3, <1>4, <1>7, <1>8

\* A preempted task is in front again, but not with a whole slice.
LEMMA OvertakePreempt ==
    ASSUME ScxTypeOK, NEW cpu \in Cpus, NEW r \in Tasks, Preempt(cpu, r)
    PROVE  \A p \in Tasks : /\ InShared(p)' <=> InShared(p)
                            /\ quanta'[p] = quanta[p]
                            /\ MayOvertake(p)' \subseteq MayOvertake(p)
<1> DEFINE used == Elapsed(exec_start[cpu])
<1>1. /\ used \in 1 .. slice[r] - 1
      /\ slice' = [slice EXCEPT ![r] = slice[r] - used]
      /\ local_dsq' = [local_dsq EXCEPT ![cpu] = <<r>> \o local_dsq[cpu]]
      /\ UNCHANGED <<shared_dsq, quanta>>
  BY DEF Preempt, Stop
<1>2. slice[r] \in 0 .. SLICE /\ SLICE \in Nat
  BY ConstantFacts DEF ScxTypeOK
<1>3. slice'[r] = slice[r] - used /\ \A q \in Tasks \ {r} : slice'[q] = slice[q]
  BY <1>1 DEF ScxTypeOK
<1> HIDE DEF used
<1>4. slice'[r] # SLICE
  BY <1>1, <1>2, <1>3
<1>5. \A p : Contains(<<r>> \o local_dsq[cpu], p) <=> Contains(local_dsq[cpu], p) \/ p = r
  BY PushQueue DEF ScxTypeOK
<1>6. ASSUME NEW c \in Cpus, NEW q \in Tasks, q # r, Contains(local_dsq'[c], q)
      PROVE  Contains(local_dsq[c], q)
  BY <1>1, <1>5, <1>6 DEF ScxTypeOK
<1>7. ASSUME NEW p \in Tasks PROVE MayOvertake(p)' \subseteq MayOvertake(p)
  <2>1. Affinity[p] \subseteq Cpus
    BY ConstantFacts
  <2>2. ASSUME NEW q \in Tasks, slice'[q] = SLICE,
               NEW c \in Affinity[p], Contains(local_dsq'[c], q)
        PROVE  slice[q] = SLICE /\ Contains(local_dsq[c], q)
    BY <1>3, <1>4, <1>6, <2>1, <2>2
  <2> QED
    BY <1>1, <2>2 DEF MayOvertake
<1> QED
  BY <1>1, <1>7 DEF InShared
=============================================================================
