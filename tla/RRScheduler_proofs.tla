------------------------- MODULE RRScheduler_proofs -------------------------
(***************************************************************************)
(* Proofs about RRScheduler, for every number of CPUs and tasks, every     *)
(* quantum and every bound on the clock.  The Dafny methods close their    *)
(* proof of ValidState(s') with `assume {:axiom}`; TypeAndValid proves it. *)
(***************************************************************************)
EXTENDS RRScheduler, TLAPS

(* Facts about the two queue operations, on any ordered queue. *)

\* An append keeps the positions it had and adds one, which holds the new element.
LEMMA AppendFacts ==
    ASSUME NEW q \in Seq(Task), NEW t \in Task
    PROVE  /\ Append(q, t) \in Seq(Task)
           /\ Len(Append(q, t)) = Len(q) + 1
           /\ Append(q, t)[Len(q) + 1] = t
           /\ \A i \in 1 .. Len(q) : Append(q, t)[i] = q[i]
OBVIOUS

\* Removing the head moves every later element one position forward.
LEMMA TailFacts ==
    ASSUME NEW q \in Seq(Task), q # << >>
    PROVE  /\ Tail(q) \in Seq(Task)
           /\ Len(Tail(q)) = Len(q) - 1
           /\ Len(q) \in Nat \ {0}
           /\ Head(q) = q[1]
           /\ Head(q) \in Task
           /\ \A i \in 1 .. Len(Tail(q)) : Tail(q)[i] = q[i + 1]
OBVIOUS

\* Dafny lemma FIFOPreservedByTailAppend.
LEMMA FIFOPreservedByTailAppend ==
    ASSUME NEW q \in Seq(Task), NEW t \in Task,
           FIFOOrdered(q), Appendable(q, t.enqueue_time)
    PROVE  FIFOOrdered(Append(q, t))
<1> SUFFICES ASSUME NEW i \in 1 .. Len(q) + 1, NEW j \in 1 .. Len(q) + 1, i < j
             PROVE  Append(q, t)[i].enqueue_time <= Append(q, t)[j].enqueue_time
  BY AppendFacts DEF FIFOOrdered
<1>1. i \in 1 .. Len(q)
  OBVIOUS
<1>2. CASE j \in 1 .. Len(q)
  BY <1>1, <1>2, AppendFacts DEF FIFOOrdered
<1>3. CASE j = Len(q) + 1
  <2>1. /\ Len(q) \in 1 .. Len(q)
        /\ q[i] \in Task
        /\ q[Len(q)] \in Task
    BY <1>1
  <2>2. /\ q[i].enqueue_time \in Nat
        /\ q[Len(q)].enqueue_time \in Nat
        /\ t.enqueue_time \in Nat
    BY <2>1 DEF Task
  <2>3. q[i].enqueue_time <= q[Len(q)].enqueue_time
    <3>1. CASE i = Len(q)
      BY <3>1, <2>2
    <3>2. CASE i < Len(q)
      BY <3>2, <2>1 DEF FIFOOrdered
    <3> QED
      BY <3>1, <3>2, <1>1
  <2>4. q[Len(q)].enqueue_time <= t.enqueue_time
    BY <2>1 DEF Appendable
  <2> QED
    BY <1>1, <1>3, <2>2, <2>3, <2>4, AppendFacts
<1> QED
  BY <1>2, <1>3

\* Dafny lemma FIFOPreservedByHeadRemoval.
LEMMA FIFOPreservedByHeadRemoval ==
    ASSUME NEW q \in Seq(Task), q # << >>, FIFOOrdered(q)
    PROVE  FIFOOrdered(Tail(q))
BY TailFacts DEF FIFOOrdered

\* A well-formed queue stays so when a task stamped with the current time is
\* appended (Enqueue and ReEnqueue stamp before they append).
LEMMA QueueAppend ==
    ASSUME NEW q \in Seq(Task), NEW known, NEW now \in Nat, NEW t \in Task,
           QueueOK(q, known, now), ValidTask(t), t.state = "Runnable",
           t.enqueue_time = now
    PROVE  QueueOK(Append(q, t), known \cup {t}, now + 1)
<1> DEFINE r == Append(q, t)
<1>1. Appendable(q, t.enqueue_time)
  <2>1. CASE q = << >>
    BY <2>1 DEF Appendable
  <2>2. CASE q # << >>
    <3>1. Len(q) \in 1 .. Len(q) /\ q[Len(q)] \in Task
      BY <2>2
    <3>2. q[Len(q)].enqueue_time \in Nat
      BY <3>1 DEF Task
    <3> QED
      BY <3>1, <3>2 DEF QueueOK, Appendable
  <2> QED
    BY <2>1, <2>2
<1>2. FIFOOrdered(r)
  BY <1>1, FIFOPreservedByTailAppend DEF QueueOK
<1>3. ASSUME NEW i \in 1 .. Len(r)
      PROVE  /\ ValidTask(r[i])
             /\ r[i].state = "Runnable"
             /\ r[i] \in known \cup {t}
             /\ r[i].enqueue_time < now + 1
  <2>1. CASE i \in 1 .. Len(q)
    <3>1. r[i] = q[i] /\ q[i] \in Task
      BY <2>1, AppendFacts
    <3>2. q[i].enqueue_time \in Nat /\ q[i].enqueue_time < now
      BY <2>1, <3>1 DEF QueueOK, Task
    <3> QED
      BY <2>1, <3>1, <3>2 DEF QueueOK
  <2>2. CASE i = Len(q) + 1
    BY <2>2, AppendFacts
  <2> QED
    BY <2>1, <2>2, AppendFacts
<1> QED
  BY <1>2, <1>3 DEF QueueOK

\* A well-formed queue stays so when its head is dispatched.
LEMMA QueueTail ==
    ASSUME NEW q \in Seq(Task), NEW known, NEW now \in Nat, q # << >>,
           QueueOK(q, known, now)
    PROVE  QueueOK(Tail(q), known, now + 1) /\ SlotOK(Head(q), known)
<1>1. FIFOOrdered(Tail(q))
  BY FIFOPreservedByHeadRemoval DEF QueueOK
<1>2. ASSUME NEW i \in 1 .. Len(Tail(q))
      PROVE  /\ ValidTask(Tail(q)[i])
             /\ Tail(q)[i].state = "Runnable"
             /\ Tail(q)[i] \in known
             /\ Tail(q)[i].enqueue_time < now + 1
  <2>1. i + 1 \in 1 .. Len(q) /\ Tail(q)[i] = q[i + 1] /\ q[i + 1] \in Task
    BY TailFacts
  <2>2. q[i + 1].enqueue_time \in Nat /\ q[i + 1].enqueue_time < now
    BY <2>1 DEF QueueOK, Task
  <2> QED
    BY <2>1, <2>2 DEF QueueOK
<1>3. SlotOK(Head(q), known)
  BY TailFacts DEF QueueOK, SlotOK
<1> QED
  BY <1>1, <1>2, <1>3 DEF QueueOK

\* Time passing and new registrations leave the other queues and slots well-formed.
LEMMA QueueMonotonic ==
    ASSUME NEW q \in Seq(Task), NEW known, NEW more, known \subseteq more,
           NEW now \in Nat, QueueOK(q, known, now)
    PROVE  QueueOK(q, more, now + 1)
<1>1. \A i \in 1 .. Len(q) : q[i] \in Task
  OBVIOUS
<1>2. \A i \in 1 .. Len(q) : q[i].enqueue_time \in Nat
  BY <1>1 DEF Task
<1> QED
  BY <1>2 DEF QueueOK

\* The record refreshed_task builds: same pid, runnable, stamped with the time.
LEMMA RefreshedFacts ==
    ASSUME NEW t \in Task, NEW now \in Nat, ValidTask(t), t.state = "Runnable"
    PROVE  /\ Refreshed(t, now) \in Task
           /\ ValidTask(Refreshed(t, now))
           /\ Refreshed(t, now).state = "Runnable"
           /\ Refreshed(t, now).enqueue_time = now
<1> DEFINE r == Refreshed(t, now)
<1>1. TIME_QUANTUM \in Nat
  BY ConstantsAssumption DEF ConstantsAssumption
<1>2. r \in Task
  BY <1>1 DEF Refreshed, Task
<1>3. /\ r.pid = t.pid
      /\ r.state = t.state
      /\ r.cpu_affinity = t.cpu_affinity
      /\ r.enqueue_time = now
      /\ r.remaining_slice = TIME_QUANTUM
  BY DEF Refreshed, Task
<1> QED
  BY <1>1, <1>2, <1>3 DEF ValidTask

-----------------------------------------------------------------------------

\* The inductive invariant holds when the scheduler starts.
LEMMA InitIInv == Init => IInv
<1> SUFFICES ASSUME Init
             PROVE  IInv
  OBVIOUS
<1>1. TypeOK
  BY DEF Init, TypeOK
<1>2. \A cpu \in Cpus : run_queues[cpu] = << >> /\ current[cpu] = None
  BY DEF Init
<1>3. \A cpu \in Cpus : QueueOK(run_queues[cpu], all_tasks, clock)
  BY <1>2 DEF QueueOK, FIFOOrdered
<1>4. \A cpu \in Cpus : SlotOK(current[cpu], all_tasks)
  BY <1>2 DEF SlotOK
<1>5. \A cpu \in Cpus : cpu < NUM_CPUS
  BY DEF Init, ValidState, WellFormed
<1> QED
  BY <1>1, <1>3, <1>4, <1>5 DEF IInv

\* The part of Enqueue and ReEnqueue that is the same: a valid runnable task,
\* stamped, goes to the tail of one queue.
LEMMA AppendStep ==
    ASSUME IInv, NEW t \in Task, ValidTask(t), t.state = "Runnable",
           NEW cpu \in Cpus, AppendTask(Refreshed(t, clock), cpu)
    PROVE  /\ run_queues' \in [Cpus -> Seq(Task)]
           /\ all_tasks' \in SUBSET Task
           /\ clock' \in Nat
           /\ active_cpus' \in SUBSET Cpus
           /\ \A c \in Cpus : QueueOK(run_queues'[c], all_tasks', clock')
           /\ all_tasks \subseteq all_tasks'
<1> DEFINE r == Refreshed(t, clock)
<1>1. /\ run_queues \in [Cpus -> Seq(Task)]
      /\ all_tasks \in SUBSET Task
      /\ clock \in Nat
      /\ active_cpus \in SUBSET Cpus
  BY DEF IInv, TypeOK
<1>2. /\ r \in Task
      /\ ValidTask(r)
      /\ r.state = "Runnable"
      /\ r.enqueue_time = clock
  BY <1>1, RefreshedFacts
<1> HIDE DEF r
<1>3. /\ run_queues' = [run_queues EXCEPT ![cpu] = Append(run_queues[cpu], r)]
      /\ all_tasks' = all_tasks \cup {r}
      /\ clock' = clock + 1
      /\ active_cpus' = active_cpus
  BY DEF AppendTask, r
<1>4. Append(run_queues[cpu], r) \in Seq(Task)
  BY <1>1, <1>2
<1>5. ASSUME NEW c \in Cpus
      PROVE  QueueOK(run_queues'[c], all_tasks', clock')
  <2>1. run_queues[c] \in Seq(Task) /\ QueueOK(run_queues[c], all_tasks, clock)
    BY <1>1 DEF IInv
  <2>2. CASE c = cpu
    <3>1. run_queues'[c] = Append(run_queues[c], r)
      BY <1>1, <1>3, <2>2
    <3> QED
      BY <1>1, <1>2, <1>3, <2>1, <3>1, QueueAppend
  <2>3. CASE c # cpu
    <3>1. run_queues'[c] = run_queues[c]
      BY <1>1, <1>3, <2>3
    <3>2. all_tasks \subseteq all_tasks'
      BY <1>3
    <3> QED
      BY <1>1, <1>3, <2>1, <3>1, <3>2, QueueMonotonic
  <2> QED
    BY <2>2, <2>3
<1>6. run_queues' \in [Cpus -> Seq(Task)]
  BY <1>1, <1>3, <1>4
<1>7. all_tasks' \in SUBSET Task /\ clock' \in Nat /\ all_tasks \subseteq all_tasks'
  BY <1>1, <1>2, <1>3
<1> QED
  BY <1>1, <1>3, <1>5, <1>6, <1>7

\* The part of a Dispatch that is the same on an empty queue and on another CPU.
LEMMA IdleStep ==
    ASSUME IInv, clock' = clock + 1, all_tasks' = all_tasks,
           NEW c \in Cpus, run_queues'[c] = run_queues[c]
    PROVE  QueueOK(run_queues'[c], all_tasks', clock')
<1>1. run_queues[c] \in Seq(Task) /\ clock \in Nat
  BY DEF IInv, TypeOK
<1>2. QueueOK(run_queues[c], all_tasks, clock)
  BY DEF IInv
<1> QED
  BY <1>1, <1>2, QueueMonotonic

\* Every call of a method, and the block of a task, keeps the inductive invariant.
LEMMA NextIInv == IInv /\ [Next]_vars => IInv'
<1> SUFFICES ASSUME IInv, [Next]_vars
             PROVE  IInv'
  OBVIOUS
<1>t. /\ run_queues \in [Cpus -> Seq(Task)]
      /\ all_tasks \in SUBSET Task
      /\ clock \in Nat
      /\ active_cpus \in SUBSET Cpus
      /\ current \in [Cpus -> Task \cup {None}]
  BY DEF IInv, TypeOK
<1>c. \A c \in Cpus : c < NUM_CPUS
  BY DEF IInv
<1>s. \A c \in Cpus : SlotOK(current[c], all_tasks)
  BY DEF IInv
<1>1. ASSUME NEW cpu \in Cpus, NEW t \in Wakeable, Enqueue(t, cpu)
      PROVE  IInv'
  <2>1. t \in Task /\ ValidTask(t) /\ t.state = "Runnable"
    BY <1>1, WakeableAssumption DEF WakeableAssumption, Enqueue
  <2>2. AppendTask(Refreshed(t, clock), cpu) /\ current' = current
    BY <1>1 DEF Enqueue
  <2>3. \A c \in Cpus : SlotOK(current'[c], all_tasks')
    BY <1>s, <2>1, <2>2, AppendStep DEF SlotOK
  <2> QED
    BY <1>t, <1>c, <2>1, <2>2, <2>3, AppendStep DEF IInv, TypeOK
<1>2. ASSUME NEW cpu \in Cpus, Dispatch(cpu), DispatchEmpty(cpu)
      PROVE  IInv'
  <2>1. \A c \in Cpus : QueueOK(run_queues'[c], all_tasks', clock')
    BY <1>2, IdleStep DEF DispatchEmpty
  <2> QED
    BY <1>t, <1>c, <1>s, <1>2, <2>1 DEF DispatchEmpty, IInv, TypeOK
<1>3. ASSUME NEW cpu \in Cpus, Dispatch(cpu), DispatchHead(cpu)
      PROVE  IInv'
  <2> DEFINE q == run_queues[cpu]
  <2>1. /\ q # << >>
        /\ run_queues' = [run_queues EXCEPT ![cpu] = Tail(q)]
        /\ clock' = clock + 1
        /\ current' = [current EXCEPT ![cpu] = Head(q)]
        /\ all_tasks' = all_tasks
        /\ active_cpus' = active_cpus
    BY <1>3 DEF DispatchHead
  <2>2. q \in Seq(Task) /\ QueueOK(q, all_tasks, clock)
    BY <1>t DEF IInv
  <2>3. /\ Tail(q) \in Seq(Task)
        /\ Head(q) \in Task
        /\ QueueOK(Tail(q), all_tasks, clock + 1)
        /\ SlotOK(Head(q), all_tasks)
    BY <1>t, <2>1, <2>2, TailFacts, QueueTail
  <2> HIDE DEF q
  <2>4. ASSUME NEW c \in Cpus
        PROVE  QueueOK(run_queues'[c], all_tasks', clock')
    <3>1. CASE c = cpu
      BY <1>t, <2>1, <2>3, <3>1
    <3>2. CASE c # cpu
      BY <1>t, <2>1, <3>2, IdleStep
    <3> QED
      BY <3>1, <3>2
  <2>5. \A c \in Cpus : SlotOK(current'[c], all_tasks')
    BY <1>t, <1>s, <2>1, <2>3
  <2> QED
    BY <1>t, <1>c, <2>1, <2>3, <2>4, <2>5 DEF IInv, TypeOK
<1>4. ASSUME NEW cpu \in Cpus, ReEnqueue(cpu)
      PROVE  IInv'
  <2> DEFINE t == current[cpu]
  <2>1. t \in Task /\ ValidTask(t) /\ t.state = "Runnable"
    BY <1>t, <1>4 DEF ReEnqueue
  <2>2. /\ AppendTask(Refreshed(t, clock), cpu)
        /\ current' = [current EXCEPT ![cpu] = None]
    BY <1>4 DEF ReEnqueue
  <2> HIDE DEF t
  <2>3. \A c \in Cpus : SlotOK(current'[c], all_tasks')
    BY <1>t, <1>s, <2>1, <2>2, AppendStep DEF SlotOK
  <2> QED
    BY <1>t, <1>c, <2>1, <2>2, <2>3, AppendStep DEF IInv, TypeOK
<1>5. ASSUME NEW cpu \in Cpus, Block(cpu)
      PROVE  IInv'
  <2>1. \A c \in Cpus : SlotOK(current'[c], all_tasks')
    BY <1>t, <1>s, <1>5 DEF Block, schedVars, SlotOK
  <2> QED
    BY <1>t, <1>c, <1>5, <2>1 DEF Block, schedVars, IInv, TypeOK
<1>6. CASE UNCHANGED vars
  BY <1>6 DEF vars, IInv, TypeOK
<1> QED
  BY <1>1, <1>2, <1>3, <1>4, <1>5, <1>6 DEF Next, Dispatch

\* The inductive invariant holds in every reachable state.
THEOREM Invariance == Spec => []IInv
BY InitIInv, NextIInv, PTL DEF Spec

\* Dafny's ValidState, assumed there after every method, holds in every reachable
\* state, and with it the types of all variables.
THEOREM TypeAndValid == Spec => [](TypeOK /\ ValidState)
<1>1. IInv => TypeOK /\ ValidState
  <2> SUFFICES ASSUME IInv
               PROVE  TypeOK /\ ValidState
    OBVIOUS
  <2>1. \A cpu \in Cpus : \A i \in 1 .. Len(run_queues[cpu]) : ValidTask(run_queues[cpu][i])
    BY DEF IInv, QueueOK
  <2> QED
    BY <2>1 DEF IInv, TypeOK, ValidState, WellFormed
<1> QED
  BY <1>1, Invariance, PTL

\* The variables keep their types.
THEOREM TypeCorrect == Spec => []TypeOK
<1>1. IInv => TypeOK
  BY DEF IInv
<1> QED
  BY <1>1, Invariance, PTL

\* Each run queue stays in enqueue-time order (the SafetyInvariant of the Dafny
\* specification), for any number of CPUs and any interleaving of their calls.
THEOREM FIFOAlways == Spec => []FIFOInvariant
<1>1. IInv => FIFOInvariant
  BY DEF IInv, QueueOK, FIFOInvariant
<1> QED
  BY <1>1, Invariance, PTL

\* A record stamped with the current time may join any queue without breaking its order.
LEMMA IInvAppendable ==
    ASSUME IInv, NEW cpu \in Cpus
    PROVE  Appendable(run_queues[cpu], clock)
<1> DEFINE q == run_queues[cpu]
<1>1. q \in Seq(Task) /\ clock \in Nat /\ QueueOK(q, all_tasks, clock)
  BY DEF IInv, TypeOK
<1> HIDE DEF q
<1>2. CASE q = << >>
  BY <1>2 DEF Appendable, q
<1>3. CASE q # << >>
  <2>1. Len(q) \in 1 .. Len(q) /\ q[Len(q)] \in Task
    BY <1>1, <1>3
  <2>2. q[Len(q)].enqueue_time \in Nat /\ q[Len(q)].enqueue_time < clock
    BY <1>1, <2>1 DEF QueueOK, Task
  <2> QED
    BY <1>1, <2>2 DEF Appendable, q
<1> QED
  BY <1>2, <1>3

\* No call is ever made outside the `requires` clauses of the Dafny methods: the
\* caller's life cycle is enough to establish all of them.
THEOREM CallsAlwaysLegal == Spec => []CallsAreLegal
<1>1. IInv => CallsAreLegal
  <2> SUFFICES ASSUME IInv, NEW cpu \in active_cpus
               PROVE  /\ FIFOOrdered(run_queues[cpu])
                      /\ AllRunnable(run_queues[cpu])
                      /\ Appendable(run_queues[cpu], clock)
                      /\ current[cpu] # None => /\ ValidTask(current[cpu])
                                                /\ current[cpu].state = "Runnable"
    BY DEF CallsAreLegal
  <2>1. cpu \in Cpus
    BY DEF IInv, TypeOK
  <2>2. QueueOK(run_queues[cpu], all_tasks, clock) /\ SlotOK(current[cpu], all_tasks)
    BY <2>1 DEF IInv
  <2> QED
    BY <2>1, <2>2, IInvAppendable DEF QueueOK, SlotOK, AllRunnable
<1> QED
  BY <1>1, Invariance, PTL

\* Waiting and running records are registered, waiting ones in the past.
THEOREM HeldAlwaysRegistered == Spec => []HeldAreRegistered
<1>1. IInv => HeldAreRegistered
  BY DEF IInv, QueueOK, SlotOK, HeldAreRegistered
<1> QED
  BY <1>1, Invariance, PTL

-----------------------------------------------------------------------------

(* The refinement of refinement_proof.dfy, under the identity map. *)

\* The initial state is an initial state of the abstract scheduler.
LEMMA InitRefines == Init => Abstract!Init
BY DEF Init, Abstract!Init, ValidState, Abstract!ValidState,
       WellFormed, Abstract!WellFormed, ValidTask, Abstract!ValidTask

\* The inductive invariant implies the validity the abstract methods require.
LEMMA IInvValid == IInv => Abstract!ValidState
<1> SUFFICES ASSUME IInv
             PROVE  Abstract!ValidState
  OBVIOUS
<1>1. ASSUME NEW cpu \in Cpus, NEW i \in 1 .. Len(run_queues[cpu])
      PROVE  Abstract!ValidTask(run_queues[cpu][i])
  BY DEF IInv, QueueOK, ValidTask, Abstract!ValidTask
<1> QED
  BY <1>1 DEF IInv, TypeOK, Abstract!ValidState, Abstract!WellFormed

\* An append of a refreshed record is an abstract Enqueue or re-Enqueue.
LEMMA AppendRefines ==
    ASSUME IInv, Abstract!ValidState', NEW t \in Wakeable \cup all_tasks,
           ValidTask(t), t.state = "Runnable",
           NEW cpu \in active_cpus, AppendTask(Refreshed(t, clock), cpu)
    PROVE  Abstract!Next
<1>1. cpu \in Cpus
  BY DEF IInv, TypeOK
<1>2. Appendable(run_queues[cpu], clock)
  BY <1>1, IInvAppendable
<1>3. Abstract!Enqueue(t, cpu)
  BY <1>2, IInvValid
  DEF AppendTask, Appendable, Refreshed, ValidTask, Abstract!Enqueue,
      Abstract!Appendable, Abstract!Refreshed, Abstract!ValidTask
<1> QED
  BY <1>1, <1>3 DEF Abstract!Next, Abstract!Enqueueable

\* Every step is an abstract step or leaves the abstract state as it was.
LEMMA NextRefines ==
    IInv /\ Abstract!ValidState' /\ [Next]_vars => [Abstract!Next]_(Abstract!vars)
<1> SUFFICES ASSUME IInv, Abstract!ValidState', [Next]_vars
             PROVE  Abstract!Next \/ UNCHANGED Abstract!vars
  OBVIOUS
<1>t. /\ run_queues \in [Cpus -> Seq(Task)]
      /\ all_tasks \in SUBSET Task
      /\ clock \in Nat
      /\ active_cpus \in SUBSET Cpus
      /\ current \in [Cpus -> Task \cup {None}]
  BY DEF IInv, TypeOK
<1>v. Abstract!ValidState
  BY IInvValid
<1>1. ASSUME NEW cpu \in Cpus, NEW t \in Wakeable, Enqueue(t, cpu)
      PROVE  Abstract!Next
  BY <1>1, AppendRefines DEF Enqueue
<1>2. ASSUME NEW cpu \in Cpus, Dispatch(cpu), DispatchEmpty(cpu)
      PROVE  Abstract!Next
  <2>1. Abstract!Dispatch(cpu, None)
    BY <1>t, <1>v, <1>2 DEF Dispatch, DispatchEmpty, Abstract!Dispatch, Task, Abstract!Task,
       TaskState, Abstract!TaskState
  <2> QED
    BY <2>1 DEF Abstract!Next
<1>3. ASSUME NEW cpu \in Cpus, Dispatch(cpu), DispatchHead(cpu)
      PROVE  Abstract!Next
  <2> DEFINE q == run_queues[cpu]
  <2>1. q \in Seq(Task) /\ q # << >> /\ QueueOK(q, all_tasks, clock)
    BY <1>t, <1>3 DEF DispatchHead, IInv
  <2>2. /\ Head(q) \in Task
        /\ Head(q) = q[1]
        /\ 1 \in 1 .. Len(q)
        /\ Head(q).state = "Runnable"
    BY <2>1, TailFacts DEF QueueOK
  <2>3. Head(q) # None
    BY <2>2, NoneAssumption DEF NoneAssumption
  <2>4. /\ run_queues' = [run_queues EXCEPT ![cpu] = Tail(q)]
        /\ clock' = clock + 1
        /\ all_tasks' = all_tasks
        /\ cpu \in active_cpus
    BY <1>3 DEF Dispatch, DispatchHead
  <2>5. all_tasks' \in SUBSET Abstract!Task
    BY <1>t, <2>4 DEF Task, Abstract!Task, TaskState, Abstract!TaskState
  <2>6. Abstract!Dispatch(cpu, Head(q))
    BY <1>v, <2>1, <2>2, <2>3, <2>4, <2>5 DEF Abstract!Dispatch
  <2>7. Head(q) \in Abstract!Queued(cpu)
    BY <2>2 DEF Abstract!Queued
  <2> QED
    BY <2>6, <2>7 DEF Abstract!Next
<1>4. ASSUME NEW cpu \in Cpus, ReEnqueue(cpu)
      PROVE  Abstract!Next
  <2>1. current[cpu] \in all_tasks
    BY <1>4 DEF ReEnqueue, IInv, SlotOK
  <2> QED
    BY <1>4, <2>1, AppendRefines DEF ReEnqueue
<1>5. ASSUME NEW cpu \in Cpus, Block(cpu)
      PROVE  UNCHANGED Abstract!vars
  BY <1>5 DEF Block, schedVars, Abstract!vars
<1>6. CASE UNCHANGED vars
  BY <1>6 DEF vars, Abstract!vars
<1> QED
  BY <1>1, <1>2, <1>3, <1>4, <1>5, <1>6 DEF Next, Dispatch

\* Every behaviour of the concrete scheduler is one of the abstract scheduler:
\* tail append and head removal are its Enqueue and Dispatch, ReEnqueue is an
\* Enqueue of a registered task, and a block is no step at all.
THEOREM Refinement == Spec => RefinesAbstract
<1>1. Init => Abstract!Init
  BY InitRefines
<1>2. IInv => Abstract!ValidState
  BY IInvValid
<1>3. IInv /\ Abstract!ValidState' /\ [Next]_vars => [Abstract!Next]_(Abstract!vars)
  BY NextRefines
<1> QED
  BY <1>1, <1>2, <1>3, Invariance, PTL DEF Spec, RefinesAbstract, Abstract!Spec

-----------------------------------------------------------------------------

(* OnePlace: the guard of Enqueue and the hand-over between a queue's head  *)
(* and the running slot keep every pid in at most one place.                *)

\* After an append, a position holds what it held, or is the new tail.
LEMMA AppendPositions ==
    ASSUME TypeOK, NEW t \in Task, NEW cpu \in Cpus, AppendTask(t, cpu),
           NEW c \in Cpus, NEW i \in 1 .. Len(run_queues'[c])
    PROVE  \/ /\ i \in 1 .. Len(run_queues[c])
              /\ run_queues'[c][i] = run_queues[c][i]
           \/ /\ c = cpu
              /\ i = Len(run_queues[cpu]) + 1
              /\ run_queues'[c][i] = t
<1>1. /\ run_queues \in [Cpus -> Seq(Task)]
      /\ run_queues' = [run_queues EXCEPT ![cpu] = Append(run_queues[cpu], t)]
  BY DEF TypeOK, AppendTask
<1>2. CASE c = cpu
  <2>1. run_queues'[c] = Append(run_queues[c], t) /\ run_queues[c] \in Seq(Task)
    BY <1>1, <1>2
  <2> QED
    BY <1>2, <2>1, AppendFacts
<1>3. CASE c # cpu
  BY <1>1, <1>3
<1> QED
  BY <1>2, <1>3

\* After a removal of the head, a position holds what the next one held.
LEMMA TailPositions ==
    ASSUME TypeOK, NEW cpu \in Cpus, run_queues[cpu] # << >>,
           run_queues' = [run_queues EXCEPT ![cpu] = Tail(run_queues[cpu])],
           NEW c \in Cpus, NEW i \in 1 .. Len(run_queues'[c])
    PROVE  LET k == IF c = cpu THEN i + 1 ELSE i IN
           /\ k \in 1 .. Len(run_queues[c])
           /\ run_queues'[c][i] = run_queues[c][k]
<1>1. run_queues[c] \in Seq(Task) /\ run_queues \in [Cpus -> Seq(Task)]
  BY DEF TypeOK
<1>2. CASE c = cpu
  <2>1. run_queues'[c] = Tail(run_queues[c]) /\ run_queues[c] # << >>
    BY <1>1, <1>2
  <2> QED
    BY <1>1, <1>2, <2>1, TailFacts
<1>3. CASE c # cpu
  BY <1>1, <1>3
<1> QED
  BY <1>2, <1>3

\* An append of a task that no queue holds, and that no slot holds afterwards.
LEMMA OnePlaceAppend ==
    ASSUME TypeOK, OnePlace, NEW t \in Task, NEW cpu \in Cpus, AppendTask(t, cpu),
           \A c \in Cpus : \A i \in 1 .. Len(run_queues[c]) : run_queues[c][i].pid # t.pid,
           \A c \in Cpus : current'[c] # None =>
                /\ current'[c] = current[c]
                /\ current[c].pid # t.pid
    PROVE  OnePlace'
<1> SUFFICES ASSUME NEW c \in Cpus, NEW d \in Cpus
             PROVE  /\ \A i \in 1 .. Len(run_queues'[c]), j \in 1 .. Len(run_queues'[d]) :
                          run_queues'[c][i].pid = run_queues'[d][j].pid => c = d /\ i = j
                    /\ current'[c] # None =>
                          /\ \A j \in 1 .. Len(run_queues'[d]) :
                                 run_queues'[d][j].pid # current'[c].pid
                          /\ current'[d] # None /\ current'[d].pid = current'[c].pid => c = d
  BY DEF OnePlace
<1>1. ASSUME NEW i \in 1 .. Len(run_queues'[c]), NEW j \in 1 .. Len(run_queues'[d]),
             run_queues'[c][i].pid = run_queues'[d][j].pid
      PROVE  c = d /\ i = j
  <2>1. CASE i \in 1 .. Len(run_queues[c]) /\ run_queues'[c][i] = run_queues[c][i]
    <3>1. j \in 1 .. Len(run_queues[d]) /\ run_queues'[d][j] = run_queues[d][j]
      BY <1>1, <2>1, AppendPositions
    <3> QED
      BY <1>1, <2>1, <3>1 DEF OnePlace
  <2>2. CASE c = cpu /\ i = Len(run_queues[cpu]) + 1 /\ run_queues'[c][i] = t
    <3>1. d = cpu /\ j = Len(run_queues[cpu]) + 1
      BY <1>1, <2>2, AppendPositions
    <3> QED
      BY <2>2, <3>1
  <2> QED
    BY <2>1, <2>2, AppendPositions
<1>2. ASSUME current'[c] # None, NEW j \in 1 .. Len(run_queues'[d])
      PROVE  run_queues'[d][j].pid # current'[c].pid
  <2>1. CASE j \in 1 .. Len(run_queues[d]) /\ run_queues'[d][j] = run_queues[d][j]
    BY <1>2, <2>1 DEF OnePlace
  <2>2. CASE run_queues'[d][j] = t
    BY <1>2, <2>2
  <2> QED
    BY <2>1, <2>2, AppendPositions
<1>3. ASSUME current'[c] # None, current'[d] # None, current'[d].pid = current'[c].pid
      PROVE  c = d
  BY <1>3 DEF OnePlace
<1> QED
  BY <1>1, <1>2, <1>3

\* A dispatch moves the head of a queue to the slot, so it stays in one place.
LEMMA OnePlaceDispatch ==
    ASSUME TypeOK, OnePlace, NEW cpu \in Cpus, DispatchHead(cpu)
    PROVE  OnePlace'
<1> DEFINE k(c, i) == IF c = cpu THEN i + 1 ELSE i
<1>1. /\ run_queues[cpu] # << >>
      /\ run_queues' = [run_queues EXCEPT ![cpu] = Tail(run_queues[cpu])]
      /\ current' = [current EXCEPT ![cpu] = Head(run_queues[cpu])]
  BY DEF DispatchHead
<1>2. /\ run_queues[cpu] \in Seq(Task)
      /\ current \in [Cpus -> Task \cup {None}]
  BY DEF TypeOK
<1>3. 1 \in 1 .. Len(run_queues[cpu]) /\ Head(run_queues[cpu]) = run_queues[cpu][1]
  BY <1>1, <1>2, TailFacts
<1>4. \A c \in Cpus : \A i \in 1 .. Len(run_queues'[c]) :
         /\ k(c, i) \in 1 .. Len(run_queues[c])
         /\ run_queues'[c][i] = run_queues[c][k(c, i)]
         /\ i \in Nat \ {0}
  <2> SUFFICES ASSUME NEW c \in Cpus, NEW i \in 1 .. Len(run_queues'[c])
               PROVE  /\ k(c, i) \in 1 .. Len(run_queues[c])
                      /\ run_queues'[c][i] = run_queues[c][k(c, i)]
                      /\ i \in Nat \ {0}
    OBVIOUS
  <2>1. i \in Nat \ {0}
    OBVIOUS
  <2> QED
    BY <1>1, <2>1, TailPositions, ZenonT(60)
<1>5. \A c \in Cpus : current'[c] = IF c = cpu THEN run_queues[cpu][1] ELSE current[c]
  BY <1>1, <1>2, <1>3
<1>6. ASSUME NEW c \in Cpus, NEW d \in Cpus,
             NEW i \in 1 .. Len(run_queues'[c]), NEW j \in 1 .. Len(run_queues'[d]),
             run_queues'[c][i].pid = run_queues'[d][j].pid
      PROVE  c = d /\ i = j
  <2> DEFINE x == k(c, i)
             y == k(d, j)
  <2>0. /\ x \in 1 .. Len(run_queues[c]) /\ run_queues'[c][i] = run_queues[c][x]
        /\ y \in 1 .. Len(run_queues[d]) /\ run_queues'[d][j] = run_queues[d][y]
    BY <1>4
  <2> HIDE DEF x, y
  <2>3. c = d /\ x = y
    BY <1>6, <2>0 DEF OnePlace
  <2>1. c = d /\ k(c, i) = k(d, j)
    BY <2>3 DEF x, y
  <2>2. i \in Nat /\ j \in Nat
    OBVIOUS
  <2> QED
    BY <2>1, <2>2
<1>7. ASSUME NEW c \in Cpus, NEW d \in Cpus, current'[c] # None,
             NEW j \in 1 .. Len(run_queues'[d])
      PROVE  run_queues'[d][j].pid # current'[c].pid
  <2>1. CASE c = cpu
    <3>1. SUFFICES ASSUME run_queues[d][k(d, j)].pid = run_queues[cpu][1].pid
                   PROVE  FALSE
      BY <1>4, <1>5, <2>1
    <3>2. d = cpu /\ k(d, j) = 1
      BY <1>3, <1>4, <3>1 DEF OnePlace
    <3>3. j \in Nat \ {0}
      BY <1>4
    <3> QED
      BY <3>2, <3>3
  <2>2. CASE c # cpu
    <3> DEFINE y == k(d, j)
    <3>1. y \in 1 .. Len(run_queues[d]) /\ run_queues'[d][j] = run_queues[d][y]
      BY <1>4
    <3> HIDE DEF y
    <3>2. current'[c] = current[c]
      BY <1>5, <2>2
    <3> QED
      BY <1>7, <3>1, <3>2 DEF OnePlace
  <2> QED
    BY <2>1, <2>2
<1>8. ASSUME NEW c \in Cpus, NEW d \in Cpus, current'[c] # None, current'[d] # None,
             current'[d].pid = current'[c].pid
      PROVE  c = d
  <2>1. CASE c # cpu /\ d # cpu
    BY <1>5, <1>8, <2>1 DEF OnePlace
  <2>2. CASE c = cpu /\ d # cpu
    BY <1>3, <1>5, <1>8, <2>2 DEF OnePlace
  <2>3. CASE c # cpu /\ d = cpu
    BY <1>3, <1>5, <1>8, <2>3 DEF OnePlace
  <2> QED
    BY <2>1, <2>2, <2>3
<1> HIDE DEF k
<1> QED
  BY <1>6, <1>7, <1>8 DEF OnePlace

\* Every step keeps each pid in at most one place.
LEMMA NextOnePlace == IInv /\ OnePlace /\ [Next]_vars => OnePlace'
<1> SUFFICES ASSUME IInv, OnePlace, [Next]_vars
             PROVE  OnePlace'
  OBVIOUS
<1>t. TypeOK
  BY DEF IInv
<1>c. current \in [Cpus -> Task \cup {None}] /\ clock \in Nat
  BY <1>t DEF TypeOK
<1>1. ASSUME NEW cpu \in Cpus, NEW t \in Wakeable, Enqueue(t, cpu)
      PROVE  OnePlace'
  <2>1. t \in Task /\ ValidTask(t) /\ t.state = "Runnable"
    BY <1>1, WakeableAssumption DEF WakeableAssumption, Enqueue
  <2>2. /\ AppendTask(Refreshed(t, clock), cpu)
        /\ current' = current
        /\ ~Held(t.pid)
    BY <1>1 DEF Enqueue
  <2>3. Refreshed(t, clock) \in Task /\ Refreshed(t, clock).pid = t.pid
    BY <1>c, <2>1, RefreshedFacts DEF Refreshed, Task
  <2> QED
    BY <1>t, <2>2, <2>3, OnePlaceAppend DEF Held
<1>2. ASSUME NEW cpu \in Cpus, Dispatch(cpu), DispatchEmpty(cpu)
      PROVE  OnePlace'
  BY <1>2 DEF DispatchEmpty, OnePlace
<1>3. ASSUME NEW cpu \in Cpus, Dispatch(cpu), DispatchHead(cpu)
      PROVE  OnePlace'
  BY <1>t, <1>3, OnePlaceDispatch
<1>4. ASSUME NEW cpu \in Cpus, ReEnqueue(cpu)
      PROVE  OnePlace'
  <2> DEFINE t == current[cpu]
  <2>1. /\ t # None
        /\ t \in Task
        /\ ValidTask(t)
        /\ t.state = "Runnable"
    BY <1>c, <1>4 DEF ReEnqueue
  <2>2. /\ AppendTask(Refreshed(t, clock), cpu)
        /\ current' = [current EXCEPT ![cpu] = None]
    BY <1>4 DEF ReEnqueue
  <2>3. Refreshed(t, clock) \in Task /\ Refreshed(t, clock).pid = t.pid
    BY <1>c, <2>1, RefreshedFacts DEF Refreshed, Task
  <2>4. \A c \in Cpus : \A i \in 1 .. Len(run_queues[c]) : run_queues[c][i].pid # t.pid
    BY <2>1 DEF OnePlace
  <2>5. \A c \in Cpus : current'[c] # None => /\ current'[c] = current[c]
                                             /\ current[c].pid # t.pid
    BY <1>c, <2>1, <2>2 DEF OnePlace
  <2> HIDE DEF t
  <2> QED
    BY <1>t, <2>2, <2>3, <2>4, <2>5, OnePlaceAppend
<1>5. ASSUME NEW cpu \in Cpus, Block(cpu)
      PROVE  OnePlace'
  <2>1. run_queues' = run_queues /\ current' = [current EXCEPT ![cpu] = None]
    BY <1>5 DEF Block, schedVars
  <2>2. \A c \in Cpus : current'[c] # None => current'[c] = current[c]
    BY <1>c, <2>1
  <2> QED
    BY <2>1, <2>2 DEF OnePlace
<1>6. CASE UNCHANGED vars
  BY <1>6 DEF vars, OnePlace
<1> QED
  BY <1>1, <1>2, <1>3, <1>4, <1>5, <1>6 DEF Next, Dispatch

\* A pid is never waiting twice, running twice, or waiting while it runs.
THEOREM OnePlaceAlways == Spec => []OnePlace
<1>1. Init => OnePlace
  BY DEF Init, OnePlace
<1>2. IInv /\ OnePlace /\ [Next]_vars => OnePlace'
  BY NextOnePlace
<1> QED
  BY <1>1, <1>2, Invariance, PTL DEF Spec

-----------------------------------------------------------------------------

(* NeverOvertaken.  The records of a queue are distinct (OnePlace), and the *)
(* one an append adds is new (its enqueue time is the clock), so a record   *)
(* is found again where it was, or one place nearer the head.               *)

\* A pid is at one place of a queue.
LEMMA SamePlace ==
    ASSUME OnePlace, NEW c \in Cpus,
           NEW i \in 1 .. Len(run_queues[c]), NEW j \in 1 .. Len(run_queues[c]),
           run_queues[c][i].pid = run_queues[c][j].pid
    PROVE  i = j
<1>1. \A d \in Cpus : \A x \in 1 .. Len(run_queues[c]), y \in 1 .. Len(run_queues[d]) :
         run_queues[c][x].pid = run_queues[d][y].pid => c = d /\ x = y
  BY DEF OnePlace
<1>2. \A x \in 1 .. Len(run_queues[c]), y \in 1 .. Len(run_queues[c]) :
         run_queues[c][x].pid = run_queues[c][y].pid => x = y
  BY <1>1
<1> QED
  BY <1>2

\* An append leaves every waiting task where it was.
LEMMA AppendKeepsPlaces ==
    ASSUME IInv, OnePlace, NEW t \in Task, t.enqueue_time = clock,
           NEW cpu \in Cpus, AppendTask(t, cpu),
           NEW c \in Cpus, NEW i \in 1 .. Len(run_queues[c]),
           NEW j \in 1 .. Len(run_queues'[c]),
           run_queues'[c][j] = run_queues[c][i]
    PROVE  j <= i
<1>1. TypeOK /\ clock \in Nat /\ run_queues[c] \in Seq(Task)
  BY DEF IInv, TypeOK
<1>2. run_queues[c][i] \in Task /\ run_queues[c][i].enqueue_time < clock
  BY <1>1 DEF IInv, QueueOK
<1>3. run_queues[c][i] # t
  BY <1>1, <1>2
<1>4. j \in 1 .. Len(run_queues[c]) /\ run_queues'[c][j] = run_queues[c][j]
  BY <1>1, <1>3, AppendPositions
<1>5. run_queues[c][j].pid = run_queues[c][i].pid
  BY <1>4
<1>6. j = i
  BY <1>4, <1>5, SamePlace
<1> QED
  BY <1>4, <1>6

\* A removal of the head brings the tasks of that queue one place forward.
LEMMA TailAdvances ==
    ASSUME TypeOK, OnePlace, NEW cpu \in Cpus, DispatchHead(cpu),
           NEW c \in Cpus, NEW i \in 1 .. Len(run_queues[c]),
           NEW j \in 1 .. Len(run_queues'[c]),
           run_queues'[c][j] = run_queues[c][i]
    PROVE  j <= i
<1> DEFINE k == IF c = cpu THEN j + 1 ELSE j
<1>1. k \in 1 .. Len(run_queues[c]) /\ run_queues'[c][j] = run_queues[c][k]
  BY TailPositions DEF DispatchHead
<1>2. j \in Nat /\ j <= k
  OBVIOUS
<1> HIDE DEF k
<1>3. run_queues[c][k].pid = run_queues[c][i].pid
  BY <1>1
<1>4. k = i
  BY <1>1, <1>3, SamePlace
<1> QED
  BY <1>2, <1>4

\* No step moves a waiting task back.
LEMMA NextNeverOvertakes ==
    ASSUME IInv, OnePlace, [Next]_vars,
           NEW c \in Cpus, NEW i \in 1 .. Len(run_queues[c]),
           NEW j \in 1 .. Len(run_queues'[c]),
           run_queues'[c][j] = run_queues[c][i]
    PROVE  j <= i
<1>t. /\ TypeOK
      /\ clock \in Nat
      /\ current \in [Cpus -> Task \cup {None}]
  BY DEF IInv, TypeOK
<1>0. CASE run_queues' = run_queues
  <2>1. j = i
    BY <1>0, SamePlace
  <2> QED
    BY <2>1
<1>1. ASSUME NEW cpu \in Cpus, NEW t \in Wakeable, Enqueue(t, cpu)
      PROVE  j <= i
  <2>1. t \in Task /\ ValidTask(t) /\ t.state = "Runnable"
    BY <1>1, WakeableAssumption DEF WakeableAssumption, Enqueue
  <2>2. Refreshed(t, clock) \in Task /\ Refreshed(t, clock).enqueue_time = clock
    BY <1>t, <2>1, RefreshedFacts
  <2>3. AppendTask(Refreshed(t, clock), cpu)
    BY <1>1 DEF Enqueue
  <2> QED
    BY <2>2, <2>3, AppendKeepsPlaces
<1>2. ASSUME NEW cpu \in Cpus, Dispatch(cpu)
      PROVE  j <= i
  BY <1>t, <1>0, <1>2, TailAdvances DEF Dispatch, DispatchEmpty
<1>3. ASSUME NEW cpu \in Cpus, ReEnqueue(cpu)
      PROVE  j <= i
  <2>1. current[cpu] \in Task /\ ValidTask(current[cpu]) /\ current[cpu].state = "Runnable"
    BY <1>t, <1>3 DEF ReEnqueue
  <2>2. /\ Refreshed(current[cpu], clock) \in Task
        /\ Refreshed(current[cpu], clock).enqueue_time = clock
    BY <1>t, <2>1, RefreshedFacts
  <2>3. AppendTask(Refreshed(current[cpu], clock), cpu)
    BY <1>3 DEF ReEnqueue
  <2> QED
    BY <2>2, <2>3, AppendKeepsPlaces
<1>4. ASSUME NEW cpu \in Cpus, Block(cpu)
      PROVE  j <= i
  BY <1>0, <1>4 DEF Block, schedVars
<1>5. CASE UNCHANGED vars
  BY <1>0, <1>5 DEF vars
<1> QED
  BY <1>1, <1>2, <1>3, <1>4, <1>5 DEF Next

\* What starvation_freedom.dfy rests on: whatever the other CPUs and tasks do, a
\* waiting task only moves towards the head of its queue.
THEOREM NeverOvertakenAlways == Spec => NeverOvertaken
<1>1. IInv /\ OnePlace /\ [Next]_vars =>
         [\A cpu \in Cpus :
            \A i \in 1 .. Len(run_queues[cpu]), j \in 1 .. Len(run_queues'[cpu]) :
                run_queues'[cpu][j] = run_queues[cpu][i] => j <= i]_vars
  BY NextNeverOvertakes
<1> QED
  BY <1>1, Invariance, OnePlaceAlways, PTL DEF Spec, NeverOvertaken

-----------------------------------------------------------------------------

(* What a caller must see to that the methods do not ask for.               *)

\* A task put at the tail of a queue may run there, as it might before.
LEMMA AppendAllowed ==
    ASSUME IInv, AllAffinitiesRespected, NEW t \in Task, NEW cpu \in Cpus,
           AffinityRespected(t, cpu), AppendTask(Refreshed(t, clock), cpu)
    PROVE  AllAffinitiesRespected'
<1> DEFINE r == Refreshed(t, clock)
<1>1. run_queues \in [Cpus -> Seq(Task)] /\ clock \in Nat
  BY DEF IInv, TypeOK
<1>2. r \in Task /\ r.cpu_affinity = t.cpu_affinity
  <2>1. TIME_QUANTUM \in Nat
    BY ConstantsAssumption DEF ConstantsAssumption
  <2> QED
    BY <1>1, <2>1 DEF Refreshed, Task
<1> HIDE DEF r
<1>3. run_queues' = [run_queues EXCEPT ![cpu] = Append(run_queues[cpu], r)]
  BY DEF AppendTask, r
<1>4. ASSUME NEW c \in Cpus, NEW i \in 1 .. Len(run_queues'[c])
      PROVE  AffinityRespected(run_queues'[c][i], c)
  <2>1. run_queues[c] \in Seq(Task)
    BY <1>1
  <2>2. CASE c = cpu
    <3>1. run_queues'[c] = Append(run_queues[c], r)
      BY <1>1, <1>3, <2>2
    <3>2. /\ Len(run_queues'[c]) = Len(run_queues[c]) + 1
          /\ run_queues'[c][Len(run_queues[c]) + 1] = r
          /\ \A k \in 1 .. Len(run_queues[c]) : run_queues'[c][k] = run_queues[c][k]
      BY <1>2, <2>1, <3>1, AppendFacts
    <3>3. CASE i = Len(run_queues[c]) + 1
      BY <1>2, <2>2, <3>2, <3>3 DEF AffinityRespected
    <3>4. CASE i # Len(run_queues[c]) + 1
      <4>1. i \in 1 .. Len(run_queues[c])
        BY <2>1, <3>2, <3>4
      <4> QED
        BY <3>2, <4>1 DEF AllAffinitiesRespected
    <3> QED
      BY <3>3, <3>4
  <2>3. CASE c # cpu
    <3>1. run_queues'[c] = run_queues[c]
      BY <1>1, <1>3, <2>3
    <3> QED
      BY <1>4, <3>1 DEF AllAffinitiesRespected
  <2> QED
    BY <2>2, <2>3
<1> QED
  BY <1>4 DEF AllAffinitiesRespected

\* What Dispatch hands a CPU waited there, and was allowed there.
LEMMA HeadAllowed ==
    ASSUME IInv, AllowedEverywhere, NEW cpu \in Cpus, DispatchHead(cpu)
    PROVE  AllowedEverywhere'
<1>1. /\ run_queues \in [Cpus -> Seq(Task)]
      /\ current \in [Cpus -> Task \cup {None}]
  BY DEF IInv, TypeOK
<1>2. /\ run_queues[cpu] # << >>
      /\ run_queues' = [run_queues EXCEPT ![cpu] = Tail(run_queues[cpu])]
      /\ current' = [current EXCEPT ![cpu] = Head(run_queues[cpu])]
  BY DEF DispatchHead
<1>3. /\ Len(Tail(run_queues[cpu])) = Len(run_queues[cpu]) - 1
      /\ Len(run_queues[cpu]) \in Nat \ {0}
      /\ Head(run_queues[cpu]) = run_queues[cpu][1]
      /\ \A i \in 1 .. Len(Tail(run_queues[cpu])) :
            Tail(run_queues[cpu])[i] = run_queues[cpu][i + 1]
  BY <1>1, <1>2, TailFacts
<1>4. \A c \in Cpus : \A i \in 1 .. Len(run_queues[c]) : AffinityRespected(run_queues[c][i], c)
  BY DEF AllowedEverywhere, AllAffinitiesRespected
<1>5. ASSUME NEW c \in Cpus, NEW i \in 1 .. Len(run_queues'[c])
      PROVE  AffinityRespected(run_queues'[c][i], c)
  <2>1. CASE c = cpu
    <3>1. run_queues'[c] = Tail(run_queues[cpu])
      BY <1>1, <1>2, <2>1
    <3>2. i \in 1 .. Len(Tail(run_queues[cpu])) /\ i + 1 \in 1 .. Len(run_queues[cpu])
      BY <1>3, <3>1
    <3> QED
      BY <1>3, <1>4, <2>1, <3>1, <3>2
  <2>2. CASE c # cpu
    <3>1. run_queues'[c] = run_queues[c]
      BY <1>1, <1>2, <2>2
    <3> QED
      BY <1>4, <1>5, <3>1
  <2> QED
    BY <2>1, <2>2
<1>6. AffinityRespected(Head(run_queues[cpu]), cpu)
  BY <1>3, <1>4
<1>7. \A c \in Cpus : current'[c] # None => AffinityRespected(current'[c], c)
  BY <1>1, <1>2, <1>6 DEF AllowedEverywhere
<1> QED
  BY <1>5, <1>7 DEF AllowedEverywhere, AllAffinitiesRespected

LEMMA NextAllowed ==
    IInv /\ AllowedEverywhere /\ [Next]_vars /\ [CallerSelectsAllowed]_vars => AllowedEverywhere'
<1> SUFFICES ASSUME IInv, AllowedEverywhere, [Next]_vars, [CallerSelectsAllowed]_vars
             PROVE  AllowedEverywhere'
  OBVIOUS
<1>t. current \in [Cpus -> Task \cup {None}]
  BY DEF IInv, TypeOK
<1>1. ASSUME NEW cpu \in Cpus, NEW t \in Wakeable, Enqueue(t, cpu)
      PROVE  AllowedEverywhere'
  <2>1. t \in Task /\ AppendTask(Refreshed(t, clock), cpu) /\ current' = current
    BY <1>1, WakeableAssumption DEF WakeableAssumption, Enqueue
  <2>2. clock' # clock
    BY <2>1 DEF AppendTask, IInv, TypeOK
  <2>3. AffinityRespected(t, cpu)
    BY <1>1, <2>2 DEF CallerSelectsAllowed, vars
  <2>4. AllAffinitiesRespected'
    BY <2>1, <2>3, AppendAllowed DEF AllowedEverywhere
  <2> QED
    BY <2>1, <2>4 DEF AllowedEverywhere
<1>2. ASSUME NEW cpu \in Cpus, Dispatch(cpu)
      PROVE  AllowedEverywhere'
  <2>1. CASE DispatchEmpty(cpu)
    BY <2>1 DEF DispatchEmpty, AllowedEverywhere, AllAffinitiesRespected
  <2>2. CASE DispatchHead(cpu)
    BY <2>2, HeadAllowed
  <2> QED
    BY <1>2, <2>1, <2>2 DEF Dispatch
<1>3. ASSUME NEW cpu \in Cpus, ReEnqueue(cpu)
      PROVE  AllowedEverywhere'
  <2>1. /\ current[cpu] # None /\ AppendTask(Refreshed(current[cpu], clock), cpu)
        /\ current' = [current EXCEPT ![cpu] = None]
    BY <1>3 DEF ReEnqueue
  <2>2. current[cpu] \in Task /\ AffinityRespected(current[cpu], cpu)
    BY <1>t, <2>1 DEF AllowedEverywhere
  <2>3. AllAffinitiesRespected'
    BY <2>1, <2>2, AppendAllowed DEF AllowedEverywhere
  <2> QED
    BY <1>t, <2>1, <2>3 DEF AllowedEverywhere
<1>4. ASSUME NEW cpu \in Cpus, Block(cpu)
      PROVE  AllowedEverywhere'
  BY <1>t, <1>4 DEF Block, schedVars, AllowedEverywhere, AllAffinitiesRespected
<1>5. CASE UNCHANGED vars
  BY <1>5 DEF vars, AllowedEverywhere, AllAffinitiesRespected
<1> QED
  BY <1>1, <1>2, <1>3, <1>4, <1>5 DEF Next

\* No sequence of calls on any CPUs takes a task where it may not be: its affinity
\* is lost by the choice of the CPU it is first enqueued on, or not at all.
THEOREM AffinityAlwaysKept == Spec => AffinityKept
<1>1. IInv /\ [Next]_vars =>
         [AllowedEverywhere /\ CallerSelectsAllowed => AllowedEverywhere']_vars
  BY NextAllowed
<1> QED
  BY <1>1, Invariance, PTL DEF Spec, AffinityKept

\* One clause that Enqueue does not require, that the task may run on its target,
\* is all that affinity needs: the other methods keep it.
THEOREM AffinityUpToCaller ==
    Spec /\ [][CallerSelectsAllowed]_vars => []AllAffinitiesRespected
<1>1. Init => AllowedEverywhere
  BY DEF Init, AllowedEverywhere, AllAffinitiesRespected
<1>2. AllowedEverywhere => AllAffinitiesRespected
  BY DEF AllowedEverywhere
<1> QED
  BY <1>1, <1>2, NextAllowed, Invariance, PTL DEF Spec
=============================================================================
