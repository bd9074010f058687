---------------------------- MODULE RRScheduler ----------------------------
(***************************************************************************)
(* The concrete round-robin scheduler                                      *)
(* (specs-rr/refinements/concrete_scheduler.dfy): the methods Enqueue,     *)
(* Dispatch and ReEnqueue over SchedState, driven by a caller that follows *)
(* the sched_ext life cycle: a task that is asleep is enqueued, a CPU that *)
(* runs nothing dispatches, and the task a CPU runs is re-enqueued or      *)
(* blocks.  Of the `requires` clauses only those about the ARGUMENTS are   *)
(* guards.  Those about the state (FIFOOrdered, Appendable, AllRunnable)   *)
(* are left out on purpose and checked: see CallsAreLegal.                 *)
(***************************************************************************)
EXTENDS RRTypes

CONSTANTS
    Wakeable,   \* the tasks a wake-up may pass to Enqueue
    None,       \* Option<Task>.None
    MaxClock    \* bound on the logical clock

ASSUME WakeableAssumption == Wakeable \subseteq Task
ASSUME NoneAssumption == None \notin Task
ASSUME MaxClockAssumption == MaxClock \in Nat

VARIABLES
    run_queues, all_tasks, clock, active_cpus,   \* SchedState
    current     \* CPU -> the task Dispatch last handed it, while it runs

schedVars == <<run_queues, all_tasks, clock, active_cpus>>
vars == <<run_queues, all_tasks, clock, active_cpus, current>>

TypeOK ==
    /\ run_queues \in [Cpus -> Seq(Task)]
    /\ all_tasks \in SUBSET Task
    /\ clock \in Nat
    /\ active_cpus \in SUBSET Cpus
    /\ current \in [Cpus -> Task \cup {None}]

ValidState == WellFormed(run_queues, active_cpus)

Init ==
    /\ all_tasks = {}
    /\ clock = 0
    /\ active_cpus \in (SUBSET Cpus) \ {{}}
    /\ run_queues = [cpu \in Cpus |-> << >>]
    /\ ValidState
    /\ current = [cpu \in Cpus |-> None]

\* The caller holds a pid from its enqueue until it blocks.
Held(pid) ==
    \E cpu \in Cpus :
        \/ current[cpu] # None /\ current[cpu].pid = pid
        \/ \E i \in 1 .. Len(run_queues[cpu]) : run_queues[cpu][i].pid = pid

\* Mutant of AppendTask: the task goes to the head.
PushTask(task, cpu) ==
    /\ run_queues' = [run_queues EXCEPT ![cpu] = <<task>> \o @]
    /\ all_tasks' = all_tasks \cup {task}
    /\ clock' = clock + 1
    /\ UNCHANGED active_cpus

AppendTask(task, cpu) ==
    /\ run_queues' = [run_queues EXCEPT ![cpu] = Append(@, task)]
    /\ all_tasks' = all_tasks \cup {task}
    /\ clock' = clock + 1
    /\ UNCHANGED active_cpus

\* Mutant of Enqueue: `requires t.state == Runnable` is dropped.
EnqueueAnyState(t, target_cpu) ==
    /\ clock < MaxClock
    /\ ValidTask(t)
    /\ target_cpu \in active_cpus
    /\ ~Held(t.pid)
    /\ AppendTask(Refreshed(t, clock), target_cpu)
    /\ UNCHANGED current

Enqueue(t, target_cpu) ==
    /\ clock < MaxClock
    /\ ValidTask(t)
    /\ t.state = "Runnable"
    /\ target_cpu \in active_cpus
    /\ ~Held(t.pid)
    /\ AppendTask(Refreshed(t, clock), target_cpu)
    /\ UNCHANGED current

DispatchEmpty(cpu) ==
    /\ run_queues[cpu] = << >>
    /\ clock' = clock + 1
    /\ UNCHANGED <<run_queues, all_tasks, active_cpus, current>>

\* Mutant of DispatchHead: the last task is picked.
DispatchLast(cpu) ==
    /\ run_queues[cpu] # << >>
    /\ run_queues' = [run_queues EXCEPT ![cpu] = SubSeq(@, 1, Len(@) - 1)]
    /\ clock' = clock + 1
    /\ current' = [current EXCEPT ![cpu] = run_queues[cpu][Len(run_queues[cpu])]]
    /\ UNCHANGED <<all_tasks, active_cpus>>

DispatchHead(cpu) ==
    /\ run_queues[cpu] # << >>
    /\ run_queues' = [run_queues EXCEPT ![cpu] = Tail(@)]
    /\ clock' = clock + 1
    /\ current' = [current EXCEPT ![cpu] = Head(run_queues[cpu])]
    /\ UNCHANGED <<all_tasks, active_cpus>>

Dispatch(cpu) ==
    /\ clock < MaxClock
    /\ cpu \in active_cpus
    /\ current[cpu] = None
    /\ DispatchEmpty(cpu) \/ DispatchHead(cpu)

\* Mutant of ReEnqueue: the task is queued while the CPU still has it.
ReEnqueueAndKeep(cpu) ==
    /\ clock < MaxClock
    /\ cpu \in active_cpus
    /\ current[cpu] # None
    /\ ValidTask(current[cpu])
    /\ current[cpu].state = "Runnable"
    /\ AppendTask(Refreshed(current[cpu], clock), cpu)
    /\ UNCHANGED current

\* Mutant of ReEnqueue: the task goes to any active CPU's queue.
ReEnqueueAnywhere(cpu) ==
    /\ clock < MaxClock
    /\ current[cpu] # None
    /\ ValidTask(current[cpu])
    /\ current[cpu].state = "Runnable"
    /\ \E target_cpu \in active_cpus : AppendTask(Refreshed(current[cpu], clock), target_cpu)
    /\ current' = [current EXCEPT ![cpu] = None]

\* The task keeps its record; the caller hands back what Dispatch gave it.
ReEnqueue(cpu) ==
    /\ clock < MaxClock
    /\ cpu \in active_cpus
    /\ current[cpu] # None
    /\ ValidTask(current[cpu])
    /\ current[cpu].state = "Runnable"
    /\ AppendTask(Refreshed(current[cpu], clock), cpu)
    /\ current' = [current EXCEPT ![cpu] = None]

\* The running task sleeps or exits.  No Dafny method is called.
Block(cpu) ==
    /\ current[cpu] # None
    /\ current' = [current EXCEPT ![cpu] = None]
    /\ UNCHANGED schedVars

Next ==
    \E cpu \in Cpus :
        \/ \E t \in Wakeable : Enqueue(t, cpu)
        \/ Dispatch(cpu)
        \/ ReEnqueue(cpu)
        \/ Block(cpu)

Spec == Init /\ [][Next]_vars

-----------------------------------------------------------------------------

\* fifo_ordering.dfy FIFOInvariant: each run queue is in enqueue-time order, for
\* every order in which the CPUs interleave their calls.
FIFOInvariant == \A cpu \in Cpus : FIFOOrdered(run_queues[cpu])

\* The clauses of `requires` a caller cannot see to: whenever it may call a
\* method for a CPU, that CPU's queue is ordered and all runnable, the clock has
\* reached its last enqueue time, and a dispatched task may be handed back.
CallsAreLegal ==
    \A cpu \in active_cpus :
        /\ FIFOOrdered(run_queues[cpu])
        /\ AllRunnable(run_queues[cpu])
        /\ Appendable(run_queues[cpu], clock)
        /\ current[cpu] # None => /\ ValidTask(current[cpu])
                                  /\ current[cpu].state = "Runnable"

\* No task is in two places: two queue positions never hold the same pid, on one
\* CPU or on two, and a task a CPU runs is neither queued nor run elsewhere.
OnePlace ==
    \A c, d \in Cpus :
        /\ \A i \in 1 .. Len(run_queues[c]), j \in 1 .. Len(run_queues[d]) :
              run_queues[c][i].pid = run_queues[d][j].pid => c = d /\ i = j
        /\ current[c] # None =>
              /\ \A j \in 1 .. Len(run_queues[d]) : run_queues[d][j].pid # current[c].pid
              /\ current[d] # None /\ current[d].pid = current[c].pid => c = d

\* The waiting and running records are registered in all_tasks, and a waiting
\* record was enqueued before the present instant.
HeldAreRegistered ==
    \A cpu \in Cpus :
        /\ \A i \in 1 .. Len(run_queues[cpu]) :
              /\ run_queues[cpu][i] \in all_tasks
              /\ run_queues[cpu][i].enqueue_time < clock
        /\ current[cpu] # None => current[cpu] \in all_tasks

\* starvation_freedom.dfy: a task's wait is bounded by its position in the queue
\* (the clock, which every call advances, bounds nothing).  No call of any CPU
\* ever moves a waiting task back: nobody overtakes it.
NeverOvertaken ==
    [][\A cpu \in Cpus :
          \A i \in 1 .. Len(run_queues[cpu]), j \in 1 .. Len(run_queues'[cpu]) :
              run_queues'[cpu][j] = run_queues[cpu][i] => j <= i]_vars

\* The inductive invariant: what holds of every queue and of every running slot,
\* for given all_tasks and clock.  FIFOInvariant alone is not inductive: an append
\* keeps the order only because no queued enqueue time is ahead of the clock.
QueueOK(q, known, now) ==
    /\ FIFOOrdered(q)
    /\ \A i \in 1 .. Len(q) : /\ ValidTask(q[i])
                             /\ q[i].state = "Runnable"
                             /\ q[i] \in known
                             /\ q[i].enqueue_time < now

SlotOK(t, known) ==
    t # None => ValidTask(t) /\ t.state = "Runnable" /\ t \in known

IInv ==
    /\ TypeOK
    /\ \A cpu \in Cpus : cpu < NUM_CPUS
    /\ \A cpu \in Cpus : QueueOK(run_queues[cpu], all_tasks, clock)
    /\ \A cpu \in Cpus : SlotOK(current[cpu], all_tasks)

\* refinement_proof.dfy: the concrete scheduler refines the abstract one under
\* the identity map; the caller's Block is a stuttering step.
Abstract == INSTANCE RRAbstract WITH
    run_queues <- run_queues, all_tasks <- all_tasks, clock <- clock, active_cpus <- active_cpus
RefinesAbstract == Abstract!Spec

\* cpu_affinity.dfy AllAffinitiesRespected.
AllAffinitiesRespected ==
    \A cpu \in Cpus : \A i \in 1 .. Len(run_queues[cpu]) :
        AffinityRespected(run_queues[cpu][i], cpu)

\* And every task that runs may run where it does.
AllowedEverywhere ==
    /\ AllAffinitiesRespected
    /\ \A cpu \in Cpus : current[cpu] # None => AffinityRespected(current[cpu], cpu)

\* What Enqueue does not require of its caller, and select_cpu would give it.
CallerSelectsAllowed ==
    \A cpu \in Cpus, t \in Wakeable : Enqueue(t, cpu) => AffinityRespected(t, cpu)

\* The requirements put the affinity invariant on select_cpu and dispatch; no
\* method requires or checks it, and Enqueue takes any active CPU.  What the
\* methods do promise: a task that is where it may be is never moved elsewhere,
\* through dispatches and re-enqueues on all CPUs.
AffinityKept == [][AllowedEverywhere /\ CallerSelectsAllowed => AllowedEverywhere']_vars
=============================================================================
