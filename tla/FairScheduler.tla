--------------------------- MODULE FairScheduler ---------------------------
(***************************************************************************)
(* The concrete fair scheduler (specs/refinements/concrete_scheduler.dfy): *)
(* the methods Enqueue and Dispatch over SchedState, and a caller that     *)
(* calls them in the order of sched_ext_ops.dfy: it enqueues where         *)
(* select_cpu may send the task, dispatches for a CPU that runs nothing,   *)
(* and accounts for a run before it enqueues the task again.  That a task  *)
(* is enqueued only where it may run and never twice is the caller's doing *)
(* (MaySelect, Held): the methods refuse neither.  Of the `requires`       *)
(* clauses only those about the ARGUMENTS are guards; those about the      *)
(* state are checked: see CallsAreLegal.                                   *)
(***************************************************************************)
EXTENDS Integers, Sequences

CONSTANTS
    NUM_CPUS,       \* every CPU number is below this
    MAX_WEIGHT,
    Cpus,           \* the CPUs that have a run queue
    Wakeable,       \* the task records a wake-up may pass to Enqueue
    Charges,        \* the vruntime the caller's accounting may add for a run
    None,           \* Option<Task>.None
    MaxClock        \* bound on the logical clock

TaskState == {"Runnable", "Running", "Blocked", "Dead"}

Task == [pid: Nat, vruntime: Nat, weight: Nat, state: TaskState,
         cpu_affinity: SUBSET Nat, enqueue_time: Nat]

ASSUME ConstantsAssumption ==
    /\ NUM_CPUS \in Nat /\ MAX_WEIGHT \in Nat /\ MaxClock \in Nat
    /\ Cpus \in SUBSET Nat /\ \A cpu \in Cpus : cpu < NUM_CPUS
    /\ Charges \in SUBSET Nat
    /\ Wakeable \in SUBSET Task
    /\ None \notin Nat /\ None \notin Task

VARIABLES
    tasks,          \* CPU -> run_queues[cpu].tasks, head first
    min_vruntime,   \* CPU -> run_queues[cpu].min_vruntime
    all_tasks, clock, active_cpus,
    current         \* CPU -> the task Dispatch last handed it, while it runs

schedVars == <<tasks, min_vruntime, all_tasks, clock, active_cpus>>
vars == <<tasks, min_vruntime, all_tasks, clock, active_cpus, current>>

TypeOK ==
    /\ tasks \in [Cpus -> Seq(Task)]
    /\ min_vruntime \in [Cpus -> Nat]
    /\ all_tasks \in SUBSET Task
    /\ clock \in Nat
    /\ active_cpus \in SUBSET Cpus
    /\ current \in [Cpus -> Task \cup {None}]

ValidTask(t) ==
    /\ t.weight > 0
    /\ t.weight <= MAX_WEIGHT
    /\ \A c \in t.cpu_affinity : c < NUM_CPUS

ValidState ==
    /\ \A cpu \in Cpus : cpu < NUM_CPUS
    /\ \A cpu \in Cpus : \A i \in 1 .. Len(tasks[cpu]) : ValidTask(tasks[cpu][i])
    /\ active_cpus \subseteq Cpus

Init ==
    /\ all_tasks = {}
    /\ clock = 0
    /\ active_cpus \in (SUBSET Cpus) \ {{}}
    /\ tasks = [cpu \in Cpus |-> << >>]
    /\ min_vruntime = [cpu \in Cpus |-> 0]
    /\ current = [cpu \in Cpus |-> None]

-----------------------------------------------------------------------------

Sorted(queue) ==
    \A i, j \in 1 .. Len(queue) : i < j => queue[i].vruntime <= queue[j].vruntime

\* Mutant of InsertionPoints: `<` for `<=` in the loop condition.
PointsBeforeEquals(queue, t) ==
    {idx \in 0 .. Len(queue) :
        /\ \A i \in 1 .. idx : queue[i].vruntime < t.vruntime
        /\ idx < Len(queue) => queue[idx + 1].vruntime >= t.vruntime}

\* Mutant of InsertionPoints: appended at the tail, as in the round-robin queue.
PointsAtTail(queue, t) == {Len(queue)}

\* Where SortedInsert's loop may leave idx: its invariant and its exit.
InsertionPoints(queue, t) ==
    {idx \in 0 .. Len(queue) :
        /\ \A i \in 1 .. idx : queue[i].vruntime <= t.vruntime
        /\ idx < Len(queue) => queue[idx + 1].vruntime > t.vruntime}

InsertAfter(queue, t, idx) ==
    SubSeq(queue, 1, idx) \o <<t>> \o SubSeq(queue, idx + 1, Len(queue))

SortedInsert(t, cpu) ==
    \E idx \in InsertionPoints(tasks[cpu], t) :
        tasks' = [tasks EXCEPT ![cpu] = InsertAfter(@, t, idx)]

\* Mutant of Stamp: stamped with the clock of the operation before.
StampBefore(t) == [t EXCEPT !.enqueue_time = clock - 1]

Stamp(t) == [t EXCEPT !.enqueue_time = clock]

\* Mutant of Enqueue: `requires ValidTask(t)` and `t.state == Runnable` are dropped.
EnqueueAny(t, target_cpu) ==
    /\ clock < MaxClock
    /\ target_cpu \in active_cpus
    /\ SortedInsert(Stamp(t), target_cpu)
    /\ all_tasks' = all_tasks \cup {Stamp(t)}
    /\ clock' = clock + 1
    /\ UNCHANGED <<min_vruntime, active_cpus>>

\* Mutant of Enqueue: the record given is registered, as `ensures` has it.
EnqueueRegistersGiven(t, target_cpu) ==
    /\ clock < MaxClock
    /\ ValidTask(t)
    /\ t.state = "Runnable"
    /\ target_cpu \in active_cpus
    /\ SortedInsert(Stamp(t), target_cpu)
    /\ all_tasks' = all_tasks \cup {t}
    /\ clock' = clock + 1
    /\ UNCHANGED <<min_vruntime, active_cpus>>

Enqueue(t, target_cpu) ==
    /\ clock < MaxClock
    /\ ValidTask(t)
    /\ t.state = "Runnable"
    /\ target_cpu \in active_cpus
    /\ SortedInsert(Stamp(t), target_cpu)
    /\ all_tasks' = all_tasks \cup {Stamp(t)}
    /\ clock' = clock + 1
    /\ UNCHANGED <<min_vruntime, active_cpus>>

DispatchEmpty(cpu) ==
    /\ tasks[cpu] = << >>
    /\ clock' = clock + 1
    /\ UNCHANGED <<tasks, min_vruntime, all_tasks, active_cpus, current>>

\* Mutant of DispatchFirst: the task handed out stays queued.
DispatchAndKeep(cpu) ==
    /\ tasks[cpu] # << >>
    /\ clock' = clock + 1
    /\ current' = [current EXCEPT ![cpu] = Head(tasks[cpu])]
    /\ UNCHANGED <<tasks, min_vruntime, all_tasks, active_cpus>>

\* `updated` (vruntime advanced, state Running) is computed and not used: the
\* task is handed out, and stays in all_tasks, as it was enqueued.
DispatchFirst(cpu) ==
    /\ tasks[cpu] # << >>
    /\ tasks' = [tasks EXCEPT ![cpu] = Tail(@)]
    /\ min_vruntime' = [min_vruntime EXCEPT ![cpu] =
                           IF Tail(tasks[cpu]) # << >> THEN Head(Tail(tasks[cpu])).vruntime ELSE @]
    /\ clock' = clock + 1
    /\ current' = [current EXCEPT ![cpu] = Head(tasks[cpu])]
    /\ UNCHANGED <<all_tasks, active_cpus>>

Dispatch(cpu) ==
    /\ clock < MaxClock
    /\ cpu \in active_cpus
    /\ current[cpu] = None
    /\ DispatchEmpty(cpu) \/ DispatchFirst(cpu)

-----------------------------------------------------------------------------
(* The caller                                                               *)

\* What select_cpu ensures of the CPU it returns.
MaySelect(t, cpu) == t.cpu_affinity # {} => cpu \in t.cpu_affinity

\* The caller holds a pid from its enqueue until it blocks.
Held(pid) ==
    \E cpu \in Cpus :
        \/ current[cpu] # None /\ current[cpu].pid = pid
        \/ \E i \in 1 .. Len(tasks[cpu]) : tasks[cpu][i].pid = pid

WakeUp(t, cpu) ==
    /\ ~Held(t.pid)
    /\ MaySelect(t, cpu)
    /\ Enqueue(t, cpu)
    /\ UNCHANGED current

\* The task the CPU ran is charged and enqueued again, perhaps elsewhere.
Requeue(from, cpu, charge) ==
    /\ current[from] # None
    /\ MaySelect(current[from], cpu)
    /\ Enqueue([current[from] EXCEPT !.vruntime = @ + charge], cpu)
    /\ current' = [current EXCEPT ![from] = None]

\* It sleeps or exits.  No Dafny method is called.
Block(cpu) ==
    /\ current[cpu] # None
    /\ current' = [current EXCEPT ![cpu] = None]
    /\ UNCHANGED schedVars

Next ==
    \E cpu \in Cpus :
        \/ \E t \in Wakeable : WakeUp(t, cpu)
        \/ Dispatch(cpu)
        \/ \E from \in Cpus, charge \in Charges : Requeue(from, cpu, charge)
        \/ Block(cpu)

Spec == Init /\ [][Next]_vars

-----------------------------------------------------------------------------

Before(t, u) ==
    \/ t.vruntime < u.vruntime
    \/ t.vruntime = u.vruntime /\ t.enqueue_time < u.enqueue_time

Stable(queue) == \A i, j \in 1 .. Len(queue) : i < j => Before(queue[i], queue[j])

\* The sorted queue is stable: tasks of equal vruntime leave in the order they
\* came, so that none of them overtakes another for ever.
StableOrder == \A cpu \in Cpus : Stable(tasks[cpu])

\* What the methods require of the state and, with `assume ... TODO`, ensure:
\* whenever the caller may call, every queue is sorted, the state is valid, and
\* the task it was handed may be enqueued again.
CallsAreLegal ==
    /\ ValidState
    /\ \A cpu \in Cpus :
        /\ Sorted(tasks[cpu])
        /\ \A i \in 1 .. Len(tasks[cpu]) : tasks[cpu][i].state = "Runnable"
        /\ current[cpu] # None => /\ ValidTask(current[cpu])
                                  /\ current[cpu].state = "Runnable"

\* No task is in two places: two queue positions never hold the same pid, on one
\* CPU or on two, and a task a CPU runs is neither queued nor run elsewhere.
OnePlace ==
    \A c, d \in Cpus :
        /\ \A i \in 1 .. Len(tasks[c]), j \in 1 .. Len(tasks[d]) :
              tasks[c][i].pid = tasks[d][j].pid => c = d /\ i = j
        /\ current[c] # None =>
              /\ \A j \in 1 .. Len(tasks[d]) : tasks[d][j].pid # current[c].pid
              /\ current[d] # None /\ current[d].pid = current[c].pid => c = d

\* A record that waits or runs is in all_tasks, and is the newest one of its pid
\* there.  Every Enqueue leaves the older records behind, and registers not the
\* record it was given but a re-stamped one: its own `ensures t in s'.all_tasks`
\* is false of the given one.
NewestOfItsPid(t, known) ==
    /\ t \in known
    /\ \A u \in known : u.pid = t.pid /\ u # t => u.enqueue_time < t.enqueue_time

HeldAreNewest ==
    \A cpu \in Cpus :
        /\ \A i \in 1 .. Len(tasks[cpu]) : NewestOfItsPid(tasks[cpu][i], all_tasks)
        /\ current[cpu] # None => NewestOfItsPid(current[cpu], all_tasks)

\* A waiting task moves back in its queue only for a task of strictly smaller
\* vruntime, and by one place at a time; equals and latecomers never overtake.
OvertakenOnlyByLess ==
    [][\A cpu \in Cpus : \A i \in 1 .. Len(tasks[cpu]), j \in 1 .. Len(tasks'[cpu]) :
          tasks'[cpu][j] = tasks[cpu][i] /\ j > i =>
              /\ j = i + 1
              /\ \E k \in 1 .. i : /\ tasks'[cpu][k] \notin all_tasks
                                   /\ tasks'[cpu][k].vruntime < tasks[cpu][i].vruntime]_vars

\* The inductive invariant: for every queue its order, and what holds of each
\* queued task and of each running one.  The order among equals is kept only
\* because every queued enqueue time lies before the clock.
QueuedOK(t, now) ==
    /\ ValidTask(t)
    /\ t.state = "Runnable"
    /\ t.enqueue_time < now

RunningOK(t) == ValidTask(t) /\ t.state = "Runnable"

IInv ==
    /\ TypeOK
    /\ \A cpu \in Cpus : \A i \in 1 .. Len(tasks[cpu]) : QueuedOK(tasks[cpu][i], clock)
    /\ \A cpu \in Cpus : current[cpu] # None => RunningOK(current[cpu])
    /\ \A t \in all_tasks : t.enqueue_time < clock
    /\ StableOrder
=============================================================================
