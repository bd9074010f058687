------------------------------ MODULE RRTypes ------------------------------
(***************************************************************************)
(* Domain model of the round-robin scheduler (specs-rr/domain/types.dfy):  *)
(* tasks, the well-formedness predicates, and the FIFO order on a queue.   *)
(* Dafny's `map<nat, RunQueue>` becomes a function whose domain is Cpus;   *)
(* the `cpu` field a RunQueue repeats is that function's argument.         *)
(***************************************************************************)
EXTENDS Integers, Sequences

CONSTANTS
    NUM_CPUS,        \* every CPU number is below this
    TIME_QUANTUM,    \* the slice a task gets when it is enqueued
    Cpus             \* the CPUs that have a run queue

ASSUME ConstantsAssumption ==
    /\ NUM_CPUS \in Nat
    /\ TIME_QUANTUM \in Nat
    /\ Cpus \subseteq Nat

TaskState == {"Runnable", "Running", "Blocked", "Dead"}

Task == [pid: Nat, state: TaskState, cpu_affinity: SUBSET Nat,
         enqueue_time: Nat, remaining_slice: Nat]

ValidTask(t) ==
    /\ t.pid > 0
    /\ t.remaining_slice <= TIME_QUANTUM
    /\ \A c \in t.cpu_affinity : c < NUM_CPUS

\* ValidState(s) of the Dafny model, over the two fields it constrains.
WellFormed(queues, active) ==
    /\ \A cpu \in Cpus : cpu < NUM_CPUS
    /\ \A cpu \in Cpus : \A i \in 1 .. Len(queues[cpu]) : ValidTask(queues[cpu][i])
    /\ active \subseteq Cpus

FIFOOrdered(tasks) ==
    \A i, j \in 1 .. Len(tasks) :
        i < j => tasks[i].enqueue_time <= tasks[j].enqueue_time

AllRunnable(tasks) == \A i \in 1 .. Len(tasks) : tasks[i].state = "Runnable"

\* The precondition of a tail append at time now: `requires |tasks| == 0 ||
\* tasks[|tasks|-1].enqueue_time <= s.clock`.
Appendable(tasks, now) ==
    tasks = << >> \/ tasks[Len(tasks)].enqueue_time <= now

AffinityRespected(t, cpu) ==
    /\ cpu < NUM_CPUS
    /\ t.cpu_affinity = {} \/ cpu \in t.cpu_affinity

\* Mutant of Refreshed: stamped with the clock of the operation before.
RefreshedEarly(t, now) ==
    [t EXCEPT !.enqueue_time = now - 1, !.remaining_slice = TIME_QUANTUM]

\* Mutant of Refreshed: stamped with the clock after the operation.
RefreshedLate(t, now) ==
    [t EXCEPT !.enqueue_time = now + 1, !.remaining_slice = TIME_QUANTUM]

\* Both Enqueue and ReEnqueue stamp the task and hand it a full quantum.
Refreshed(t, now) ==
    [t EXCEPT !.enqueue_time = now, !.remaining_slice = TIME_QUANTUM]
=============================================================================
