----------------------------- MODULE RRAbstract -----------------------------
(***************************************************************************)
(* What the round-robin scheduler promises                                 *)
(* (specs-rr/refinements/abstract_scheduler.dfy).  The four variables are  *)
(* the fields of SchedState.  Dispatch says less than one may expect: the  *)
(* task it reports is ANY runnable member of the queue while the task it   *)
(* removes is the head, and it leaves all_tasks and active_cpus free.      *)
(***************************************************************************)
EXTENDS RRTypes

CONSTANTS
    Wakeable,   \* the tasks a wake-up may pass to Enqueue
    None        \* Option<Task>.None

VARIABLES
    run_queues,   \* CPU -> sequence of tasks, head first
    all_tasks,    \* every task record ever enqueued
    clock,        \* logical time, one tick per operation
    active_cpus   \* the CPUs that are online

vars == <<run_queues, all_tasks, clock, active_cpus>>

ValidState == WellFormed(run_queues, active_cpus)

Init ==
    /\ all_tasks = {}
    /\ clock = 0
    /\ active_cpus # {}
    /\ run_queues = [cpu \in Cpus |-> << >>]
    /\ ValidState

Enqueue(t, target_cpu) ==
    /\ ValidState
    /\ ValidTask(t)
    /\ t.state = "Runnable"
    /\ target_cpu \in active_cpus
    /\ Appendable(run_queues[target_cpu], clock)
    /\ all_tasks' = all_tasks \cup {Refreshed(t, clock)}
    /\ clock' = clock + 1
    /\ active_cpus' = active_cpus
    /\ run_queues' = [run_queues EXCEPT ![target_cpu] = Append(@, Refreshed(t, clock))]
    /\ ValidState'

Dispatch(cpu, chosen) ==
    /\ ValidState
    /\ cpu \in active_cpus
    /\ (run_queues[cpu] = << >>) <=> (chosen = None)
    /\ chosen # None => /\ \E i \in 1 .. Len(run_queues[cpu]) : run_queues[cpu][i] = chosen
                        /\ chosen.state = "Runnable"
    /\ run_queues' = [run_queues EXCEPT ![cpu] = IF chosen = None THEN @ ELSE Tail(@)]
    /\ clock' = clock + 1
    /\ all_tasks' \in SUBSET Task
    /\ ValidState'

Tick(cpu) ==
    /\ ValidState
    /\ cpu \in active_cpus
    /\ clock' = clock + 1
    /\ UNCHANGED <<run_queues, active_cpus>>
    /\ all_tasks' \in SUBSET Task
    /\ ValidState'

\* Dafny quantifies over every task; a caller has the ones that wake up and the
\* ones it was handed before.
Enqueueable == Wakeable \cup all_tasks

Queued(cpu) == {run_queues[cpu][i] : i \in 1 .. Len(run_queues[cpu])}

Next ==
    \E cpu \in Cpus :
        \/ \E t \in Enqueueable : Enqueue(t, cpu)
        \/ \E chosen \in Queued(cpu) \cup {None} : Dispatch(cpu, chosen)
        \/ Tick(cpu)

Spec == Init /\ [][Next]_vars

-----------------------------------------------------------------------------

\* fifo_ordering.dfy: every run queue is ordered by enqueue time.
FIFOInvariant == \A cpu \in Cpus : FIFOOrdered(run_queues[cpu])

\* The abstract scheduler's SafetyInvariant.
SafetyInvariant == FIFOInvariant
=============================================================================
