---------------------------- MODULE TaskHandover ----------------------------
(***************************************************************************)
(* How a task changes hands between the kernel, a scheduler and the CPUs,  *)
(* without queues, order or time: it is handed to the scheduler when it    *)
(* wakes up, from the scheduler to one free CPU it may use, and back, or   *)
(* away to sleep or exit.  The scheduler never drops a task it holds.      *)
(*                                                                         *)
(* This is the project's own summary of what sched_ext expects of the two  *)
(* eBPF schedulers.  It is not the Dafny trait SchedOps: the trait speaks  *)
(* of one call at a time and does not promise exclusivity.                 *)
(***************************************************************************)
CONSTANTS Tasks, Cpus, NoTask, Affinity

VARIABLES
    ready,      \* the tasks the scheduler holds
    running     \* CPU -> the task it runs, or NoTask

vars == <<ready, running>>

Init ==
    /\ ready = {}
    /\ running = [cpu \in Cpus |-> NoTask]

\* The kernel hands over a task that woke up.
WakeUp(p) ==
    /\ p \notin ready
    /\ \A cpu \in Cpus : running[cpu] # p
    /\ ready' = ready \cup {p}
    /\ UNCHANGED running

\* The scheduler hands the task to a CPU.
Dispatch(cpu, p) ==
    /\ p \in ready
    /\ cpu \in Affinity[p]
    /\ running[cpu] = NoTask
    /\ ready' = ready \ {p}
    /\ running' = [running EXCEPT ![cpu] = p]

\* The running task is handed back.
Requeue(cpu, p) ==
    /\ running[cpu] = p
    /\ ready' = ready \cup {p}
    /\ running' = [running EXCEPT ![cpu] = NoTask]

\* It sleeps or exits.
Leave(cpu, p) ==
    /\ running[cpu] = p
    /\ running' = [running EXCEPT ![cpu] = NoTask]
    /\ UNCHANGED ready

Next ==
    \/ \E p \in Tasks : WakeUp(p)
    \/ \E cpu \in Cpus, p \in Tasks : Dispatch(cpu, p) \/ Requeue(cpu, p) \/ Leave(cpu, p)

Spec == Init /\ [][Next]_vars
=============================================================================
