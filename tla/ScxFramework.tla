---------------------------- MODULE ScxFramework ----------------------------
(***************************************************************************)
(* The sched_ext framework around a BPF scheduler with one shared dispatch *)
(* queue: wake-ups, run-queue locks, local queues, idle CPUs, slices.  All *)
(* of it is outside the repository; it is modelled as                      *)
(* knowledge/ebpf/sched_ext_ops_reference.md, impl/bridge/                 *)
(* atomicity_boundaries.md and the two schedulers' use of it describe it.  *)
(* RRBpf and FairBpf conjoin their callbacks to the steps defined here.    *)
(*                                                                         *)
(* A callback runs under the run-queue lock of ONE CPU (RqFree).  So       *)
(* ops.enqueue takes two steps, the work before the insertion and the      *)
(* insertion: two CPUs may be between them at once.                        *)
(***************************************************************************)
EXTENDS Integers, Sequences, FiniteSets, SequencesExt

CONSTANTS
    Tasks, Cpus,
    NoTask,        \* what a CPU runs when it runs no task of this scheduler
    Affinity,      \* p->cpus_ptr: task -> the CPUs it may run on
    SLICE,         \* the slice of an insertion: TIME_QUANTUM_NS, SCX_SLICE_DFL
    Overrun,       \* how late the timer tick may notice an expired slice
    TimeMod        \* bpf_ktime_get_ns() is a u64: time is modulo TimeMod

ASSUME FiniteAssumption == IsFiniteSet(Tasks) /\ IsFiniteSet(Cpus)
ASSUME AffinityAssumption == Affinity \in [Tasks -> (SUBSET Cpus) \ {{}}]
ASSUME TimeAssumption ==
    /\ SLICE \in Nat \ {0}
    /\ Overrun \in Nat
    /\ TimeMod \in Nat /\ TimeMod > SLICE + Overrun
ASSUME NoTaskAssumption == NoTask \notin Tasks

VARIABLES
    now,            \* bpf_ktime_get_ns()
    shared_dsq,     \* SHARED_DSQ or SCX_DSQ_GLOBAL, head first
    local_dsq,      \* CPU -> its SCX_DSQ_LOCAL
    status,         \* task -> where the framework has it
    target,         \* task -> the CPU whose run-queue lock its enqueue takes
    slice,          \* p->scx.slice, what the framework lets it run
    curr,           \* CPU -> the task it runs
    exec_start,     \* CPU -> when that task started
    idle,           \* the CPUs in the idle loop
    idle_mask,      \* those of them that select_cpu_dfl may still claim
    kicked,         \* the idle CPUs told to reschedule
    quanta          \* history: full quanta begun by others, while the task waits
                    \* in shared_dsq, on a CPU it may use

taskVars == <<status, target, slice>>
runVars == <<curr, exec_start>>
idleVars == <<idle, idle_mask, kicked>>
scxVars == <<now, shared_dsq, local_dsq, taskVars, runVars, idleVars, quanta>>

\* "stamped": inside ops.enqueue; "requeue": it stopped and ops.enqueue follows;
\* "limbo": ops.enqueue returned without inserting it.
Status == {"none", "asleep", "selected", "requeue", "stamped", "queued", "limbo", "running"}

\* Quanta are not counted beyond the bounds they are compared with.
WaitCap == Cardinality(Tasks) + Cardinality(Cpus)

ScxTypeOK ==
    /\ now \in 0 .. TimeMod - 1
    /\ shared_dsq \in Seq(Tasks)
    /\ local_dsq \in [Cpus -> Seq(Tasks)]
    /\ status \in [Tasks -> Status]
    /\ target \in [Tasks -> Cpus]
    /\ slice \in [Tasks -> 0 .. SLICE]
    /\ curr \in [Cpus -> Tasks \cup {NoTask}]
    /\ exec_start \in [Cpus -> 0 .. TimeMod - 1]
    /\ idle \in SUBSET Cpus
    /\ idle_mask \in SUBSET idle
    /\ kicked \in SUBSET idle
    /\ quanta \in [Tasks -> 0 .. WaitCap]

\* The scheduler is loaded: every CPU is idle and no task has joined yet.
ScxInit ==
    /\ now = 0
    /\ shared_dsq = << >>
    /\ local_dsq = [cpu \in Cpus |-> << >>]
    /\ status = [p \in Tasks |-> "none"]
    /\ target = [p \in Tasks |-> CHOOSE cpu \in Affinity[p] : TRUE]
    /\ slice = [p \in Tasks |-> 0]
    /\ curr = [cpu \in Cpus |-> NoTask]
    /\ exec_start = [cpu \in Cpus |-> 0]
    /\ idle = Cpus
    /\ idle_mask = Cpus
    /\ kicked = {}
    /\ quanta = [p \in Tasks |-> 0]

Elapsed(since) == (now - since) % TimeMod

SetStatus(p, s) == status' = [status EXCEPT ![p] = s]

\* The enqueue of the task is under way, under the run-queue lock of its target.
InEnqueue == {"requeue", "stamped"}

\* The run-queue lock of cpu is not held across an unfinished ops.enqueue.
RqFree(cpu) == ~\E p \in Tasks : status[p] \in InEnqueue /\ target[p] = cpu

\* The wake-up of a task on an idle CPU's run queue makes that CPU reschedule.
Kick(cpu) ==
    /\ kicked' = kicked \cup ({cpu} \cap idle)
    /\ UNCHANGED <<idle, idle_mask>>

-----------------------------------------------------------------------------
(* A task joins, wakes up and is enqueued                                   *)

Fork(p) ==
    /\ status[p] = "none"
    /\ SetStatus(p, "asleep")
    /\ UNCHANGED <<now, shared_dsq, local_dsq, target, slice, runVars, idleVars, quanta>>

Claimable(p) == idle_mask \cap Affinity[p]

\* Mutant of SelectCpu: the CPU returned ignores the affinity mask.
SelectAnyCpu(p, cpu) ==
    /\ status[p] = "asleep"
    /\ target' = [target EXCEPT ![p] = cpu]
    /\ idle_mask' = idle_mask \ {cpu}
    /\ SetStatus(p, "selected")
    /\ UNCHANGED <<now, shared_dsq, local_dsq, slice, runVars, idle, kicked, quanta>>

\* scx_bpf_select_cpu_dfl claims an idle CPU the task may use, if there is one.
\* No lock is held.
SelectCpu(p, cpu) ==
    /\ status[p] = "asleep"
    /\ cpu \in IF Claimable(p) # {} THEN Claimable(p) ELSE Affinity[p]
    /\ target' = [target EXCEPT ![p] = cpu]
    /\ idle_mask' = idle_mask \ {cpu}
    /\ SetStatus(p, "selected")
    /\ UNCHANGED <<now, shared_dsq, local_dsq, slice, runVars, idle, kicked, quanta>>

\* ops.select_cpu asked for a direct insertion: ops.enqueue is not called.
InsertLocal(p) ==
    /\ status[p] = "selected"
    /\ RqFree(target[p])
    /\ local_dsq' = [local_dsq EXCEPT ![target[p]] = Append(@, p)]
    /\ slice' = [slice EXCEPT ![p] = SLICE]
    /\ SetStatus(p, "queued")
    /\ Kick(target[p])
    /\ UNCHANGED <<now, shared_dsq, target, runVars, quanta>>

\* ops.enqueue may be called for p: a wake-up whose lock is free, or a task that
\* stopped under the lock it still holds.
MayEnqueue(p) ==
    \/ status[p] = "selected" /\ RqFree(target[p])
    \/ status[p] = "requeue"

BeginEnqueue(p) ==
    /\ MayEnqueue(p)
    /\ SetStatus(p, "stamped")
    /\ UNCHANGED <<now, shared_dsq, local_dsq, target, slice, runVars, idleVars, quanta>>

\* Mutant of InsertShared: head insertion (SCX_ENQ_HEAD).
InsertSharedHead(p) ==
    /\ status[p] = "stamped"
    /\ shared_dsq' = <<p>> \o shared_dsq
    /\ slice' = [slice EXCEPT ![p] = SLICE]
    /\ SetStatus(p, "queued")
    /\ Kick(target[p])
    /\ UNCHANGED <<now, local_dsq, target, runVars, quanta>>

\* ops.enqueue inserts p into the shared queue and returns.
InsertShared(p) ==
    /\ status[p] = "stamped"
    /\ shared_dsq' = Append(shared_dsq, p)
    /\ slice' = [slice EXCEPT ![p] = SLICE]
    /\ SetStatus(p, "queued")
    /\ Kick(target[p])
    /\ UNCHANGED <<now, local_dsq, target, runVars, quanta>>

\* ops.enqueue returns without having inserted p: "the task is lost".
LeaveOut(p) ==
    /\ MayEnqueue(p)
    /\ SetStatus(p, "limbo")
    /\ Kick(target[p])
    /\ UNCHANGED <<now, shared_dsq, local_dsq, target, slice, runVars, quanta>>

-----------------------------------------------------------------------------
(* A CPU's scheduling loop                                                  *)

\* The CPU is in schedule(): it runs nothing, and is not in the idle loop.
Picking(cpu) == curr[cpu] = NoTask /\ cpu \notin idle /\ RqFree(cpu)

Resched(cpu) ==
    /\ cpu \in kicked
    /\ idle' = idle \ {cpu}
    /\ idle_mask' = idle_mask \ {cpu}
    /\ kicked' = kicked \ {cpu}
    /\ UNCHANGED <<now, shared_dsq, local_dsq, taskVars, runVars, quanta>>

\* Mutant of Eligible: any CPU takes any task.
EligibleAnywhere(cpu) == 1 .. Len(shared_dsq)

\* The positions of the shared queue that may be moved to cpu.
Eligible(cpu) == {i \in 1 .. Len(shared_dsq) : cpu \in Affinity[shared_dsq[i]]}

\* Mutant of MoveToLocal: the last eligible task is moved over.
MoveLastToLocal(cpu) ==
    /\ Picking(cpu)
    /\ local_dsq[cpu] = << >>
    /\ \E i \in Eligible(cpu) :
        /\ \A j \in Eligible(cpu) : i >= j
        /\ local_dsq' = [local_dsq EXCEPT ![cpu] = <<shared_dsq[i]>>]
        /\ shared_dsq' = RemoveAt(shared_dsq, i)
        /\ quanta' = [quanta EXCEPT ![shared_dsq[i]] = 0]
    /\ UNCHANGED <<now, taskVars, runVars, idleVars>>

\* The local queue is empty, so ops.dispatch is called, and moves the first
\* eligible task over.
MoveToLocal(cpu) ==
    /\ Picking(cpu)
    /\ local_dsq[cpu] = << >>
    /\ \E i \in Eligible(cpu) :
        /\ \A j \in Eligible(cpu) : i <= j
        /\ local_dsq' = [local_dsq EXCEPT ![cpu] = <<shared_dsq[i]>>]
        /\ shared_dsq' = RemoveAt(shared_dsq, i)
        /\ quanta' = [quanta EXCEPT ![shared_dsq[i]] = 0]
    /\ UNCHANGED <<now, taskVars, runVars, idleVars>>

\* ops.dispatch moved nothing: the CPU enters the idle loop.
GoIdle(cpu) ==
    /\ Picking(cpu)
    /\ local_dsq[cpu] = << >>
    /\ Eligible(cpu) = {}
    /\ idle' = idle \cup {cpu}
    /\ idle_mask' = idle_mask \cup {cpu}
    /\ UNCHANGED <<now, shared_dsq, local_dsq, taskVars, runVars, kicked, quanta>>

InShared(p) == Contains(shared_dsq, p)

\* q is in front of p in the queue s.
InFront(s, q, p) == \E i, j \in 1 .. Len(s) : i < j /\ s[i] = q /\ s[j] = p

\* The waiting tasks for which one more quantum begins when cpu runs p.
Overtaken(cpu, p) == {q \in Tasks : InShared(q) /\ cpu \in Affinity[q] /\ slice[p] = SLICE}

\* The head of the local queue is run; ops.running is called for it.
RunNext(cpu, p) ==
    /\ Picking(cpu)
    /\ local_dsq[cpu] # << >>
    /\ p = Head(local_dsq[cpu])
    /\ local_dsq' = [local_dsq EXCEPT ![cpu] = Tail(@)]
    /\ curr' = [curr EXCEPT ![cpu] = p]
    /\ exec_start' = [exec_start EXCEPT ![cpu] = now]
    /\ SetStatus(p, "running")
    /\ quanta' = [q \in Tasks |->
                     IF q \in Overtaken(cpu, p) /\ quanta[q] < WaitCap
                     THEN quanta[q] + 1 ELSE quanta[q]]
    /\ UNCHANGED <<now, shared_dsq, target, slice, idleVars>>

\* The framework takes p off cpu, under the lock of its run queue, having charged
\* it the time it ran.
Stop(cpu, p, left) ==
    /\ curr[cpu] = p
    /\ RqFree(cpu)
    /\ curr' = [curr EXCEPT ![cpu] = NoTask]
    /\ exec_start' = [exec_start EXCEPT ![cpu] = 0]
    /\ slice' = [slice EXCEPT ![p] = left]
    /\ UNCHANGED <<now, shared_dsq, idleVars, quanta>>

\* The slice is used up and the task still runnable: ops.stopping, and then
\* ops.enqueue under the same lock.
Expire(cpu, p) ==
    /\ Stop(cpu, p, 0)
    /\ Elapsed(exec_start[cpu]) >= slice[p]
    /\ SetStatus(p, "requeue")
    /\ target' = [target EXCEPT ![p] = cpu]
    /\ UNCHANGED local_dsq

\* A higher class takes the CPU: what is left of the slice stays with the task,
\* which returns to the head of the local queue without ops.enqueue.
Preempt(cpu, p) ==
    LET used == Elapsed(exec_start[cpu]) IN
    /\ used \in 1 .. slice[p] - 1
    /\ Stop(cpu, p, slice[p] - used)
    /\ SetStatus(p, "queued")
    /\ local_dsq' = [local_dsq EXCEPT ![cpu] = <<p>> \o @]
    /\ UNCHANGED target

Sleep(cpu, p) ==
    /\ Stop(cpu, p, 0)
    /\ SetStatus(p, "asleep")
    /\ UNCHANGED <<local_dsq, target>>

\* The kernel frees the task and its storage with it.
Exit(cpu, p) ==
    /\ Stop(cpu, p, 0)
    /\ SetStatus(p, "none")
    /\ UNCHANGED <<local_dsq, target>>

\* Time passes, but no further than Overrun beyond a running task's slice.
Tick ==
    /\ \A cpu \in Cpus : curr[cpu] # NoTask =>
            Elapsed(exec_start[cpu]) < slice[curr[cpu]] + Overrun
    /\ now' = (now + 1) % TimeMod
    /\ UNCHANGED <<shared_dsq, local_dsq, taskVars, runVars, idleVars, quanta>>

\* What the framework does, whatever the callbacks keep for themselves.
ScxTaskStep(p) ==
    \/ Fork(p)
    \/ InsertLocal(p)
    \/ BeginEnqueue(p)
    \/ InsertShared(p)
    \/ LeaveOut(p)

ScxCpuStep(cpu) ==
    \/ Resched(cpu)
    \/ MoveToLocal(cpu)
    \/ GoIdle(cpu)

ScxRunStep(cpu, p) ==
    \/ SelectCpu(p, cpu)
    \/ RunNext(cpu, p)
    \/ Expire(cpu, p)
    \/ Preempt(cpu, p)
    \/ Sleep(cpu, p)
    \/ Exit(cpu, p)

ScxNext ==
    \/ \E p \in Tasks : ScxTaskStep(p)
    \/ \E cpu \in Cpus : ScxCpuStep(cpu)
    \/ \E cpu \in Cpus, p \in Tasks : ScxRunStep(cpu, p)
    \/ Tick

ScxSpec == ScxInit /\ [][ScxNext]_scxVars

-----------------------------------------------------------------------------
(* What must hold whatever the callbacks are                                *)

InLocal(p) == \E cpu \in Cpus : Contains(local_dsq[cpu], p)

Runs(p) == \E cpu \in Cpus : curr[cpu] = p

\* A runnable task that was inserted is in exactly one place (the shared queue,
\* one local queue or one CPU) and any other task in none: the shortcut of
\* select_cpu and ops.enqueue never both insert it, and neither loses it.
OnePlace ==
    /\ IsInjective(shared_dsq)
    /\ \A cpu \in Cpus : IsInjective(local_dsq[cpu])
    /\ \A c, d \in Cpus, p \in Tasks :
          Contains(local_dsq[c], p) /\ Contains(local_dsq[d], p) => c = d
    /\ \A c, d \in Cpus : curr[c] = curr[d] /\ curr[c] # NoTask => c = d
    /\ \A p \in Tasks : /\ ~(InShared(p) /\ InLocal(p))
                        /\ status[p] = "queued" <=> InShared(p) \/ InLocal(p)
                        /\ status[p] = "running" <=> Runs(p)

\* FR-4 of the round-robin and FR-3 of the fair scheduler: a task runs, and waits
\* in a local queue to run, only on CPUs of its affinity mask.
AffinityRespected ==
    \A cpu \in Cpus :
        /\ \A p \in Tasks : Contains(local_dsq[cpu], p) => cpu \in Affinity[p]
        /\ curr[cpu] # NoTask => cpu \in Affinity[curr[cpu]]

\* ops.enqueue kicks nobody.  Still no task waits in the shared queue while all
\* CPUs that may run it sleep: one is awake or has been told to reschedule.
WaiterHasACpu ==
    \A p \in Tasks : InShared(p) =>
        \E cpu \in Affinity[p] : cpu \notin idle \/ cpu \in kicked

\* The run queue whose lock an enqueue takes is that of a CPU the task may use.
TargetAllowed ==
    \A p \in Tasks : status[p] \in {"selected", "requeue", "stamped"} => target[p] \in Affinity[p]

\* Two callbacks that are between their stamp and their insertion run under the
\* locks of two CPUs: the race of rr_enqueue is one between CPUs only.
LockHeldByOne ==
    \A p, q \in Tasks :
        status[p] \in InEnqueue /\ status[q] \in InEnqueue /\ target[p] = target[q] => p = q

\* The inductive invariant: a local queue or a CPU gets a task only from the CPU
\* its enqueue was aimed at, and that CPU is the one a waiter can count on.
ScxIInv ==
    /\ ScxTypeOK
    /\ OnePlace
    /\ AffinityRespected
    /\ TargetAllowed
    /\ WaiterHasACpu
    /\ LockHeldByOne

\* An insertion goes behind all who wait, nobody in the shared queue moves back,
\* and a task leaves it ahead of another only for a CPU the other may not use.
KeepsOrder ==
    \A p, q \in Tasks : InShared(q) /\ InShared(q)' =>
        /\ InShared(p)' /\ (InShared(p) => InFront(shared_dsq, q, p)) =>
              InFront(shared_dsq', q, p)
        /\ InFront(shared_dsq, q, p) /\ ~InShared(p)' =>
              \E cpu \in Affinity[p] \ Affinity[q] : Contains(local_dsq'[cpu], p)

\* What first in, first out is on CPUs that differ in the tasks they may run,
\* whatever CPU enqueues or dispatches.
InInsertionOrder == [][KeepsOrder]_scxVars

\* A task that waits in the shared queue is run eventually (FR-3 of the
\* round-robin, FR-2 of the fair scheduler).
NoStarvation == \A p \in Tasks : InShared(p) ~> status[p] = "running"

\* The tasks the scheduler holds, whatever queue they are in.  It does not hold one
\* that ops.enqueue left out: nothing will ever run it.
Ready == {p \in Tasks : status[p] \in {"selected", "requeue", "stamped", "queued"}}

Handover == INSTANCE TaskHandover WITH ready <- Ready, running <- curr

\* Through all callbacks a task is in one hand at a time, reaches only CPUs of its
\* mask, and is never dropped: what was handed over is run, or handed back.
HandsOver == Handover!Spec
=============================================================================
