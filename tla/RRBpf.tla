------------------------------- MODULE RRBpf -------------------------------
(***************************************************************************)
(* The eBPF round-robin scheduler (impl-rr/bpf/src/sched_ext_rr.bpf.c):    *)
(* its callbacks, conjoined to the steps of the framework that calls them. *)
(* rr_enqueue takes two steps, the time stamp and the insertion, for the   *)
(* run-queue lock it runs under is that of one CPU.                        *)
(***************************************************************************)
EXTENDS ScxFramework

CONSTANT CounterMod     \* the counters are u64: they count modulo CounterMod

ASSUME CounterAssumption == CounterMod \in Nat \ {0}

VARIABLES
    tctx,           \* task_ctx_map: task -> its task_ctx, or NoCtx
    direct,         \* the tasks rr_select_cpu asked to insert into a local queue
    nr_enqueued, nr_dispatched

counters == <<nr_enqueued, nr_dispatched>>
rrVars == <<tctx, direct, counters>>
vars == <<scxVars, rrVars>>

NoCtx == [enqueue_time |-> -1, remaining_slice |-> -1]

TaskCtx == [enqueue_time: 0 .. TimeMod - 1, remaining_slice: 0 .. SLICE]

TypeOK ==
    /\ ScxTypeOK
    /\ tctx \in [Tasks -> TaskCtx \cup {NoCtx}]
    /\ direct \in SUBSET Tasks
    /\ nr_enqueued \in 0 .. CounterMod - 1
    /\ nr_dispatched \in 0 .. CounterMod - 1

Bump(counter) == (counter + 1) % CounterMod

-----------------------------------------------------------------------------
(* rr_init_task, rr_select_cpu and rr_enqueue                              *)

\* A fork: rr_init_task creates the context.  On -ENOMEM the fork fails.
RrInitTask(p) ==
    /\ Fork(p)
    /\ tctx' = [tctx EXCEPT ![p] = [enqueue_time |-> 0, remaining_slice |-> SLICE]]
    /\ UNCHANGED <<direct, counters>>

\* With is_idle the task goes to the local queue of the CPU returned, and
\* rr_enqueue will not be called for it.
RrSelectCpu(p, cpu) ==
    /\ SelectCpu(p, cpu)
    /\ direct' = IF cpu \in idle_mask THEN direct \cup {p} ELSE direct
    /\ UNCHANGED <<tctx, counters>>

\* Mutant of DirectInsert: the task is inserted and goes on to rr_enqueue.
DirectInsertAndEnqueue(p) ==
    /\ status[p] = "selected"
    /\ p \in direct
    /\ RqFree(target[p])
    /\ local_dsq' = [local_dsq EXCEPT ![target[p]] = Append(@, p)]
    /\ slice' = [slice EXCEPT ![p] = SLICE]
    /\ direct' = direct \ {p}
    /\ UNCHANGED <<now, shared_dsq, status, target, runVars, idleVars, quanta, tctx, counters>>

\* The framework finishes the insertion rr_select_cpu asked for.
DirectInsert(p) ==
    /\ p \in direct
    /\ InsertLocal(p)
    /\ direct' = direct \ {p}
    /\ UNCHANGED <<tctx, counters>>

Stamped(p) ==
    IF tctx[p] = NoCtx THEN NoCtx
    ELSE [enqueue_time |-> now, remaining_slice |-> SLICE]

\* rr_enqueue up to the insertion, for a wake-up or for a task that stopped.
RrEnqueueStamp(p) ==
    /\ p \notin direct
    /\ BeginEnqueue(p)
    /\ tctx' = [tctx EXCEPT ![p] = Stamped(p)]
    /\ UNCHANGED <<direct, counters>>

\* The rest of rr_enqueue: tail insertion into SHARED_DSQ, and the counter.
RrEnqueueInsert(p) ==
    /\ InsertShared(p)
    /\ nr_enqueued' = Bump(nr_enqueued)
    /\ UNCHANGED <<tctx, direct, nr_dispatched>>

-----------------------------------------------------------------------------
(* A CPU's scheduling loop: rr_dispatch, rr_running and rr_stopping         *)

RrResched(cpu) == Resched(cpu) /\ UNCHANGED rrVars

\* rr_dispatch moved a task, and counts it.
RrDispatch(cpu) ==
    /\ MoveToLocal(cpu)
    /\ nr_dispatched' = Bump(nr_dispatched)
    /\ UNCHANGED <<tctx, direct, nr_enqueued>>

\* Mutant of RrDispatchNothing: a dispatch that moved nothing is counted.
RrDispatchCounted(cpu) ==
    /\ GoIdle(cpu)
    /\ nr_dispatched' = Bump(nr_dispatched)
    /\ UNCHANGED <<tctx, direct, nr_enqueued>>

\* It moved none: nothing is counted, and the CPU goes idle.
RrDispatchNothing(cpu) == GoIdle(cpu) /\ UNCHANGED rrVars

RrRunning(p) ==
    IF tctx[p] = NoCtx THEN NoCtx ELSE [tctx[p] EXCEPT !.enqueue_time = now]

Run(cpu) ==
    /\ \E p \in Tasks : RunNext(cpu, p) /\ tctx' = [tctx EXCEPT ![p] = RrRunning(p)]
    /\ UNCHANGED <<direct, counters>>

\* Mutant of RrStopping: the subtraction is not guarded.
RrStoppingUnguarded(p) ==
    IF tctx[p] = NoCtx THEN NoCtx
    ELSE [tctx[p] EXCEPT !.remaining_slice = @ - Elapsed(tctx[p].enqueue_time)]

\* Mutant of RrStopping: only a used-up slice is accounted for.
RrStoppingKeeps(p) ==
    IF tctx[p] = NoCtx THEN NoCtx
    ELSE LET used == Elapsed(tctx[p].enqueue_time) IN
         [tctx[p] EXCEPT !.remaining_slice = IF used >= @ THEN 0 ELSE @]

RrStopping(p) ==
    IF tctx[p] = NoCtx THEN NoCtx
    ELSE LET used == Elapsed(tctx[p].enqueue_time) IN
         [tctx[p] EXCEPT !.remaining_slice = IF used >= @ THEN 0 ELSE @ - used]

Stops(p) ==
    /\ tctx' = [tctx EXCEPT ![p] = RrStopping(p)]
    /\ UNCHANGED <<direct, counters>>

RrExpire(cpu, p) == Expire(cpu, p) /\ Stops(p)
RrPreempt(cpu, p) == Preempt(cpu, p) /\ Stops(p)
RrSleep(cpu, p) == Sleep(cpu, p) /\ Stops(p)

\* There is no exit_task callback: the kernel frees the task's storage.
RrExit(cpu, p) ==
    /\ Exit(cpu, p)
    /\ tctx' = [tctx EXCEPT ![p] = NoCtx]
    /\ UNCHANGED <<direct, counters>>

RrTick == Tick /\ UNCHANGED rrVars

-----------------------------------------------------------------------------

\* After rr_init: no task has a context.
Init ==
    /\ ScxInit
    /\ tctx = [p \in Tasks |-> NoCtx]
    /\ direct = {}
    /\ nr_enqueued = 0
    /\ nr_dispatched = 0

EnqueueStep(p) == DirectInsert(p) \/ RrEnqueueStamp(p) \/ RrEnqueueInsert(p)

CpuStep(cpu) ==
    \/ RrResched(cpu)
    \/ RrDispatch(cpu)
    \/ RrDispatchNothing(cpu)
    \/ Run(cpu)
    \/ \E p \in Tasks : RrExpire(cpu, p)

Next ==
    \/ \E p \in Tasks : RrInitTask(p) \/ EnqueueStep(p)
    \/ \E p \in Tasks, cpu \in Cpus :
          RrSelectCpu(p, cpu) \/ RrPreempt(cpu, p) \/ RrSleep(cpu, p) \/ RrExit(cpu, p)
    \/ \E cpu \in Cpus : CpuStep(cpu)
    \/ RrTick

Spec == Init /\ [][Next]_vars

\* Each CPU keeps running its scheduling loop and each enqueue that began ends.
\* Both wait for run-queue locks, which are queued spin locks and so granted
\* in turn: strong fairness.  Time passes.  Nothing makes a task wake or sleep.
FairSpec ==
    /\ Spec
    /\ \A p \in Tasks : SF_vars(EnqueueStep(p))
    /\ \A cpu \in Cpus : SF_vars(CpuStep(cpu))
    /\ WF_vars(RrTick)

-----------------------------------------------------------------------------

\* The statistics the loader reads: what was enqueued and not dispatched is
\* exactly what waits in SHARED_DSQ.
CountersMatchQueue ==
    (nr_enqueued - nr_dispatched) % CounterMod = Len(shared_dsq) % CounterMod

\* rr_stopping's accounting never leaves a task more than the framework will
\* still let it run, however it was inserted, preempted or overran.
RemainingWithinSlice ==
    \A p \in Tasks : status[p] \in {"queued", "running"} =>
        tctx[p].remaining_slice <= slice[p]

\* FR-3 in quanta: between a task's insertion and its dispatch, the CPUs it may
\* use begin at most one quantum of each other task, and, where it may use
\* several, one more on each of the others: rr_select_cpu can still hand an idle
\* CPU to a task that wakes up, ahead of those who wait.
BoundedWait ==
    \A p \in Tasks : InShared(p) =>
        quanta[p] <= Cardinality(Tasks) - 1 + Cardinality(Affinity[p]) - 1

\* fifo_ordering.dfy's FIFOOrdered, on the queue the C code keeps: "FIFO order
\* means earliest-enqueued first" (rr_dispatch).
EarliestEnqueuedFirst ==
    \A i, j \in 1 .. Len(shared_dsq) :
        i < j => tctx[shared_dsq[i]].enqueue_time <= tctx[shared_dsq[j]].enqueue_time
=============================================================================
