------------------------------ MODULE FairBpf ------------------------------
(***************************************************************************)
(* The eBPF fair scheduler (impl/bpf/src/sched_ext_fair.bpf.c): its        *)
(* callbacks, conjoined to the steps of the framework that calls them.     *)
(* There is no direct insertion, no init_task and no stopping callback: a  *)
(* task's context is created when it is first enqueued, and vruntime is    *)
(* charged when the task starts to run.                                    *)
(***************************************************************************)
EXTENDS ScxFramework

CONSTANTS
    Weight,         \* p->scx.weight
    NICE_0_WEIGHT,
    AllocFails      \* whether bpf_task_storage_get may fail to create storage

ASSUME WeightAssumption ==
    /\ Weight \in [Tasks -> Nat]
    /\ NICE_0_WEIGHT \in Nat \ {0}
    /\ AllocFails \in BOOLEAN

VARIABLES
    tctx,           \* task_ctx_map: task -> its task_ctx, or NoCtx
    due,            \* history: time waited since the enqueue or the preemption,
                    \* and, after a preemption, all time since the enqueue
    since,          \* history: time since s_enqueue last stamped the task
    metered         \* history: what the task's vruntime should have been charged

history == <<due, since, metered>>
fairVars == <<tctx, history>>
vars == <<scxVars, fairVars>>

NoCtx == [vruntime |-> -1, enqueue_time |-> -1]

TaskCtx == [vruntime: 0 .. TimeMod - 1, enqueue_time: 0 .. TimeMod - 1]

TypeOK ==
    /\ ScxTypeOK
    /\ tctx \in [Tasks -> TaskCtx \cup {NoCtx}]
    /\ \A h \in {due, since, metered} : h \in [Tasks -> 0 .. TimeMod - 1]

\* Mutant of GetTaskCtx: the context is looked up, never created.
LookupTaskCtx(p) == tctx[p]

\* get_task_ctx, when the allocation succeeds.
GetTaskCtx(p) == IF tctx[p] = NoCtx THEN [vruntime |-> 0, enqueue_time |-> 0] ELSE tctx[p]

\* The product is a u64, as time is.
CalcDeltaVruntime(wall_ns, weight) ==
    ((wall_ns * NICE_0_WEIGHT) % TimeMod) \div (IF weight = 0 THEN NICE_0_WEIGHT ELSE weight)

-----------------------------------------------------------------------------
(* s_select_cpu and s_enqueue                                               *)

FairFork(p) == Fork(p) /\ UNCHANGED fairVars

\* is_idle is not asked for.
SSelectCpu(p, cpu) == SelectCpu(p, cpu) /\ UNCHANGED fairVars

\* Mutant of SEnqueueStamp: only a new context is stamped.
SEnqueueStampOnce(p) ==
    /\ BeginEnqueue(p)
    /\ tctx' = [tctx EXCEPT ![p] = IF @ = NoCtx THEN [vruntime |-> 0, enqueue_time |-> now] ELSE @]
    /\ since' = [since EXCEPT ![p] = 0]
    /\ UNCHANGED <<due, metered>>

\* s_enqueue up to the insertion.
SEnqueueStamp(p) ==
    /\ BeginEnqueue(p)
    /\ tctx' = [tctx EXCEPT ![p] = [GetTaskCtx(p) EXCEPT !.enqueue_time = now]]
    /\ since' = [since EXCEPT ![p] = 0]
    /\ UNCHANGED <<due, metered>>

\* "if (!ctx) return": the first enqueue of the task finds no memory.
SEnqueueNoCtx(p) ==
    /\ AllocFails
    /\ tctx[p] = NoCtx
    /\ LeaveOut(p)
    /\ UNCHANGED fairVars

SEnqueueInsert(p) == InsertShared(p) /\ UNCHANGED fairVars

-----------------------------------------------------------------------------
(* s_dispatch, s_running and s_exit_task                                    *)

FairResched(cpu) == Resched(cpu) /\ UNCHANGED fairVars

\* s_dispatch only consumes: a task is moved, or the CPU goes idle.
SDispatch(cpu) ==
    /\ MoveToLocal(cpu) \/ GoIdle(cpu)
    /\ UNCHANGED fairVars

\* s_running adds to vruntime the time since enqueue_time, which it leaves.
SRunning(p) ==
    LET ctx == GetTaskCtx(p)
        delta == CalcDeltaVruntime(Elapsed(ctx.enqueue_time), Weight[p])
    IN  [ctx EXCEPT !.vruntime = (@ + delta) % TimeMod]

FairRun(cpu) ==
    \E p \in Tasks :
        /\ RunNext(cpu, p)
        /\ tctx' = [tctx EXCEPT ![p] = SRunning(p)]
        /\ metered' = [metered EXCEPT ![p] = (@ + CalcDeltaVruntime(due[p], Weight[p])) % TimeMod]
        /\ due' = [due EXCEPT ![p] = 0]
        /\ UNCHANGED since

FairExpire(cpu, p) == Expire(cpu, p) /\ UNCHANGED fairVars

FairPreempt(cpu, p) ==
    /\ Preempt(cpu, p)
    /\ due' = [due EXCEPT ![p] = since[p]]
    /\ UNCHANGED <<tctx, since, metered>>

FairSleep(cpu, p) == Sleep(cpu, p) /\ UNCHANGED fairVars

\* s_exit_task does nothing; the kernel frees the storage.
SExitTask(cpu, p) ==
    /\ Exit(cpu, p)
    /\ tctx' = [tctx EXCEPT ![p] = NoCtx]
    /\ since' = [since EXCEPT ![p] = 0]
    /\ metered' = [metered EXCEPT ![p] = 0]
    /\ UNCHANGED due

\* One tick more for the tasks in T.
Longer(h, T) == [p \in Tasks |-> IF p \in T THEN (h[p] + 1) % TimeMod ELSE h[p]]

FairTick ==
    /\ Tick
    /\ due' = Longer(due, {p \in Tasks : status[p] \in {"stamped", "queued"}})
    /\ since' = Longer(since, {p \in Tasks : tctx[p] # NoCtx})
    /\ UNCHANGED <<tctx, metered>>

-----------------------------------------------------------------------------

\* The scheduler is registered; no task has a context.
Init ==
    /\ ScxInit
    /\ tctx = [p \in Tasks |-> NoCtx]
    /\ due = [p \in Tasks |-> 0]
    /\ since = [p \in Tasks |-> 0]
    /\ metered = [p \in Tasks |-> 0]

EnqueueStep(p) == SEnqueueStamp(p) \/ SEnqueueNoCtx(p) \/ SEnqueueInsert(p)

CpuStep(cpu) ==
    \/ FairResched(cpu)
    \/ SDispatch(cpu)
    \/ FairRun(cpu)
    \/ \E p \in Tasks : FairExpire(cpu, p)

Next ==
    \/ \E p \in Tasks : FairFork(p) \/ EnqueueStep(p)
    \/ \E p \in Tasks, cpu \in Cpus :
          SSelectCpu(p, cpu) \/ FairPreempt(cpu, p) \/ FairSleep(cpu, p) \/ SExitTask(cpu, p)
    \/ \E cpu \in Cpus : CpuStep(cpu)
    \/ FairTick

Spec == Init /\ [][Next]_vars

\* As for the round-robin scheduler: fair run-queue locks, and time passes.
FairSpec ==
    /\ Spec
    /\ \A p \in Tasks : SF_vars(EnqueueStep(p))
    /\ \A cpu \in Cpus : SF_vars(CpuStep(cpu))
    /\ WF_vars(FairTick)

-----------------------------------------------------------------------------

\* vruntime is the weighted time the task waited from each s_enqueue on, each
\* wait charged once and in full, and none of the time it ran, although vruntime
\* "tracks how much CPU time a task has consumed" (scheduler_internals.md).  Only
\* after a preemption does s_running charge time on a CPU: once more all that has
\* passed since the same s_enqueue.
ChargesTheWait ==
    \A p \in Tasks : tctx[p] # NoCtx => tctx[p].vruntime = metered[p]

\* s_enqueue on its early return: "Dafny post-condition: task must end up on a
\* dispatch queue".
Enqueueing(p) == status[p] = "selected" \/ status[p] \in InEnqueue
EndsOnAQueue == [][\A p \in Tasks : Enqueueing(p) /\ ~Enqueueing(p)' => InShared(p)']_vars

\* FR-2 in quanta: as no wake-up overtakes the shared queue, a waiting task sees
\* at most one full quantum of each other task begin on the CPUs it may use.
BoundedWait ==
    \A p \in Tasks : InShared(p) => quanta[p] <= Cardinality(Tasks) - 1

\* s_dispatch: "Consume from global DSQ — picks task with lowest vruntime".
LowestVruntimeFirst ==
    [][\A cpu \in Cpus, p, q \in Tasks :
          /\ MoveToLocal(cpu) /\ local_dsq'[cpu] = <<p>>
          /\ InShared(q) /\ cpu \in Affinity[q]
          => tctx[p].vruntime <= tctx[q].vruntime]_vars
=============================================================================
