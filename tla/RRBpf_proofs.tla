---------------------------- MODULE RRBpf_proofs ----------------------------
(***************************************************************************)
(* Proofs about the eBPF round-robin scheduler, for any number of tasks    *)
(* and CPUs, any affinity, slice, clock width and counter width.           *)
(***************************************************************************)
EXTENDS RRBpf, ScxFramework_proofs

LEMMA CounterFacts == CounterMod \in Nat \ {0}
BY CounterAssumption DEF CounterAssumption

-----------------------------------------------------------------------------
(* The callbacks keep to the framework's steps.                             *)

LEMMA NextFramework ==
    ASSUME [Next]_vars
    PROVE  [ScxNext]_scxVars
<1>1. ASSUME NEW p \in Tasks, RrInitTask(p) \/ EnqueueStep(p) PROVE ScxNext
  BY <1>1 DEF RrInitTask, EnqueueStep, DirectInsert, RrEnqueueStamp, RrEnqueueInsert,
              ScxNext, ScxTaskStep
<1>2. ASSUME NEW p \in Tasks, NEW cpu \in Cpus,
             \/ RrSelectCpu(p, cpu) \/ RrPreempt(cpu, p) \/ RrSleep(cpu, p)
             \/ RrExit(cpu, p) \/ RrExpire(cpu, p) \/ RunNext(cpu, p)
      PROVE  ScxNext
  BY <1>2 DEF RrSelectCpu, RrPreempt, RrSleep, RrExit, RrExpire, ScxNext, ScxRunStep
<1>3. ASSUME NEW cpu \in Cpus, RrResched(cpu) \/ RrDispatch(cpu) \/ RrDispatchNothing(cpu)
      PROVE  ScxNext
  BY <1>3 DEF RrResched, RrDispatch, RrDispatchNothing, ScxNext, ScxCpuStep
<1>4. CASE RrTick
  BY <1>4 DEF RrTick, ScxNext
<1>5. CASE UNCHANGED vars
  BY <1>5 DEF vars
<1> QED
  BY <1>1, <1>2, <1>3, <1>4, <1>5 DEF Next, CpuStep, Run

\* The round-robin scheduler's behaviours are behaviours of the framework.
THEOREM Framework == Spec => ScxSpec
<1>1. Init => ScxInit
  BY DEF Init
<1> QED
  BY <1>1, NextFramework, PTL DEF Spec, ScxSpec

\* So it has what the framework guarantees.  select_cpu's shortcut and rr_enqueue
\* insert a task once, and lose none.
THEOREM OnePlaceAlways == Spec => []OnePlace
BY Framework, ScxInvariance, PTL DEF ScxIInv

\* FR-4: a CPU gets only tasks that may run there, although the head of the
\* shared queue may be none of them.
THEOREM AffinityAlwaysRespected == Spec => []AffinityRespected
BY Framework, ScxInvariance, PTL DEF ScxIInv

\* A waiting task can count on a CPU that is awake or told to reschedule, although
\* rr_enqueue kicks none.
THEOREM WaiterAlwaysHasACpu == Spec => []WaiterHasACpu
BY Framework, ScxInvariance, PTL DEF ScxIInv

\* rr_enqueue has no early return, and the shortcut only takes its place.
LEMMA NextLeavesNoneOut ==
    ASSUME ScxTypeOK, [Next]_vars
    PROVE  NobodyLeftOut
<1> USE DEF ScxTypeOK
<1> SUFFICES ASSUME NEW q \in Tasks, LeaveOut(q)
             PROVE  FALSE
  BY DEF NobodyLeftOut
<1>1. status[q] \in {"selected", "requeue"} /\ status'[q] = "limbo"
  BY DEF LeaveOut, MayEnqueue, SetStatus
<1>2. ASSUME NEW p \in Tasks, NEW s \in Status \ {"limbo"}, status' = [status EXCEPT ![p] = s]
      PROVE  FALSE
  BY <1>1, <1>2
<1>3. status' # status
  BY <1>1
<1>4. ASSUME NEW p \in Tasks, RrInitTask(p) \/ EnqueueStep(p) PROVE FALSE
  BY <1>2, <1>4 DEF RrInitTask, EnqueueStep, DirectInsert, RrEnqueueStamp, RrEnqueueInsert,
                    Fork, InsertLocal, BeginEnqueue, InsertShared, SetStatus, Status
<1>5. ASSUME NEW p \in Tasks, NEW cpu \in Cpus,
             \/ RrSelectCpu(p, cpu) \/ RrPreempt(cpu, p) \/ RrSleep(cpu, p)
             \/ RrExit(cpu, p) \/ RrExpire(cpu, p) \/ RunNext(cpu, p)
      PROVE  FALSE
  BY <1>2, <1>5 DEF RrSelectCpu, SelectCpu, RrPreempt, Preempt, RrSleep, Sleep, RrExit, Exit,
                    RrExpire, Expire, RunNext, SetStatus, Status
<1>6. ASSUME NEW cpu \in Cpus, RrResched(cpu) \/ RrDispatch(cpu) \/ RrDispatchNothing(cpu)
      PROVE  FALSE
  BY <1>3, <1>6 DEF RrResched, Resched, RrDispatch, MoveToLocal, RrDispatchNothing, GoIdle,
                    taskVars
<1>7. CASE RrTick \/ UNCHANGED vars
  BY <1>3, <1>7 DEF RrTick, Tick, vars, scxVars, taskVars
<1> QED
  BY <1>4, <1>5, <1>6, <1>7 DEF Next, CpuStep, Run

\* From its wake-up on a task is held by the scheduler or run, never both and never
\* on two CPUs, and what the scheduler holds it gives only to a CPU of the mask: in
\* the two-step rr_enqueue as by the shortcut of rr_select_cpu.
THEOREM Refinement == Spec => HandsOver
<1>1. Spec => [](ScxTypeOK) /\ ScxSpec
  BY Framework, ScxInvariance, PTL DEF ScxIInv
<1>2. Spec => [][NobodyLeftOut]_scxVars
  <2>1. ScxTypeOK /\ [Next]_vars => [NobodyLeftOut]_scxVars
    BY NextLeavesNoneOut
  <2> QED
    BY <1>1, <2>1, PTL DEF Spec
<1> QED
  BY <1>1, <1>2, ScxRefinement

\* SHARED_DSQ is served in the order of insertion, whatever CPUs enqueue into it
\* and dispatch from it, but for the tasks the dispatching CPU may not run.
THEOREM InOrderAlways == Spec => InInsertionOrder
BY Framework, ScxInOrder

-----------------------------------------------------------------------------
(* The slice accounting                                                     *)

USE DEF SetStatus, taskVars, runVars, idleVars, scxVars

\* rr_running stamped a running task when the framework started to charge it.
RunStamped ==
    \A cpu \in Cpus : curr[cpu] # NoTask /\ tctx[curr[cpu]] # NoCtx =>
        tctx[curr[cpu]].enqueue_time = exec_start[cpu]

\* What rr_stopping subtracts is what the framework subtracts, so the task's own
\* account stays within the framework's.
IInv ==
    /\ TypeOK
    /\ RunStamped
    /\ RemainingWithinSlice

LEMMA ElapsedType ==
    ASSUME now \in 0 .. TimeMod - 1, NEW t \in 0 .. TimeMod - 1
    PROVE  Elapsed(t) \in 0 .. TimeMod - 1
BY ConstantFacts DEF Elapsed

LEMMA NoCtxIsNone == NoCtx \notin TaskCtx
BY DEF NoCtx, TaskCtx

LEMMA InitSlices == Init => IInv
<1> SUFFICES ASSUME Init PROVE IInv
  OBVIOUS
<1>1. ScxTypeOK
  BY InitIInv DEF Init, ScxIInv
<1>2. TypeOK
  BY <1>1, CounterFacts DEF Init, TypeOK
<1>3. RunStamped
  BY DEF Init, ScxInit, RunStamped
<1>4. RemainingWithinSlice
  BY DEF Init, ScxInit, RemainingWithinSlice
<1> QED
  BY <1>2, <1>3, <1>4 DEF IInv

LEMMA BumpType ==
    ASSUME NEW c \in 0 .. CounterMod - 1
    PROVE  Bump(c) \in 0 .. CounterMod - 1
BY CounterFacts DEF Bump

\* What the three callbacks write to a task's context.
LEMMA CtxTypes ==
    ASSUME TypeOK, NEW p \in Tasks
    PROVE  /\ Stamped(p) \in TaskCtx \cup {NoCtx}
           /\ RrRunning(p) \in TaskCtx \cup {NoCtx}
           /\ RrStopping(p) \in TaskCtx \cup {NoCtx}
<1>1. now \in 0 .. TimeMod - 1 /\ SLICE \in 0 .. SLICE
  BY ConstantFacts DEF TypeOK, ScxTypeOK
<1>2. CASE tctx[p] = NoCtx
  BY <1>2 DEF Stamped, RrRunning, RrStopping
<1>3. CASE tctx[p] # NoCtx
  <2>1. /\ tctx[p] \in TaskCtx
        /\ tctx[p].enqueue_time \in 0 .. TimeMod - 1
        /\ tctx[p].remaining_slice \in 0 .. SLICE
    BY <1>3 DEF TypeOK, TaskCtx
  <2> DEFINE used == Elapsed(tctx[p].enqueue_time)
             left == IF used >= tctx[p].remaining_slice
                     THEN 0 ELSE tctx[p].remaining_slice - used
  <2>2. used \in 0 .. TimeMod - 1
    BY <1>1, <2>1, ElapsedType
  <2>3. left \in 0 .. SLICE
    <3> HIDE DEF used
    <3> QED
      BY <2>1, <2>2, ConstantFacts
  <2>4. RrStopping(p) = [tctx[p] EXCEPT !.remaining_slice = left]
    BY <1>3 DEF RrStopping
  <2> HIDE DEF left
  <2>5. RrStopping(p) \in TaskCtx
    BY <2>1, <2>3, <2>4 DEF TaskCtx
  <2>6. Stamped(p) \in TaskCtx /\ RrRunning(p) \in TaskCtx
    BY <1>1, <1>3, <2>1 DEF Stamped, RrRunning, TaskCtx
  <2> QED
    BY <2>5, <2>6
<1> QED
  BY <1>2, <1>3

LEMMA NextTypeOK ==
    ASSUME TypeOK, ScxTypeOK', Next
    PROVE  TypeOK'
<1> USE CounterFacts, BumpType DEF TypeOK
<1>1. ASSUME NEW p \in Tasks, RrInitTask(p) PROVE TypeOK'
  <2>1. [enqueue_time |-> 0, remaining_slice |-> SLICE] \in TaskCtx
    BY ConstantFacts DEF TaskCtx
  <2> QED
    BY <1>1, <2>1 DEF RrInitTask, counters
<1>2. ASSUME NEW p \in Tasks, EnqueueStep(p) PROVE TypeOK'
  <2>1. Stamped(p) \in TaskCtx \cup {NoCtx}
    BY CtxTypes
  <2>2. CASE DirectInsert(p)
    BY <2>2 DEF DirectInsert, counters
  <2>3. CASE RrEnqueueStamp(p)
    BY <2>1, <2>3 DEF RrEnqueueStamp, counters
  <2>4. CASE RrEnqueueInsert(p)
    BY <2>4 DEF RrEnqueueInsert
  <2> QED
    BY <1>2, <2>2, <2>3, <2>4 DEF EnqueueStep
<1>3. ASSUME NEW p \in Tasks, NEW cpu \in Cpus, RrSelectCpu(p, cpu) PROVE TypeOK'
  BY <1>3 DEF RrSelectCpu, counters
<1>4. ASSUME NEW p \in Tasks, Stops(p) PROVE TypeOK'
  <2>1. RrStopping(p) \in TaskCtx \cup {NoCtx}
    BY CtxTypes
  <2> QED
    BY <1>4, <2>1 DEF Stops, counters
<1>5. ASSUME NEW p \in Tasks, NEW cpu \in Cpus, RrExit(cpu, p) PROVE TypeOK'
  BY <1>5 DEF RrExit, counters
<1>6. ASSUME NEW cpu \in Cpus, Run(cpu) PROVE TypeOK'
  <2>1. PICK p \in Tasks : tctx' = [tctx EXCEPT ![p] = RrRunning(p)]
    BY <1>6 DEF Run
  <2>2. RrRunning(p) \in TaskCtx \cup {NoCtx}
    BY CtxTypes
  <2> QED
    BY <1>6, <2>1, <2>2 DEF Run, counters
<1>7. ASSUME NEW cpu \in Cpus, RrDispatch(cpu) PROVE TypeOK'
  BY <1>7 DEF RrDispatch
<1>8. ASSUME UNCHANGED rrVars PROVE TypeOK'
  BY <1>8 DEF rrVars, counters
<1> QED
  BY <1>1, <1>2, <1>3, <1>4, <1>5, <1>6, <1>7, <1>8
  DEF Next, CpuStep, RrPreempt, RrSleep, RrExpire, RrResched, RrDispatchNothing, RrTick


\* rr_stopping takes a running task's account down with the framework's.
LEMMA StoppingCharges ==
    ASSUME TypeOK, RunStamped, RemainingWithinSlice, OnePlace,
           NEW cpu \in Cpus, NEW p \in Tasks, Preempt(cpu, p)
    PROVE  RrStopping(p).remaining_slice <= slice'[p]
<1> DEFINE used == Elapsed(exec_start[cpu])
<1>1. /\ used \in 1 .. slice[p] - 1
      /\ slice' = [slice EXCEPT ![p] = slice[p] - used]
      /\ curr[cpu] = p
  BY DEF Preempt, Stop
<1>2. slice[p] \in Nat /\ slice'[p] = slice[p] - used
  BY <1>1, ConstantFacts DEF TypeOK, ScxTypeOK
<1>3. tctx[p].remaining_slice <= slice[p]
  <2>1. status[p] = "running"
    BY <1>1 DEF OnePlace, Runs
  <2> QED
    BY <2>1 DEF RemainingWithinSlice
<1>4. CASE tctx[p] = NoCtx
  <2>1. RrStopping(p).remaining_slice = -1
    BY <1>4 DEF RrStopping, NoCtx
  <2> HIDE DEF used
  <2> QED
    BY <1>1, <1>2, <2>1
<1>5. CASE tctx[p] # NoCtx
  <2>1. tctx[p].enqueue_time = exec_start[cpu]
    BY <1>1, <1>5, NoTaskAssumption DEF RunStamped, NoTaskAssumption
  <2>2. tctx[p] \in TaskCtx /\ tctx[p].remaining_slice \in 0 .. SLICE
    BY <1>5 DEF TypeOK, TaskCtx
  <2> DEFINE left == IF used >= tctx[p].remaining_slice
                     THEN 0 ELSE tctx[p].remaining_slice - used
  <2>3. RrStopping(p) = [tctx[p] EXCEPT !.remaining_slice = left]
    BY <1>5, <2>1 DEF RrStopping
  <2>4. RrStopping(p).remaining_slice = left
    <3> HIDE DEF left
    <3> QED
      BY <2>2, <2>3 DEF TaskCtx
  <2> HIDE DEF used
  <2> QED
    BY <1>1, <1>2, <1>3, <2>2, <2>4, ConstantFacts
<1> QED
  BY <1>4, <1>5

LEMMA NextRunStamped ==
    ASSUME TypeOK, RunStamped, OnePlace, Next
    PROVE  RunStamped'
<1> USE NoTaskAssumption DEF TypeOK, ScxTypeOK, RunStamped, NoTaskAssumption
<1>1. ASSUME NEW p \in Tasks, Fork(p) \/ BeginEnqueue(p),
             \E ctx : tctx' = [tctx EXCEPT ![p] = ctx]
      PROVE  RunStamped'
  <2>1. status[p] # "running" /\ UNCHANGED <<curr, exec_start>>
    BY <1>1 DEF Fork, BeginEnqueue, MayEnqueue
  <2>2. \A cpu \in Cpus : curr[cpu] # p
    BY <2>1 DEF OnePlace, Runs
  <2> QED
    BY <1>1, <2>1, <2>2
<1>2. ASSUME NEW cpu \in Cpus, NEW p \in Tasks, NEW left, Stop(cpu, p, left),
             \E ctx : tctx' = [tctx EXCEPT ![p] = ctx]
      PROVE  RunStamped'
  <2>1. /\ curr[cpu] = p
        /\ curr' = [curr EXCEPT ![cpu] = NoTask]
        /\ exec_start' = [exec_start EXCEPT ![cpu] = 0]
    BY <1>2 DEF Stop
  <2>2. \A c \in Cpus : c # cpu => curr[c] # p
    BY <2>1 DEF OnePlace
  <2> QED
    BY <1>2, <2>1, <2>2
<1>3. ASSUME NEW cpu \in Cpus, NEW p \in Tasks, RunNext(cpu, p),
             tctx' = [tctx EXCEPT ![p] = RrRunning(p)]
      PROVE  RunStamped'
  <2>1. /\ local_dsq[cpu] # << >>
        /\ p = Head(local_dsq[cpu])
        /\ curr' = [curr EXCEPT ![cpu] = p]
        /\ exec_start' = [exec_start EXCEPT ![cpu] = now]
    BY <1>3 DEF RunNext
  <2>2. Contains(local_dsq[cpu], p)
    BY <2>1, TailQueue
  <2>3. \A c \in Cpus : curr[c] # p
    BY <2>2 DEF OnePlace, InLocal, Runs
  <2>4. tctx[p] # NoCtx => RrRunning(p).enqueue_time = now
    <3>1. ASSUME tctx[p] # NoCtx PROVE RrRunning(p).enqueue_time = now
      BY <3>1 DEF RrRunning, TaskCtx
    <3> QED
      BY <3>1
  <2>5. tctx[p] = NoCtx => RrRunning(p) = NoCtx
    BY DEF RrRunning
  <2> QED
    BY <1>3, <2>1, <2>3, <2>4, <2>5
<1>4. ASSUME UNCHANGED <<curr, exec_start, tctx>> PROVE RunStamped'
  BY <1>4
<1>5. ASSUME NEW p \in Tasks, RrInitTask(p) \/ EnqueueStep(p) PROVE RunStamped'
  <2>1. CASE RrInitTask(p)
    BY <1>1, <2>1 DEF RrInitTask
  <2>2. CASE RrEnqueueStamp(p)
    BY <1>1, <2>2 DEF RrEnqueueStamp
  <2>3. CASE DirectInsert(p) \/ RrEnqueueInsert(p)
    BY <1>4, <2>3 DEF DirectInsert, RrEnqueueInsert, InsertLocal, InsertShared
  <2> QED
    BY <1>5, <2>1, <2>2, <2>3 DEF EnqueueStep
<1>6. ASSUME NEW p \in Tasks, NEW cpu \in Cpus,
             RrPreempt(cpu, p) \/ RrSleep(cpu, p) \/ RrExit(cpu, p) \/ RrExpire(cpu, p)
      PROVE  RunStamped'
  <2>1. \E left : Stop(cpu, p, left)
    BY <1>6 DEF RrPreempt, Preempt, RrSleep, Sleep, RrExit, Exit, RrExpire, Expire
  <2>2. \E ctx : tctx' = [tctx EXCEPT ![p] = ctx]
    BY <1>6 DEF RrPreempt, RrSleep, RrExit, RrExpire, Stops
  <2> QED
    BY <1>2, <2>1, <2>2
<1>7. ASSUME NEW p \in Tasks, NEW cpu \in Cpus, RrSelectCpu(p, cpu) PROVE RunStamped'
  BY <1>4, <1>7 DEF RrSelectCpu, SelectCpu
<1>8. ASSUME NEW cpu \in Cpus, RrResched(cpu) \/ RrDispatch(cpu) \/ RrDispatchNothing(cpu)
      PROVE  RunStamped'
  BY <1>4, <1>8 DEF RrResched, Resched, RrDispatch, MoveToLocal, RrDispatchNothing, GoIdle, rrVars
<1>9. CASE RrTick
  BY <1>4, <1>9 DEF RrTick, Tick, rrVars
<1> QED
  BY <1>3, <1>5, <1>6, <1>7, <1>8, <1>9 DEF Next, CpuStep, Run

\* RemainingWithinSlice, task by task.
Within(st, ctx, left) == st \in {"queued", "running"} => ctx.remaining_slice <= left

LEMMA RemainingByTask ==
    /\ RemainingWithinSlice <=> \A p \in Tasks : Within(status[p], tctx[p], slice[p])
    /\ RemainingWithinSlice' <=> \A p \in Tasks : Within(status'[p], tctx'[p], slice'[p])
BY DEF RemainingWithinSlice, Within

\* A step of one task, all the others left alone.
LEMMA OneTask ==
    ASSUME TypeOK, RemainingWithinSlice, NEW p \in Tasks, NEW st, NEW ctx, NEW left,
           status' = [status EXCEPT ![p] = st],
           tctx' = [tctx EXCEPT ![p] = ctx],
           slice' = [slice EXCEPT ![p] = left],
           Within(st, ctx, left)
    PROVE  RemainingWithinSlice'
<1>1. ASSUME NEW q \in Tasks PROVE Within(status'[q], tctx'[q], slice'[q])
  <2>1. CASE q = p
    BY <2>1 DEF TypeOK, ScxTypeOK
  <2>2. CASE q # p
    <3>1. status'[q] = status[q] /\ tctx'[q] = tctx[q] /\ slice'[q] = slice[q]
      BY <2>2 DEF TypeOK, ScxTypeOK
    <3> QED
      BY <3>1, RemainingByTask
  <2> QED
    BY <2>1, <2>2
<1> QED
  BY <1>1, RemainingByTask

LEMMA SameTasks ==
    ASSUME RemainingWithinSlice, UNCHANGED <<status, slice, tctx>>
    PROVE  RemainingWithinSlice'
BY RemainingByTask

LEMMA NextRemaining ==
    ASSUME TypeOK, RunStamped, RemainingWithinSlice, OnePlace, Next
    PROVE  RemainingWithinSlice'
<1>11. ASSUME NEW p \in Tasks
      PROVE  /\ status = [status EXCEPT ![p] = status[p]]
             /\ tctx = [tctx EXCEPT ![p] = tctx[p]]
             /\ slice = [slice EXCEPT ![p] = slice[p]]
  BY DEF TypeOK, ScxTypeOK
<1>1. \A st, ctx, left : st \notin {"queued", "running"} => Within(st, ctx, left)
  BY DEF Within
<1>2. ASSUME NEW p \in Tasks, RrInitTask(p) PROVE RemainingWithinSlice'
  <2>1. PICK ctx : tctx' = [tctx EXCEPT ![p] = ctx]
    BY <1>2 DEF RrInitTask
  <2>2. /\ status' = [status EXCEPT ![p] = "asleep"]
        /\ slice' = [slice EXCEPT ![p] = slice[p]]
    BY <1>11, <1>2 DEF RrInitTask, Fork
  <2>3. Within("asleep", ctx, slice[p])
    BY <1>1
  <2> QED
    BY <2>1, <2>2, <2>3, OneTask
<1>3. ASSUME NEW p \in Tasks, RrEnqueueStamp(p) PROVE RemainingWithinSlice'
  <2>1. /\ status' = [status EXCEPT ![p] = "stamped"]
        /\ tctx' = [tctx EXCEPT ![p] = Stamped(p)]
        /\ slice' = [slice EXCEPT ![p] = slice[p]]
    BY <1>11, <1>3 DEF RrEnqueueStamp, BeginEnqueue
  <2>2. Within("stamped", Stamped(p), slice[p])
    BY <1>1
  <2> QED
    BY <2>1, <2>2, OneTask
<1>4. ASSUME NEW p \in Tasks, DirectInsert(p) \/ RrEnqueueInsert(p)
      PROVE  RemainingWithinSlice'
  <2>1. /\ status' = [status EXCEPT ![p] = "queued"]
        /\ tctx' = [tctx EXCEPT ![p] = tctx[p]]
        /\ slice' = [slice EXCEPT ![p] = SLICE]
    BY <1>11, <1>4 DEF DirectInsert, InsertLocal, RrEnqueueInsert, InsertShared
  <2>2. tctx[p] \in TaskCtx \cup {NoCtx}
    BY DEF TypeOK
  <2>3. tctx[p].remaining_slice <= SLICE
    BY <2>2, ConstantFacts DEF TaskCtx, NoCtx
  <2>4. Within("queued", tctx[p], SLICE)
    BY <2>3 DEF Within
  <2> QED
    BY <2>1, <2>4, OneTask
<1>5. ASSUME NEW p \in Tasks, NEW cpu \in Cpus, RrSelectCpu(p, cpu)
      PROVE  RemainingWithinSlice'
  <2>1. /\ status' = [status EXCEPT ![p] = "selected"]
        /\ tctx' = [tctx EXCEPT ![p] = tctx[p]]
        /\ slice' = [slice EXCEPT ![p] = slice[p]]
    BY <1>11, <1>5 DEF RrSelectCpu, SelectCpu
  <2>2. Within("selected", tctx[p], slice[p])
    BY <1>1
  <2> QED
    BY <2>1, <2>2, OneTask
<1>6. ASSUME NEW p \in Tasks, NEW cpu \in Cpus,
             RrSleep(cpu, p) \/ RrExit(cpu, p) \/ RrExpire(cpu, p)
      PROVE  RemainingWithinSlice'
  <2>1. PICK st \in {"asleep", "none", "requeue"} : status' = [status EXCEPT ![p] = st]
    BY <1>6 DEF RrSleep, Sleep, RrExit, Exit, RrExpire, Expire
  <2>2. PICK ctx : tctx' = [tctx EXCEPT ![p] = ctx]
    BY <1>6 DEF RrSleep, RrExit, RrExpire, Stops
  <2>3. slice' = [slice EXCEPT ![p] = 0]
    BY <1>6 DEF RrSleep, Sleep, RrExit, Exit, RrExpire, Expire, Stop
  <2>4. Within(st, ctx, 0)
    BY <1>1
  <2> QED
    BY <2>1, <2>2, <2>3, <2>4, OneTask
<1>7. ASSUME NEW p \in Tasks, NEW cpu \in Cpus, RrPreempt(cpu, p)
      PROVE  RemainingWithinSlice'
  <2>1. RrStopping(p).remaining_slice <= slice'[p]
    BY <1>7, StoppingCharges DEF RrPreempt
  <2>2. PICK left : slice' = [slice EXCEPT ![p] = left]
    BY <1>7 DEF RrPreempt, Preempt, Stop
  <2>3. slice'[p] = left
    BY <2>2 DEF TypeOK, ScxTypeOK
  <2>4. Within("queued", RrStopping(p), left)
    BY <2>1, <2>3 DEF Within
  <2>5. /\ status' = [status EXCEPT ![p] = "queued"]
        /\ tctx' = [tctx EXCEPT ![p] = RrStopping(p)]
    BY <1>7 DEF RrPreempt, Preempt, Stops
  <2> QED
    BY <2>2, <2>4, <2>5, OneTask
<1>8. ASSUME NEW p \in Tasks, NEW cpu \in Cpus, RunNext(cpu, p),
             tctx' = [tctx EXCEPT ![p] = RrRunning(p)]
      PROVE  RemainingWithinSlice'
  <2>1. /\ local_dsq[cpu] # << >>
        /\ p = Head(local_dsq[cpu])
        /\ status' = [status EXCEPT ![p] = "running"]
        /\ slice' = [slice EXCEPT ![p] = slice[p]]
    BY <1>11, <1>8 DEF RunNext
  <2>2. status[p] = "queued"
    BY <2>1, TailQueue DEF OnePlace, InLocal, TypeOK, ScxTypeOK
  <2>3. RrRunning(p).remaining_slice = tctx[p].remaining_slice
    <3>1. CASE tctx[p] = NoCtx
      BY <3>1 DEF RrRunning
    <3>2. CASE tctx[p] # NoCtx
      <4>1. tctx[p] \in TaskCtx
        BY <3>2 DEF TypeOK
      <4> QED
        BY <3>2, <4>1 DEF RrRunning, TaskCtx
    <3> QED
      BY <3>1, <3>2
  <2>4. Within("running", RrRunning(p), slice[p])
    BY <2>2, <2>3, RemainingByTask DEF Within
  <2> QED
    BY <1>8, <2>1, <2>4, OneTask
<1>9. ASSUME NEW cpu \in Cpus, RrResched(cpu) \/ RrDispatch(cpu) \/ RrDispatchNothing(cpu)
      PROVE  RemainingWithinSlice'
  <2>1. UNCHANGED <<status, slice, tctx>>
    BY <1>9 DEF RrResched, Resched, RrDispatch, MoveToLocal, RrDispatchNothing, GoIdle, rrVars
  <2> QED
    BY <2>1, SameTasks
<1>10. CASE RrTick
  BY <1>10, SameTasks DEF RrTick, Tick, rrVars
<1> QED
  BY <1>2, <1>3, <1>4, <1>5, <1>6, <1>7, <1>8, <1>9, <1>10 DEF Next, EnqueueStep, CpuStep, Run

\* The inductive invariant of the slice accounting holds in every reachable state.
THEOREM Invariance == Spec => []IInv
<1>1. ScxIInv /\ ScxIInv' /\ IInv /\ [Next]_vars => IInv'
  <2> SUFFICES ASSUME ScxIInv, ScxIInv', IInv, [Next]_vars PROVE IInv'
    OBVIOUS
  <2>1. CASE Next
    BY <2>1, NextTypeOK, NextRunStamped, NextRemaining DEF IInv, ScxIInv
  <2>2. CASE UNCHANGED vars
    BY <2>2 DEF IInv, ScxIInv, TypeOK, RunStamped, RemainingWithinSlice, vars, rrVars, counters
  <2> QED
    BY <2>1, <2>2
<1>2. Spec => []ScxIInv
  BY Framework, ScxInvariance, PTL
<1> QED
  BY <1>1, <1>2, InitSlices, PTL DEF Spec

\* Every context the scheduler keeps is within its ranges: the u64 subtraction of
\* rr_stopping never wraps.
THEOREM TypeCorrect == Spec => []TypeOK
BY Invariance, PTL DEF IInv

\* However a task was inserted, preempted or overran, rr_stopping leaves it no
\* more than the framework will still let it run.
THEOREM RemainingAlwaysWithinSlice == Spec => []RemainingWithinSlice
BY Invariance, PTL DEF IInv


-----------------------------------------------------------------------------
(* The counters                                                             *)

\* e insertions and d moves, counted modulo CounterMod, leave n tasks queued:
\* both sides leave the same remainder r.
Balanced(e, d, n) ==
    \E q, k \in Int, r \in 0 .. CounterMod - 1 :
        n = CounterMod * q + r /\ e - d = CounterMod * k + r

LEMMA Remainder ==
    ASSUME NEW q \in Int, NEW r \in 0 .. CounterMod - 1
    PROVE  (CounterMod * q + r) % CounterMod = r
BY CounterFacts

LEMMA Multiples ==
    ASSUME NEW q \in Int
    PROVE  /\ CounterMod * q \in Int
           /\ CounterMod * (q + 1) = CounterMod * q + CounterMod
           /\ CounterMod * (q - 1) = CounterMod * q - CounterMod
BY CounterFacts

LEMMA BumpCases ==
    ASSUME NEW c \in 0 .. CounterMod - 1
    PROVE  Bump(c) = IF c + 1 = CounterMod THEN 0 ELSE c + 1
BY CounterFacts DEF Bump

LEMMA BalancedMatches ==
    ASSUME NEW e, NEW d, NEW n, Balanced(e, d, n)
    PROVE  (e - d) % CounterMod = n % CounterMod
BY Remainder DEF Balanced

LEMMA BalancedUp ==
    ASSUME NEW e \in 0 .. CounterMod - 1, NEW d \in 0 .. CounterMod - 1, NEW n \in Nat,
           Balanced(e, d, n)
    PROVE  Balanced(Bump(e), d, n + 1)
<1>1. PICK q \in Int, k \in Int, r \in 0 .. CounterMod - 1 :
         n = CounterMod * q + r /\ e - d = CounterMod * k + r
  BY DEF Balanced
<1> DEFINE q1 == IF r + 1 = CounterMod THEN q + 1 ELSE q
           r1 == IF r + 1 = CounterMod THEN 0 ELSE r + 1
           k0 == IF r + 1 = CounterMod THEN k + 1 ELSE k
           k1 == IF e + 1 = CounterMod THEN k0 - 1 ELSE k0
<1>2. /\ q1 \in Int /\ k0 \in Int /\ k1 \in Int /\ r1 \in 0 .. CounterMod - 1
      /\ CounterMod * q \in Int /\ CounterMod * k \in Int /\ CounterMod * k0 \in Int
  BY CounterFacts
<1>3. n + 1 = CounterMod * q1 + r1
  BY <1>1, <1>2, Multiples, CounterFacts
<1>4. (e + 1) - d = CounterMod * k0 + r1
  BY <1>1, <1>2, Multiples, CounterFacts
<1>5. CounterMod * k1 = IF e + 1 = CounterMod THEN CounterMod * k0 - CounterMod
                                             ELSE CounterMod * k0
  BY <1>2, Multiples
<1>6. Bump(e) - d = CounterMod * k1 + r1
  <2> HIDE DEF k0, k1, r1, q1
  <2> QED
    BY <1>2, <1>4, <1>5, BumpCases, CounterFacts
<1> HIDE DEF k0, k1, r1, q1
<1> QED
  BY <1>2, <1>3, <1>6 DEF Balanced

LEMMA BalancedDown ==
    ASSUME NEW e \in 0 .. CounterMod - 1, NEW d \in 0 .. CounterMod - 1, NEW n \in Nat,
           Balanced(e, d, n)
    PROVE  Balanced(e, Bump(d), n - 1)
<1>1. PICK q \in Int, k \in Int, r \in 0 .. CounterMod - 1 :
         n = CounterMod * q + r /\ e - d = CounterMod * k + r
  BY DEF Balanced
<1> DEFINE q1 == IF r = 0 THEN q - 1 ELSE q
           r1 == IF r = 0 THEN CounterMod - 1 ELSE r - 1
           k0 == IF r = 0 THEN k - 1 ELSE k
           k1 == IF d + 1 = CounterMod THEN k0 + 1 ELSE k0
<1>2. /\ q1 \in Int /\ k0 \in Int /\ k1 \in Int /\ r1 \in 0 .. CounterMod - 1
      /\ CounterMod * q \in Int /\ CounterMod * k \in Int /\ CounterMod * k0 \in Int
  BY CounterFacts
<1>3. n - 1 = CounterMod * q1 + r1
  BY <1>1, <1>2, Multiples, CounterFacts
<1>4. e - (d + 1) = CounterMod * k0 + r1
  BY <1>1, <1>2, Multiples, CounterFacts
<1>5. CounterMod * k1 = IF d + 1 = CounterMod THEN CounterMod * k0 + CounterMod
                                             ELSE CounterMod * k0
  BY <1>2, Multiples
<1>6. e - Bump(d) = CounterMod * k1 + r1
  <2> HIDE DEF k0, k1, r1, q1
  <2> QED
    BY <1>2, <1>4, <1>5, BumpCases, CounterFacts
<1> HIDE DEF k0, k1, r1, q1
<1> QED
  BY <1>2, <1>3, <1>6 DEF Balanced

Counted == Balanced(nr_enqueued, nr_dispatched, Len(shared_dsq))

LEMMA InitCounted == Init => Counted
<1> SUFFICES ASSUME Init PROVE Counted
  OBVIOUS
<1>1. 0 = CounterMod * 0 + 0 /\ 0 - 0 = CounterMod * 0 + 0 /\ 0 \in 0 .. CounterMod - 1
  BY CounterFacts
<1>2. Balanced(0, 0, 0)
  BY <1>1 DEF Balanced
<1>3. nr_enqueued = 0 /\ nr_dispatched = 0 /\ Len(shared_dsq) = 0
  BY DEF Init, ScxInit
<1> QED
  BY <1>2, <1>3 DEF Counted

LEMMA NextCounted ==
    ASSUME TypeOK, Counted, [Next]_vars
    PROVE  Counted'
<1>1. /\ shared_dsq \in Seq(Tasks)
      /\ Len(shared_dsq) \in Nat
      /\ nr_enqueued \in 0 .. CounterMod - 1
      /\ nr_dispatched \in 0 .. CounterMod - 1
  BY DEF TypeOK, ScxTypeOK
<1>2. ASSUME NEW p \in Tasks, RrEnqueueInsert(p) PROVE Counted'
  <2>1. Len(shared_dsq') = Len(shared_dsq) + 1
    BY <1>1, <1>2, AppendFacts DEF RrEnqueueInsert, InsertShared
  <2>2. nr_enqueued' = Bump(nr_enqueued) /\ nr_dispatched' = nr_dispatched
    BY <1>2 DEF RrEnqueueInsert
  <2> QED
    BY <1>1, <2>1, <2>2, BalancedUp DEF Counted
<1>3. ASSUME NEW cpu \in Cpus, RrDispatch(cpu) PROVE Counted'
  <2>1. PICK i \in 1 .. Len(shared_dsq) : shared_dsq' = RemoveAt(shared_dsq, i)
    BY <1>3 DEF RrDispatch, MoveToLocal, Eligible
  <2>2. Len(shared_dsq') = Len(shared_dsq) - 1
    BY <1>1, <2>1, RemoveFacts
  <2>3. nr_dispatched' = Bump(nr_dispatched) /\ nr_enqueued' = nr_enqueued
    BY <1>3 DEF RrDispatch
  <2> QED
    BY <1>1, <2>2, <2>3, BalancedDown DEF Counted
<1>4. ASSUME UNCHANGED <<shared_dsq, counters>> PROVE Counted'
  BY <1>4 DEF Counted, counters
<1>5. ASSUME NEW p \in Tasks, RrInitTask(p) \/ DirectInsert(p) \/ RrEnqueueStamp(p)
      PROVE  UNCHANGED <<shared_dsq, counters>>
  BY <1>5 DEF RrInitTask, Fork, DirectInsert, InsertLocal, RrEnqueueStamp, BeginEnqueue
<1>6. ASSUME NEW p \in Tasks, NEW cpu \in Cpus,
             RrPreempt(cpu, p) \/ RrSleep(cpu, p) \/ RrExit(cpu, p) \/ RrExpire(cpu, p)
      PROVE  UNCHANGED <<shared_dsq, counters>>
  BY <1>6 DEF RrPreempt, Preempt, RrSleep, Sleep, RrExit, Exit, RrExpire, Expire, Stop, Stops
<1>7. ASSUME NEW p \in Tasks, NEW cpu \in Cpus, RrSelectCpu(p, cpu)
      PROVE  UNCHANGED <<shared_dsq, counters>>
  BY <1>7 DEF RrSelectCpu, SelectCpu
<1>8. ASSUME NEW cpu \in Cpus, Run(cpu) \/ RrResched(cpu) \/ RrDispatchNothing(cpu)
      PROVE  UNCHANGED <<shared_dsq, counters>>
  BY <1>8 DEF Run, RunNext, RrResched, Resched, RrDispatchNothing, GoIdle, rrVars
<1>9. ASSUME RrTick \/ UNCHANGED vars PROVE UNCHANGED <<shared_dsq, counters>>
  BY <1>9 DEF RrTick, Tick, vars, rrVars
<1> QED
  BY <1>2, <1>3, <1>4, <1>5, <1>6, <1>7, <1>8, <1>9 DEF Next, EnqueueStep, CpuStep

\* The statistics stay true for any length of run and any width of the counters:
\* what was enqueued and not dispatched is what waits in SHARED_DSQ.
THEOREM CountersAlwaysMatchQueue == Spec => []CountersMatchQueue
<1>1. Counted => CountersMatchQueue
  BY BalancedMatches DEF Counted, CountersMatchQueue
<1>2. TypeOK /\ Counted /\ [Next]_vars => Counted'
  BY NextCounted
<1> QED
  BY <1>1, <1>2, InitCounted, TypeCorrect, PTL DEF Spec


-----------------------------------------------------------------------------
(* FR-3: the bound on the wait                                              *)

\* The wake-ups that were given a CPU p may use, and are not in its queue yet.
Claimed(p) == {q \in direct : target[q] \in Affinity[p]}

\* The tasks that may still begin a full quantum before p.
Rivals(p) == (MayOvertake(p) \cup Claimed(p)) \ {p}

\* The CPUs p may use that a further wake-up may still be given.
Open(p) == idle_mask \cap Affinity[p]

\* A waiting task with n quanta behind it, the rivals R and the open CPUs O keeps
\* to its bound: each open CPU can make one more rival.  No CPU it may use goes
\* idle while it waits, so all of them can be open only before the first quantum.
Fits(p, n, R, O) ==
    IF O = Affinity[p]
    THEN n = 0
    ELSE n + Cardinality(R) + Cardinality(O) <=
            Cardinality(Tasks) - 1 + Cardinality(Affinity[p]) - 1

WaitBudget ==
    \A p \in Tasks :
        IF InShared(p) THEN Fits(p, quanta[p], Rivals(p), Open(p)) ELSE quanta[p] = 0

\* rr_select_cpu's shortcut is pending only until the wake-up is queued.
DirectSelected == \A q \in direct : status[q] = "selected"

LEMMA CpuCounting ==
    ASSUME NEW p \in Tasks, NEW O \in SUBSET Affinity[p]
    PROVE  /\ Cardinality(O) \in Nat
           /\ Cardinality(Affinity[p]) \in Nat \ {0}
           /\ O # Affinity[p] => Cardinality(O) <= Cardinality(Affinity[p]) - 1
           /\ \A B \in SUBSET O : Cardinality(B) <= Cardinality(O)
           /\ \A c \in O : Cardinality(O \ {c}) = Cardinality(O) - 1
<1>1. IsFiniteSet(Affinity[p])
  BY ConstantFacts, FiniteAssumption, FS_Subset DEF FiniteAssumption
<1>2. IsFiniteSet(O) /\ Cardinality(O) <= Cardinality(Affinity[p])
  BY <1>1, FS_Subset
<1>3. Cardinality(O) \in Nat /\ Cardinality(Affinity[p]) \in Nat
  BY <1>1, <1>2, FS_CardinalityType
<1>4. Cardinality(Affinity[p]) # 0
  BY <1>1, ConstantFacts, FS_EmptySet
<1>5. O # Affinity[p] => Cardinality(O) # Cardinality(Affinity[p])
  BY <1>1, FS_Subset
<1>6. \A B \in SUBSET O : Cardinality(B) <= Cardinality(O)
  BY <1>2, FS_Subset
<1>7. \A c \in O : Cardinality(O \ {c}) = Cardinality(O) - 1
  BY <1>2, FS_RemoveElement
<1> QED
  BY <1>2, <1>3, <1>4, <1>5, <1>6, <1>7

LEMMA RivalCounting ==
    ASSUME NEW p \in Tasks, NEW R \in SUBSET (Tasks \ {p})
    PROVE  /\ Cardinality(R) \in Nat
           /\ Cardinality(Tasks) \in Nat \ {0}
           /\ Cardinality(R) <= Cardinality(Tasks) - 1
           /\ \A B \in SUBSET R : Cardinality(B) <= Cardinality(R)
           /\ \A r \in R : \A B \in SUBSET (R \ {r}) : Cardinality(B) <= Cardinality(R) - 1
           /\ \A r, B : B \in SUBSET (R \cup {r}) => Cardinality(B) <= Cardinality(R) + 1
<1>1. IsFiniteSet(Tasks) /\ IsFiniteSet(Tasks \ {p}) /\ IsFiniteSet(R)
  BY FiniteAssumption, FS_Subset DEF FiniteAssumption
<1>2. Cardinality(R) \in Nat /\ Cardinality(Tasks) \in Nat /\ Cardinality(Tasks \ {p}) \in Nat
  BY <1>1, FS_CardinalityType
<1>3. Cardinality(Tasks \ {p}) = Cardinality(Tasks) - 1
  BY <1>1, FS_RemoveElement
<1>4. Cardinality(R) <= Cardinality(Tasks \ {p})
  BY <1>1, FS_Subset
<1>5. \A B \in SUBSET R : Cardinality(B) <= Cardinality(R)
  BY <1>1, FS_Subset
<1>6. ASSUME NEW r \in R, NEW B \in SUBSET (R \ {r})
      PROVE  Cardinality(B) <= Cardinality(R) - 1
  <2>1. IsFiniteSet(R \ {r}) /\ Cardinality(R \ {r}) = Cardinality(R) - 1
    BY <1>1, FS_RemoveElement
  <2> QED
    BY <2>1, FS_Subset
<1>7. ASSUME NEW r, NEW B, B \in SUBSET (R \cup {r})
      PROVE  Cardinality(B) <= Cardinality(R) + 1
  <2>1. /\ IsFiniteSet(R \cup {r})
        /\ Cardinality(R \cup {r}) = IF r \in R THEN Cardinality(R) ELSE Cardinality(R) + 1
    BY <1>1, FS_AddElement
  <2>2. Cardinality(B) <= Cardinality(R \cup {r})
    BY <1>7, <2>1, FS_Subset
  <2>3. Cardinality(B) \in Nat
    BY <1>7, <2>1, FS_Subset, FS_CardinalityType
  <2> QED
    BY <1>2, <2>1, <2>2, <2>3
<1> QED
  BY <1>2, <1>3, <1>4, <1>5, <1>6, <1>7

\* Before the first quantum the bound holds whatever the rivals are.
LEMMA FitsFresh ==
    ASSUME NEW p \in Tasks, NEW R \in SUBSET (Tasks \ {p}), NEW O \in SUBSET Affinity[p]
    PROVE  Fits(p, 0, R, O)
<1>1. O # Affinity[p] => Cardinality(O) <= Cardinality(Affinity[p]) - 1
  BY CpuCounting
<1>2. Cardinality(O) \in Nat /\ Cardinality(Affinity[p]) \in Nat
  BY CpuCounting
<1>3. /\ Cardinality(R) \in Nat /\ Cardinality(Tasks) \in Nat
      /\ Cardinality(R) <= Cardinality(Tasks) - 1
  BY RivalCounting
<1> QED
  BY <1>1, <1>2, <1>3 DEF Fits

LEMMA FitsLess ==
    ASSUME NEW p \in Tasks, NEW n \in Nat,
           NEW R \in SUBSET (Tasks \ {p}), NEW O \in SUBSET Affinity[p],
           NEW R1 \in SUBSET R, NEW O1 \in SUBSET O,
           Fits(p, n, R, O)
    PROVE  Fits(p, n, R1, O1)
<1>1. CASE O = Affinity[p]
  BY <1>1, FitsFresh DEF Fits
<1>2. CASE O # Affinity[p]
  <2>1. n + Cardinality(R) + Cardinality(O) <=
           Cardinality(Tasks) - 1 + Cardinality(Affinity[p]) - 1
    BY <1>2 DEF Fits
  <2>2. Cardinality(O1) <= Cardinality(O) /\ Cardinality(O) \in Nat /\ Cardinality(O1) \in Nat
    BY CpuCounting
  <2>3. Cardinality(R1) <= Cardinality(R) /\ Cardinality(R) \in Nat /\ Cardinality(R1) \in Nat
    BY RivalCounting
  <2>4. Cardinality(Tasks) \in Nat /\ Cardinality(Affinity[p]) \in Nat /\ O1 # Affinity[p]
    BY <1>2, RivalCounting, CpuCounting
  <2>5. n + Cardinality(R1) + Cardinality(O1) <=
           Cardinality(Tasks) - 1 + Cardinality(Affinity[p]) - 1
    BY <2>1, <2>2, <2>3, <2>4
  <2> QED
    BY <2>4, <2>5 DEF Fits
<1> QED
  BY <1>1, <1>2

\* A wake-up that is given an open CPU is a rival more, and an open CPU less.
LEMMA FitsClaim ==
    ASSUME NEW p \in Tasks, NEW n \in Nat,
           NEW R \in SUBSET (Tasks \ {p}), NEW O \in SUBSET Affinity[p],
           NEW r, NEW c \in O,
           NEW R1 \in SUBSET (Tasks \ {p}), R1 \subseteq R \cup {r},
           Fits(p, n, R, O)
    PROVE  Fits(p, n, R1, O \ {c})
<1>1. CASE O = Affinity[p]
  BY <1>1, FitsFresh DEF Fits
<1>2. CASE O # Affinity[p]
  <2>1. n + Cardinality(R) + Cardinality(O) <=
           Cardinality(Tasks) - 1 + Cardinality(Affinity[p]) - 1
    BY <1>2 DEF Fits
  <2>2. Cardinality(O \ {c}) = Cardinality(O) - 1 /\ Cardinality(O) \in Nat
    BY CpuCounting
  <2>3. Cardinality(R1) <= Cardinality(R) + 1 /\ Cardinality(R) \in Nat /\ Cardinality(R1) \in Nat
    BY RivalCounting
  <2>4. Cardinality(Tasks) \in Nat /\ Cardinality(Affinity[p]) \in Nat /\ O \ {c} # Affinity[p]
    BY <1>2, RivalCounting, CpuCounting
  <2>5. n + Cardinality(R1) + Cardinality(O \ {c}) <=
           Cardinality(Tasks) - 1 + Cardinality(Affinity[p]) - 1
    BY <2>1, <2>2, <2>3, <2>4
  <2> QED
    BY <2>4, <2>5 DEF Fits
<1> QED
  BY <1>1, <1>2

\* A full quantum more is a rival less.
LEMMA FitsRun ==
    ASSUME NEW p \in Tasks, NEW n \in Nat,
           NEW R \in SUBSET (Tasks \ {p}), NEW O \in SUBSET Affinity[p],
           NEW r \in R, NEW R1 \in SUBSET (R \ {r}), O # Affinity[p],
           Fits(p, n, R, O)
    PROVE  Fits(p, n + 1, R1, O)
<1>1. n + Cardinality(R) + Cardinality(O) <=
         Cardinality(Tasks) - 1 + Cardinality(Affinity[p]) - 1
  BY DEF Fits
<1>2. Cardinality(R1) <= Cardinality(R) - 1 /\ Cardinality(R) \in Nat
  BY RivalCounting
<1>3. Cardinality(R1) \in Nat
  <2>1. R1 \in SUBSET (Tasks \ {p})
    OBVIOUS
  <2> QED
    BY <2>1, RivalCounting
<1>4. /\ Cardinality(Tasks) \in Nat /\ Cardinality(Affinity[p]) \in Nat
      /\ Cardinality(O) \in Nat
  BY RivalCounting, CpuCounting
<1>5. n + 1 + Cardinality(R1) + Cardinality(O) <=
         Cardinality(Tasks) - 1 + Cardinality(Affinity[p]) - 1
  BY <1>1, <1>2, <1>3, <1>4
<1> QED
  BY <1>5 DEF Fits


LEMMA BudgetTypes ==
    ASSUME TypeOK, NEW p \in Tasks
    PROVE  /\ Rivals(p) \in SUBSET (Tasks \ {p})
           /\ Open(p) \in SUBSET Affinity[p]
           /\ quanta[p] \in Nat
BY ConstantFacts DEF TypeOK, ScxTypeOK, Rivals, Open, MayOvertake, Claimed

\* A step after which no more tasks may overtake, and no more CPUs are open.
LEMMA BudgetKept ==
    ASSUME TypeOK, WaitBudget,
           \A p \in Tasks : InShared(p)' => /\ InShared(p)
                                            /\ quanta'[p] = quanta[p]
                                            /\ Rivals(p)' \subseteq Rivals(p)
                                            /\ Open(p)' \subseteq Open(p),
           \A p \in Tasks : ~InShared(p)' => quanta'[p] = 0
    PROVE  WaitBudget'
<1> SUFFICES ASSUME NEW p \in Tasks, InShared(p)'
             PROVE  Fits(p, quanta'[p], Rivals(p)', Open(p)')
  BY DEF WaitBudget
<1>1. Fits(p, quanta[p], Rivals(p), Open(p)) /\ quanta'[p] = quanta[p]
  BY DEF WaitBudget
<1>2. /\ Rivals(p) \in SUBSET (Tasks \ {p})
      /\ Open(p) \in SUBSET Affinity[p]
      /\ quanta[p] \in Nat
  BY BudgetTypes
<1>3. Rivals(p)' \in SUBSET Rivals(p) /\ Open(p)' \in SUBSET Open(p)
  OBVIOUS
<1> DEFINE R == Rivals(p)
           O == Open(p)
           R1 == Rivals(p)'
           O1 == Open(p)'
           n == quanta[p]
<1> HIDE DEF R, O, R1, O1, n
<1>4. Fits(p, n, R1, O1)
  BY <1>1, <1>2, <1>3, FitsLess DEF R, O, R1, O1, n
<1> QED
  BY <1>1, <1>4 DEF R1, O1, n

\* The same, from what may overtake and what is claimed.
LEMMA BudgetQuiet ==
    ASSUME TypeOK, WaitBudget,
           \A p \in Tasks : /\ InShared(p)' <=> InShared(p)
                            /\ quanta'[p] = quanta[p]
                            /\ MayOvertake(p)' \subseteq MayOvertake(p),
           direct' \subseteq direct,
           \A q \in direct' : target'[q] = target[q],
           idle_mask' \subseteq idle_mask
    PROVE  WaitBudget'
<1>1. ASSUME NEW p \in Tasks
      PROVE  Rivals(p)' \subseteq Rivals(p) /\ Open(p)' \subseteq Open(p)
  BY DEF Rivals, Claimed, Open
<1>2. \A p \in Tasks : ~InShared(p)' => quanta'[p] = 0
  BY DEF WaitBudget
<1> QED
  BY <1>1, <1>2, BudgetKept

LEMMA BudgetInsert ==
    ASSUME TypeOK, TypeOK', OnePlace, OnePlace', WaitBudget,
           NEW r \in Tasks, RrEnqueueInsert(r)
    PROVE  WaitBudget'
<1>1. /\ \A p \in Tasks : /\ InShared(p)' <=> InShared(p) \/ p = r
                          /\ quanta'[p] = quanta[p]
      /\ ~InShared(r)
      /\ \A p \in Tasks \ {r} : MayOvertake(p)' \subseteq MayOvertake(p)
  BY OvertakeInsert DEF RrEnqueueInsert, TypeOK
<1>2. UNCHANGED <<direct, target, idle_mask>>
  BY DEF RrEnqueueInsert, InsertShared, Kick
<1>3. Fits(r, quanta'[r], Rivals(r)', Open(r)')
  <2>1. quanta'[r] = 0
    BY <1>1 DEF WaitBudget
  <2>2. Rivals(r)' \in SUBSET (Tasks \ {r}) /\ Open(r)' \in SUBSET Affinity[r]
    BY DEF TypeOK, Rivals, Open, MayOvertake, Claimed
  <2> QED
    BY <2>1, <2>2, FitsFresh
<1>4. ASSUME NEW p \in Tasks, p # r, InShared(p)'
      PROVE  Fits(p, quanta'[p], Rivals(p)', Open(p)')
  <2>1. Rivals(p)' \in SUBSET Rivals(p) /\ Open(p)' \in SUBSET Open(p)
    BY <1>1, <1>2, <1>4 DEF Rivals, Claimed, Open
  <2>2. Fits(p, quanta[p], Rivals(p), Open(p)) /\ quanta'[p] = quanta[p]
    BY <1>1, <1>4 DEF WaitBudget
  <2>3. /\ Rivals(p) \in SUBSET (Tasks \ {p})
        /\ Open(p) \in SUBSET Affinity[p]
        /\ quanta[p] \in Nat
    BY BudgetTypes
  <2> DEFINE R == Rivals(p)
             O == Open(p)
             R1 == Rivals(p)'
             O1 == Open(p)'
             n == quanta[p]
  <2> HIDE DEF R, O, R1, O1, n
  <2>4. Fits(p, n, R1, O1)
    BY <2>1, <2>2, <2>3, FitsLess DEF R, O, R1, O1, n
  <2> QED
    BY <2>2, <2>4 DEF R1, O1, n
<1>5. ASSUME NEW p \in Tasks, ~InShared(p)' PROVE quanta'[p] = 0
  BY <1>1, <1>5 DEF WaitBudget
<1> QED
  BY <1>3, <1>4, <1>5 DEF WaitBudget

LEMMA BudgetSelect ==
    ASSUME TypeOK, WaitBudget, DirectSelected,
           NEW r \in Tasks, NEW cpu \in Cpus, RrSelectCpu(r, cpu)
    PROVE  WaitBudget'
<1>1. /\ status[r] = "asleep"
      /\ target' = [target EXCEPT ![r] = cpu]
      /\ idle_mask' = idle_mask \ {cpu}
      /\ direct' = IF cpu \in idle_mask THEN direct \cup {r} ELSE direct
      /\ UNCHANGED <<shared_dsq, local_dsq, slice, quanta>>
  BY DEF RrSelectCpu, SelectCpu
<1>2. r \notin direct /\ target \in [Tasks -> Cpus] /\ direct \subseteq Tasks
  BY <1>1 DEF DirectSelected, TypeOK, ScxTypeOK
<1>3. \A p \in Tasks : /\ InShared(p)' <=> InShared(p)
                       /\ quanta'[p] = quanta[p]
                       /\ MayOvertake(p)' \subseteq MayOvertake(p)
  BY <1>1, OvertakeSame
<1>4. ASSUME NEW p \in Tasks
      PROVE  Claimed(p)' \subseteq Claimed(p) \cup
                (IF cpu \in Open(p) THEN {r} ELSE {})
  BY <1>1, <1>2 DEF Claimed, Open
<1>5. ASSUME NEW p \in Tasks, InShared(p)
      PROVE  Fits(p, quanta'[p], Rivals(p)', Open(p)')
  <2>1. Fits(p, quanta[p], Rivals(p), Open(p)) /\ quanta'[p] = quanta[p]
    BY <1>1, <1>5 DEF WaitBudget
  <2>2. /\ Rivals(p) \in SUBSET (Tasks \ {p})
        /\ Open(p) \in SUBSET Affinity[p]
        /\ quanta[p] \in Nat
    BY BudgetTypes
  <2>3. Open(p)' = Open(p) \ {cpu}
    BY <1>1 DEF Open
  <2>4. /\ Rivals(p)' \subseteq Rivals(p) \cup (IF cpu \in Open(p) THEN {r} ELSE {})
        /\ Rivals(p)' \in SUBSET (Tasks \ {p})
    <3>1. Rivals(p)' \subseteq Rivals(p) \cup (IF cpu \in Open(p) THEN {r} ELSE {})
      BY <1>3, <1>4 DEF Rivals
    <3> QED
      BY <2>2, <3>1 DEF Rivals
  <2> DEFINE R == Rivals(p)
             O == Open(p)
             R1 == Rivals(p)'
             n == quanta[p]
  <2> HIDE DEF R, O, R1, n
  <2>5. /\ Fits(p, n, R, O)
        /\ R \in SUBSET (Tasks \ {p}) /\ R1 \in SUBSET (Tasks \ {p})
        /\ R1 \subseteq R \cup (IF cpu \in O THEN {r} ELSE {})
        /\ O \in SUBSET Affinity[p] /\ n \in Nat
    BY <2>1, <2>2, <2>4 DEF R, O, R1, n
  <2>6. CASE cpu \in O
    <3>1. Fits(p, n, R1, O \ {cpu})
      BY <2>5, <2>6, FitsClaim
    <3> QED
      BY <2>1, <2>3, <3>1 DEF O, R1, n
  <2>7. CASE cpu \notin O
    <3>1. R1 \in SUBSET R /\ O \ {cpu} \in SUBSET O
      BY <2>5, <2>7
    <3>2. Fits(p, n, R1, O \ {cpu})
      BY <2>5, <3>1, FitsLess
    <3> QED
      BY <2>1, <2>3, <3>2 DEF O, R1, n
  <2> QED
    BY <2>6, <2>7
<1>6. \A p \in Tasks : ~InShared(p)' => quanta'[p] = 0
  BY <1>3 DEF WaitBudget
<1> QED
  BY <1>3, <1>5, <1>6 DEF WaitBudget


LEMMA BudgetDirect ==
    ASSUME TypeOK, OnePlace, WaitBudget, NEW r \in Tasks, DirectInsert(r)
    PROVE  WaitBudget'
<1>1. \A p \in Tasks :
         /\ InShared(p)' <=> InShared(p)
         /\ quanta'[p] = quanta[p]
         /\ MayOvertake(p)' \subseteq
               MayOvertake(p) \cup (IF target[r] \in Affinity[p] THEN {r} ELSE {})
  BY OvertakeLocal DEF DirectInsert, TypeOK
<1>2. /\ r \in direct
      /\ direct' = direct \ {r}
      /\ UNCHANGED <<target, idle_mask>>
  BY DEF DirectInsert, InsertLocal, Kick
<1>3. ASSUME NEW p \in Tasks
      PROVE  Rivals(p)' \subseteq Rivals(p) /\ Open(p)' \subseteq Open(p)
  <2>1. target[r] \in Affinity[p] => r \in Claimed(p)
    BY <1>2 DEF Claimed
  <2>2. Claimed(p)' \subseteq Claimed(p)
    BY <1>2 DEF Claimed
  <2>3. MayOvertake(p)' \subseteq MayOvertake(p) \cup Claimed(p)
    BY <1>1, <2>1
  <2> QED
    BY <1>2, <2>2, <2>3 DEF Rivals, Open
<1>4. \A p \in Tasks : ~InShared(p)' => quanta'[p] = 0
  BY <1>1 DEF WaitBudget
<1> QED
  BY <1>1, <1>3, <1>4, BudgetKept

LEMMA BudgetMove ==
    ASSUME TypeOK, OnePlace, WaitBudget, NEW cpu \in Cpus, RrDispatch(cpu)
    PROVE  WaitBudget'
<1>1. \A p \in Tasks :
         /\ InShared(p)' => /\ InShared(p)
                           /\ quanta'[p] = quanta[p]
                           /\ MayOvertake(p)' \subseteq MayOvertake(p)
         /\ ~InShared(p)' => quanta'[p] = IF InShared(p) THEN 0 ELSE quanta[p]
  BY OvertakeMove DEF RrDispatch, TypeOK
<1>2. UNCHANGED <<direct, target, idle_mask>>
  BY DEF RrDispatch, MoveToLocal
<1>3. \A p \in Tasks : InShared(p)' => /\ Rivals(p)' \subseteq Rivals(p)
                                      /\ Open(p)' \subseteq Open(p)
  BY <1>1, <1>2 DEF Rivals, Claimed, Open
<1>4. \A p \in Tasks : ~InShared(p)' => quanta'[p] = 0
  BY <1>1 DEF WaitBudget
<1> QED
  BY <1>1, <1>3, <1>4, BudgetKept

LEMMA BudgetRun ==
    ASSUME TypeOK, OnePlace, WaitBudget, DirectSelected,
           NEW cpu \in Cpus, NEW r \in Tasks, RunNext(cpu, r), direct' = direct
    PROVE  WaitBudget'
<1>1. ASSUME NEW p \in Tasks
      PROVE  /\ InShared(p)' <=> InShared(p)
             /\ MayOvertake(p)' \subseteq MayOvertake(p) \ {r}
             /\ \/ quanta'[p] = quanta[p]
                \/ /\ quanta'[p] = quanta[p] + 1
                   /\ InShared(p)
                   /\ cpu \in Affinity[p]
                   /\ r \in MayOvertake(p)
  BY OvertakeRun DEF TypeOK
<1>2. /\ cpu \notin idle
      /\ Contains(local_dsq[cpu], r)
      /\ UNCHANGED <<target, idle_mask>>
  BY TailQueue DEF RunNext, Picking, TypeOK, ScxTypeOK
<1>3. ~InShared(r) /\ status[r] = "queued"
  BY <1>2 DEF OnePlace, InLocal
<1>4. r \notin direct
  BY <1>3 DEF DirectSelected
<1>5. ASSUME NEW p \in Tasks
      PROVE  Rivals(p)' \subseteq Rivals(p) \ {r} /\ Open(p)' = Open(p)
  BY <1>1, <1>2, <1>4 DEF Rivals, Claimed, Open
<1>6. ASSUME NEW p \in Tasks, InShared(p)
      PROVE  Fits(p, quanta'[p], Rivals(p)', Open(p)')
  <2> DEFINE R == Rivals(p)
             O == Open(p)
             R1 == Rivals(p)'
             n == quanta[p]
  <2>1. /\ Fits(p, n, R, O)
        /\ R \in SUBSET (Tasks \ {p}) /\ R1 \in SUBSET (R \ {r})
        /\ O \in SUBSET Affinity[p] /\ n \in Nat
        /\ Open(p)' = O
    BY <1>5, <1>6, BudgetTypes DEF WaitBudget
  <2>2. CASE quanta'[p] = n
    <3> HIDE DEF R, O, R1, n
    <3>1. R1 \in SUBSET R /\ O \in SUBSET O
      BY <2>1
    <3>2. Fits(p, n, R1, O)
      BY <2>1, <3>1, FitsLess
    <3> QED
      BY <2>1, <2>2, <3>2 DEF R1
  <2>3. CASE /\ quanta'[p] = n + 1
             /\ cpu \in Affinity[p]
             /\ r \in MayOvertake(p)
    <3>1. O # Affinity[p]
      BY <1>2, <2>3 DEF Open, TypeOK, ScxTypeOK
    <3>2. r \in R
      BY <1>3, <1>6, <2>3 DEF Rivals
    <3> HIDE DEF R, O, R1, n
    <3>3. Fits(p, n + 1, R1, O)
      BY <2>1, <3>1, <3>2, FitsRun
    <3> QED
      BY <2>1, <2>3, <3>3 DEF R1
  <2> QED
    BY <1>1, <2>2, <2>3
<1>7. \A p \in Tasks : ~InShared(p)' => quanta'[p] = 0
  BY <1>1 DEF WaitBudget
<1> QED
  BY <1>1, <1>6, <1>7 DEF WaitBudget

\* A CPU goes idle only when none of those who wait may use it.
LEMMA BudgetIdle ==
    ASSUME TypeOK, WaitBudget, NEW cpu \in Cpus, RrDispatchNothing(cpu)
    PROVE  WaitBudget'
<1>1. /\ Eligible(cpu) = {}
      /\ idle_mask' = idle_mask \cup {cpu}
      /\ UNCHANGED <<shared_dsq, local_dsq, slice, quanta, target, direct>>
  BY DEF RrDispatchNothing, GoIdle, rrVars
<1>2. \A p \in Tasks : /\ InShared(p)' <=> InShared(p)
                       /\ quanta'[p] = quanta[p]
                       /\ MayOvertake(p)' \subseteq MayOvertake(p)
  BY <1>1, OvertakeSame
<1>3. ASSUME NEW p \in Tasks, InShared(p) PROVE cpu \notin Affinity[p]
  BY <1>1, <1>3 DEF InShared, Contains, Eligible
<1>4. \A p \in Tasks : InShared(p)' => /\ Rivals(p)' \subseteq Rivals(p)
                                      /\ Open(p)' \subseteq Open(p)
  BY <1>1, <1>2, <1>3 DEF Rivals, Claimed, Open
<1>5. \A p \in Tasks : ~InShared(p)' => quanta'[p] = 0
  BY <1>2 DEF WaitBudget
<1> QED
  BY <1>2, <1>4, <1>5, BudgetKept

LEMMA InitBudget == Init => WaitBudget /\ DirectSelected
<1>1. ASSUME Init, NEW p \in Tasks PROVE ~InShared(p) /\ quanta[p] = 0
  BY <1>1, EmptyQueue DEF Init, ScxInit, InShared
<1> QED
  BY <1>1 DEF WaitBudget, DirectSelected, Init

LEMMA NextBudget ==
    ASSUME ScxIInv, ScxIInv', TypeOK, TypeOK', DirectSelected, WaitBudget, [Next]_vars
    PROVE  WaitBudget'
<1> USE DEF ScxIInv
<1>1. ASSUME NEW p \in Tasks, DirectInsert(p) \/ RrEnqueueInsert(p) PROVE WaitBudget'
  BY <1>1, BudgetDirect, BudgetInsert
<1>2. ASSUME NEW cpu \in Cpus, RrDispatch(cpu) \/ RrDispatchNothing(cpu) PROVE WaitBudget'
  BY <1>2, BudgetMove, BudgetIdle
<1>3. ASSUME NEW cpu \in Cpus, Run(cpu) PROVE WaitBudget'
  BY <1>3, BudgetRun DEF Run
<1>4. ASSUME NEW p \in Tasks, NEW cpu \in Cpus, RrSelectCpu(p, cpu) PROVE WaitBudget'
  BY <1>4, BudgetSelect
<1>5. ASSUME NEW p \in Tasks, NEW cpu \in Cpus, RrPreempt(cpu, p) PROVE WaitBudget'
  <2>1. \A q \in Tasks : /\ InShared(q)' <=> InShared(q)
                         /\ quanta'[q] = quanta[q]
                         /\ MayOvertake(q)' \subseteq MayOvertake(q)
    BY <1>5, OvertakePreempt DEF RrPreempt
  <2>2. UNCHANGED <<direct, target, idle_mask>>
    BY <1>5 DEF RrPreempt, Preempt, Stop, Stops
  <2> QED
    BY <2>1, <2>2, BudgetQuiet
<1>6. ASSUME NEW p \in Tasks, NEW cpu \in Cpus,
             RrExpire(cpu, p) \/ RrSleep(cpu, p) \/ RrExit(cpu, p)
      PROVE  WaitBudget'
  <2>1. /\ curr[cpu] = p
        /\ slice' = [slice EXCEPT ![p] = 0]
        /\ \E c \in Cpus : target' = [target EXCEPT ![p] = c]
        /\ UNCHANGED <<shared_dsq, local_dsq, quanta, direct, idle_mask>>
    <3>1. target = [target EXCEPT ![p] = target[p]] /\ target[p] \in Cpus
      BY DEF TypeOK, ScxTypeOK
    <3>2. \E c \in Cpus : target' = [target EXCEPT ![p] = c]
      BY <1>6, <3>1 DEF RrExpire, Expire, RrSleep, Sleep, RrExit, Exit
    <3> QED
      BY <1>6, <3>2 DEF RrExpire, Expire, RrSleep, Sleep, RrExit, Exit, Stop, Stops
  <2>2. \A q \in Tasks : slice'[q] = SLICE => slice[q] = SLICE
    BY <2>1, ConstantFacts DEF ScxTypeOK
  <2>3. p \notin direct
    BY <2>1 DEF DirectSelected, OnePlace, Runs
  <2>4. \A q \in direct' : target'[q] = target[q]
    BY <2>1, <2>3 DEF TypeOK, ScxTypeOK
  <2>5. \A q \in Tasks : /\ InShared(q)' <=> InShared(q)
                         /\ quanta'[q] = quanta[q]
                         /\ MayOvertake(q)' \subseteq MayOvertake(q)
    BY <2>1, <2>2, OvertakeSame
  <2> QED
    BY <2>1, <2>4, <2>5, BudgetQuiet
<1>7. ASSUME UNCHANGED <<shared_dsq, local_dsq, slice, quanta, direct, target>>,
             idle_mask' \subseteq idle_mask
      PROVE  WaitBudget'
  <2>1. \A q \in Tasks : /\ InShared(q)' <=> InShared(q)
                         /\ quanta'[q] = quanta[q]
                         /\ MayOvertake(q)' \subseteq MayOvertake(q)
    BY <1>7, OvertakeSame
  <2> QED
    BY <1>7, <2>1, BudgetQuiet
<1>8. ASSUME NEW p \in Tasks, RrInitTask(p) \/ RrEnqueueStamp(p) PROVE WaitBudget'
  BY <1>7, <1>8 DEF RrInitTask, Fork, RrEnqueueStamp, BeginEnqueue
<1>9. ASSUME NEW cpu \in Cpus, RrResched(cpu) PROVE WaitBudget'
  BY <1>7, <1>9 DEF RrResched, Resched, rrVars
<1>10. CASE RrTick \/ UNCHANGED vars
  BY <1>7, <1>10 DEF RrTick, Tick, vars, rrVars
<1> QED
  BY <1>1, <1>2, <1>3, <1>4, <1>5, <1>6, <1>8, <1>9, <1>10 DEF Next, EnqueueStep, CpuStep

LEMMA NextDirect ==
    ASSUME ScxIInv, TypeOK, DirectSelected, [Next]_vars
    PROVE  DirectSelected'
<1> USE DEF ScxIInv, TypeOK, ScxTypeOK, DirectSelected
<1>1. ASSUME NEW p \in Tasks, RrInitTask(p) \/ EnqueueStep(p) PROVE DirectSelected'
  BY <1>1 DEF RrInitTask, Fork, EnqueueStep, DirectInsert, InsertLocal,
              RrEnqueueStamp, BeginEnqueue, RrEnqueueInsert, InsertShared
<1>2. ASSUME NEW p \in Tasks, NEW cpu \in Cpus, RrSelectCpu(p, cpu) PROVE DirectSelected'
  BY <1>2 DEF RrSelectCpu, SelectCpu
<1>3. ASSUME NEW p \in Tasks, NEW cpu \in Cpus,
             \/ RrPreempt(cpu, p) \/ RrSleep(cpu, p) \/ RrExit(cpu, p) \/ RrExpire(cpu, p)
      PROVE  DirectSelected'
  <2>1. /\ curr[cpu] = p
        /\ \E s : status' = [status EXCEPT ![p] = s]
        /\ direct' = direct
    BY <1>3 DEF RrPreempt, Preempt, RrSleep, Sleep, RrExit, Exit, RrExpire, Expire, Stop, Stops
  <2>2. p \notin direct
    BY <2>1 DEF OnePlace, Runs
  <2> QED
    BY <2>1, <2>2
<1>4. ASSUME NEW cpu \in Cpus, Run(cpu) PROVE DirectSelected'
  <2>1. PICK p \in Tasks : RunNext(cpu, p)
    BY <1>4 DEF Run
  <2>2. /\ Contains(local_dsq[cpu], p)
        /\ status' = [status EXCEPT ![p] = "running"]
        /\ direct' = direct
    BY <1>4, <2>1, TailQueue DEF Run, RunNext
  <2>3. p \notin direct
    BY <2>2 DEF OnePlace, InLocal
  <2> QED
    BY <2>2, <2>3
<1>5. ASSUME NEW cpu \in Cpus, RrResched(cpu) \/ RrDispatch(cpu) \/ RrDispatchNothing(cpu)
      PROVE  DirectSelected'
  BY <1>5 DEF RrResched, Resched, RrDispatch, MoveToLocal, RrDispatchNothing, GoIdle, rrVars
<1>6. CASE RrTick \/ UNCHANGED vars
  BY <1>6 DEF RrTick, Tick, vars, rrVars
<1> QED
  BY <1>1, <1>2, <1>3, <1>4, <1>5, <1>6 DEF Next, CpuStep

\* FR-3 of the round-robin, for any number of tasks and CPUs and any affinity: a
\* task in SHARED_DSQ sees at most one full quantum of each other task begin, on
\* the CPUs it may use, and one more for each CPU but one that rr_select_cpu's
\* shortcut may hand to a wake-up meanwhile.
THEOREM WaitAlwaysBounded == Spec => []BoundedWait
<1>1. ASSUME TypeOK, WaitBudget PROVE BoundedWait
  <2> SUFFICES ASSUME NEW p \in Tasks, InShared(p)
               PROVE  quanta[p] <= Cardinality(Tasks) - 1 + Cardinality(Affinity[p]) - 1
    BY DEF BoundedWait
  <2> DEFINE r == Cardinality(Rivals(p))
             o == Cardinality(Open(p))
             t == Cardinality(Tasks)
             a == Cardinality(Affinity[p])
  <2>1. Fits(p, quanta[p], Rivals(p), Open(p))
    BY <1>1 DEF WaitBudget
  <2>2. /\ Rivals(p) \in SUBSET (Tasks \ {p})
        /\ Open(p) \in SUBSET Affinity[p]
        /\ quanta[p] \in Nat
    BY <1>1, BudgetTypes
  <2>3. r \in Nat /\ t \in Nat \ {0} /\ o \in Nat /\ a \in Nat \ {0}
    BY <2>2, RivalCounting, CpuCounting
  <2>4. quanta[p] = 0 \/ quanta[p] + r + o <= t - 1 + a - 1
    BY <2>1 DEF Fits
  <2> HIDE DEF r, o, t, a
  <2>5. quanta[p] <= t - 1 + a - 1
    BY <2>2, <2>3, <2>4
  <2> QED
    BY <2>5 DEF t, a
<1>2. Spec => []ScxIInv
  BY Framework, ScxInvariance, PTL
<1>3. Init => WaitBudget /\ DirectSelected
  BY InitBudget
<1>4. /\ ScxIInv /\ ScxIInv' /\ TypeOK /\ TypeOK' /\ DirectSelected /\ WaitBudget
      /\ [Next]_vars
      => WaitBudget' /\ DirectSelected'
  BY NextBudget, NextDirect
<1> QED
  BY <1>1, <1>2, <1>3, <1>4, TypeCorrect, PTL DEF Spec


-----------------------------------------------------------------------------
(* "FIFO order means earliest-enqueued first", on one CPU                   *)

\* rr_init_task gave every task of the scheduler a context: the branches of the
\* callbacks for a task without one are never taken.
HasCtx == \A p \in Tasks : status[p] # "none" => tctx[p] # NoCtx

LEMMA NextHasCtx ==
    ASSUME ScxIInv, TypeOK, TypeOK', HasCtx, [Next]_vars
    PROVE  HasCtx'
<1> USE DEF ScxIInv, TypeOK, ScxTypeOK, HasCtx
<1>1. ASSUME NEW p \in Tasks, RrInitTask(p) PROVE HasCtx'
  BY <1>1, ConstantFacts DEF RrInitTask, Fork, NoCtx
\* A step of one task whose context was there, and stays.
<1>2. ASSUME NEW p \in Tasks, NEW st, NEW ctx, status[p] # "none",
             status' = [status EXCEPT ![p] = st],
             tctx' = [tctx EXCEPT ![p] = ctx],
             ctx # NoCtx \/ st = "none"
      PROVE  HasCtx'
  BY <1>2
<1>3. ASSUME NEW p \in Tasks, status[p] # "none"
      PROVE  /\ tctx = [tctx EXCEPT ![p] = tctx[p]]
             /\ tctx[p] # NoCtx
             /\ Stamped(p) # NoCtx /\ RrRunning(p) # NoCtx /\ RrStopping(p) # NoCtx
  <2>1. tctx[p] # NoCtx /\ tctx[p] \in TaskCtx
    BY <1>3
  <2>2. tctx[p].remaining_slice \in Nat /\ tctx[p].enqueue_time \in Nat
    BY <2>1, ConstantFacts DEF TaskCtx
  <2>6. NoCtx.remaining_slice \notin Nat /\ NoCtx.enqueue_time \notin Nat
    BY DEF NoCtx
  <2>3. Stamped(p) # NoCtx
    BY <2>1, ConstantFacts DEF Stamped, NoCtx
  <2>4. RrRunning(p) # NoCtx
    <3>1. RrRunning(p).remaining_slice = tctx[p].remaining_slice
      BY <2>1 DEF RrRunning, TaskCtx
    <3> QED
      BY <2>2, <2>6, <3>1
  <2>5. RrStopping(p) # NoCtx
    <3>1. RrStopping(p).enqueue_time = tctx[p].enqueue_time
      BY <2>1 DEF RrStopping, TaskCtx
    <3> QED
      BY <2>2, <2>6, <3>1
  <2> QED
    BY <2>1, <2>3, <2>4, <2>5
<1>4. ASSUME NEW p \in Tasks, DirectInsert(p) \/ RrEnqueueInsert(p) \/ RrEnqueueStamp(p)
      PROVE  HasCtx'
  <2>1. /\ status[p] # "none"
        /\ \E st : status' = [status EXCEPT ![p] = st]
        /\ tctx' = tctx \/ tctx' = [tctx EXCEPT ![p] = Stamped(p)]
    BY <1>4 DEF DirectInsert, InsertLocal, RrEnqueueInsert, InsertShared,
                RrEnqueueStamp, BeginEnqueue, MayEnqueue
  <2> QED
    BY <1>2, <1>3, <2>1
<1>5. ASSUME NEW p \in Tasks, NEW cpu \in Cpus, RrSelectCpu(p, cpu) PROVE HasCtx'
  BY <1>2, <1>3, <1>5 DEF RrSelectCpu, SelectCpu
<1>6. ASSUME NEW p \in Tasks, NEW cpu \in Cpus,
             RrPreempt(cpu, p) \/ RrSleep(cpu, p) \/ RrExpire(cpu, p) \/ RrExit(cpu, p)
      PROVE  HasCtx'
  <2>1. /\ curr[cpu] = p
        /\ \E st : /\ status' = [status EXCEPT ![p] = st]
                   /\ \/ tctx' = [tctx EXCEPT ![p] = RrStopping(p)]
                      \/ tctx' = [tctx EXCEPT ![p] = NoCtx] /\ st = "none"
    BY <1>6 DEF RrPreempt, Preempt, RrSleep, Sleep, RrExpire, Expire, RrExit, Exit, Stop, Stops
  <2>2. status[p] # "none"
    BY <2>1 DEF OnePlace, Runs
  <2> QED
    BY <1>2, <1>3, <2>1, <2>2
<1>7. ASSUME NEW p \in Tasks, NEW cpu \in Cpus, RunNext(cpu, p),
             tctx' = [tctx EXCEPT ![p] = RrRunning(p)]
      PROVE  HasCtx'
  <2>1. Contains(local_dsq[cpu], p) /\ status' = [status EXCEPT ![p] = "running"]
    BY <1>7, TailQueue DEF RunNext
  <2>2. status[p] # "none"
    BY <2>1 DEF OnePlace, InLocal
  <2> QED
    BY <1>2, <1>3, <1>7, <2>1, <2>2
<1>8. ASSUME UNCHANGED <<status, tctx>> PROVE HasCtx'
  BY <1>8
<1>9. ASSUME NEW cpu \in Cpus, RrResched(cpu) \/ RrDispatch(cpu) \/ RrDispatchNothing(cpu)
      PROVE  HasCtx'
  BY <1>8, <1>9 DEF RrResched, Resched, RrDispatch, MoveToLocal, RrDispatchNothing, GoIdle, rrVars
<1>10. CASE RrTick \/ UNCHANGED vars
  BY <1>8, <1>10 DEF RrTick, Tick, vars, rrVars
<1> QED
  BY <1>1, <1>4, <1>5, <1>6, <1>7, <1>9, <1>10 DEF Next, EnqueueStep, CpuStep, Run

\* A task that takes part in the schedule has a context, from its fork to its exit.
THEOREM EveryTaskHasCtx == Spec => []HasCtx
<1>1. Init => HasCtx
  BY DEF Init, ScxInit, HasCtx
<1>2. Spec => []ScxIInv
  BY Framework, ScxInvariance, PTL
<1> QED
  BY <1>1, <1>2, NextHasCtx, TypeCorrect, PTL DEF Spec

\* The stamps on the way into the queue: none is later than now, those in the queue
\* ascend, and the one about to be inserted is not earlier than theirs.
Waits(p) == InShared(p) \/ status[p] = "stamped"

Ascending ==
    /\ \A p \in Tasks : Waits(p) => tctx[p].enqueue_time <= now
    /\ \A p, q \in Tasks : InFront(shared_dsq, q, p) =>
          tctx[q].enqueue_time <= tctx[p].enqueue_time
    /\ \A p, q \in Tasks : InShared(q) /\ status[p] = "stamped" =>
          tctx[q].enqueue_time <= tctx[p].enqueue_time

LEMMA AscendingIsFIFO ==
    ASSUME ScxTypeOK, Ascending
    PROVE  EarliestEnqueuedFirst
<1> SUFFICES ASSUME NEW i \in 1 .. Len(shared_dsq), NEW j \in 1 .. Len(shared_dsq), i < j
             PROVE  tctx[shared_dsq[i]].enqueue_time <= tctx[shared_dsq[j]].enqueue_time
  BY DEF EarliestEnqueuedFirst
<1>1. shared_dsq[i] \in Tasks /\ shared_dsq[j] \in Tasks
  BY HeadIsQueued DEF ScxTypeOK
<1>2. InFront(shared_dsq, shared_dsq[i], shared_dsq[j])
  BY DEF InFront
<1> QED
  BY <1>1, <1>2 DEF Ascending

\* The only step that needs the single CPU is the insertion: on two, the other may
\* hold an earlier stamp that is not inserted yet.
LEMMA NextAscending ==
    ASSUME \A c, d \in Cpus : c = d,
           ScxIInv, TypeOK, TypeOK', HasCtx, Ascending, [Next]_vars, now <= now'
    PROVE  Ascending'
<1> USE DEF ScxIInv, TypeOK, ScxTypeOK
<1>15. \A p, q : InFront(shared_dsq, q, p) => InShared(p) /\ InShared(q)
  BY DEF InFront, InShared, Contains
<1>16. \A p \in Tasks : Waits(p) => tctx[p] \in TaskCtx /\ tctx[p].enqueue_time \in Nat
  <2>1. \A p \in Tasks : Waits(p) => status[p] # "none"
    BY DEF Waits, OnePlace
  <2> QED
    BY <2>1, ConstantFacts DEF HasCtx, TaskCtx
\* A step that puts nothing into the queue and leaves the contexts of those who
\* wait alone.
<1>1. ASSUME \A p \in Tasks : Waits(p)' => Waits(p) /\ tctx'[p] = tctx[p],
             \A p \in Tasks : status'[p] = "stamped" => status[p] = "stamped",
             \A p \in Tasks : InShared(p)' => InShared(p),
             \A p, q : InFront(shared_dsq', q, p) => InFront(shared_dsq, q, p)
      PROVE  Ascending'
  <2>1. ASSUME NEW p \in Tasks, Waits(p)' PROVE tctx'[p].enqueue_time <= now'
    <3>1. Waits(p) /\ tctx'[p] = tctx[p]
      BY <1>1, <2>1
    <3>2. tctx[p].enqueue_time \in Nat /\ tctx[p].enqueue_time <= now
      BY <3>1, <1>16 DEF Ascending
    <3>3. now \in Nat /\ now' \in Nat /\ now <= now'
      BY TimeAssumption
    <3> QED
      BY ONLY <3>1, <3>2, <3>3
  <2>2. ASSUME NEW p \in Tasks, NEW q \in Tasks, InFront(shared_dsq', q, p)
        PROVE  tctx'[q].enqueue_time <= tctx'[p].enqueue_time
    <3>1. Waits(p)' /\ Waits(q)'
      BY <2>2 DEF InFront, Waits, InShared, Contains
    <3> QED
      BY <1>1, <2>2, <3>1 DEF Ascending
  <2>3. ASSUME NEW p \in Tasks, NEW q \in Tasks, InShared(q)', status'[p] = "stamped"
        PROVE  tctx'[q].enqueue_time <= tctx'[p].enqueue_time
    BY <1>1, <2>3 DEF Ascending, Waits
  <2> QED
    BY <2>1, <2>2, <2>3 DEF Ascending
\* A step of one task that does not wait, before or after.
<1>2. ASSUME NEW r \in Tasks, ~Waits(r), NEW st, st # "stamped",
             status' = [status EXCEPT ![r] = st],
             \A p \in Tasks \ {r} : tctx'[p] = tctx[p],
             UNCHANGED shared_dsq
      PROVE  Ascending'
  <2>1. \A p \in Tasks : InShared(p)' <=> InShared(p)
    BY <1>2 DEF InShared
  <2>2. \A p \in Tasks : status'[p] = "stamped" => status[p] = "stamped" /\ p # r
    BY <1>2 DEF Waits
  <2>3. \A p \in Tasks : Waits(p)' => Waits(p) /\ tctx'[p] = tctx[p]
    <3> SUFFICES ASSUME NEW p \in Tasks, Waits(p)'
                 PROVE  Waits(p) /\ tctx'[p] = tctx[p]
      OBVIOUS
    <3>1. Waits(p)
      BY <2>1, <2>2 DEF Waits
    <3>2. p # r
      BY <3>1, <1>2
    <3> QED
      BY <1>2, <3>1, <3>2
  <2> QED
    BY <1>1, <1>2, <2>1, <2>2, <2>3
<1>3. ASSUME NEW r \in Tasks, RrEnqueueStamp(r) PROVE Ascending'
  <2>1. /\ status[r] \in {"selected", "requeue"}
        /\ status' = [status EXCEPT ![r] = "stamped"]
        /\ tctx' = [tctx EXCEPT ![r] = Stamped(r)]
        /\ UNCHANGED <<now, shared_dsq>>
    BY <1>3 DEF RrEnqueueStamp, BeginEnqueue, MayEnqueue
  <2>2. Stamped(r).enqueue_time = now
    BY <2>1 DEF Stamped, HasCtx
  <2>3. /\ tctx'[r].enqueue_time = now
        /\ \A p \in Tasks \ {r} : tctx'[p] = tctx[p]
    BY <2>1, <2>2
  <2>4. ~InShared(r) /\ \A p : InShared(p)' <=> InShared(p)
    BY <2>1 DEF OnePlace, InShared
  <2>5. \A p \in Tasks : status'[p] = "stamped" <=> status[p] = "stamped" \/ p = r
    BY <2>1
  <2>6. \A p \in Tasks : Waits(p)' => p = r \/ Waits(p)
    BY <2>4, <2>5 DEF Waits
  <2>7. ASSUME NEW p \in Tasks, Waits(p)' PROVE tctx'[p].enqueue_time <= now'
    BY <2>1, <2>3, <2>6, <2>7 DEF Ascending
  <2>8. ASSUME NEW p \in Tasks, NEW q \in Tasks, InFront(shared_dsq', q, p)
        PROVE  tctx'[q].enqueue_time <= tctx'[p].enqueue_time
    <3>1. InFront(shared_dsq, q, p) /\ p # r /\ q # r
      BY <1>15, <2>1, <2>4, <2>8
    <3> QED
      BY <2>3, <3>1 DEF Ascending
  <2>9. ASSUME NEW p \in Tasks, NEW q \in Tasks, InShared(q)', status'[p] = "stamped"
        PROVE  tctx'[q].enqueue_time <= tctx'[p].enqueue_time
    <3>1. InShared(q) /\ q # r /\ tctx'[q] = tctx[q] /\ Waits(q)
      BY <2>3, <2>4, <2>9 DEF Waits
    <3>2. CASE p = r
      BY <2>3, <3>1, <3>2 DEF Ascending
    <3>3. CASE p # r
      BY <2>3, <2>5, <2>9, <3>1, <3>3 DEF Ascending
    <3> QED
      BY <3>2, <3>3
  <2> QED
    BY <2>7, <2>8, <2>9 DEF Ascending
<1>4. ASSUME NEW r \in Tasks, RrEnqueueInsert(r) PROVE Ascending'
  <2>1. /\ status[r] = "stamped"
        /\ status' = [status EXCEPT ![r] = "queued"]
        /\ shared_dsq' = Append(shared_dsq, r)
        /\ UNCHANGED <<now, tctx>>
    BY <1>4 DEF RrEnqueueInsert, InsertShared
  <2>2. \A p : InShared(p)' <=> InShared(p) \/ p = r
    BY <2>1, AppendQueue DEF InShared
  <2>3. \A p \in Tasks : status[p] = "stamped" => p = r
    BY <2>1 DEF LockHeldByOne, InEnqueue
  <2>4. \A p \in Tasks : status'[p] # "stamped"
    BY <2>1, <2>3
  <2>5. \A p \in Tasks : Waits(p)' => Waits(p)
    BY <2>1, <2>2, <2>4 DEF Waits
  <2>6. ASSUME NEW p \in Tasks, NEW q \in Tasks, InFront(shared_dsq', q, p)
        PROVE  tctx'[q].enqueue_time <= tctx'[p].enqueue_time
    <3>1. CASE p # r
      <4>1. InFront(shared_dsq, q, p)
        BY <2>1, <2>6, <3>1, AppendInFront
      <4> QED
        BY <2>1, <4>1 DEF Ascending
    <3>2. CASE p = r
      <4>1. ~InShared(r) /\ IsInjective(shared_dsq)
        BY <2>1 DEF OnePlace
      <4>2. IsInjective(shared_dsq') /\ shared_dsq' \in Seq(Tasks)
        BY <2>1, <4>1, AppendQueue DEF InShared
      <4>3. q # r
        BY <2>6, <3>2, <4>2, NotInFrontOfItself
      <4>4. InShared(q)'
        BY <2>6 DEF InFront, InShared, Contains
      <4>5. InShared(q)
        BY <2>2, <4>3, <4>4
      <4> QED
        BY <2>1, <3>2, <4>5 DEF Ascending
    <3> QED
      BY <3>1, <3>2
  <2> QED
    BY <2>1, <2>4, <2>5, <2>6 DEF Ascending
<1>5. ASSUME NEW cpu \in Cpus, RrDispatch(cpu) PROVE Ascending'
  <2>1. PICK i \in 1 .. Len(shared_dsq) : shared_dsq' = RemoveAt(shared_dsq, i)
    BY <1>5 DEF RrDispatch, MoveToLocal, Eligible
  <2>2. UNCHANGED <<status, tctx>>
    BY <1>5 DEF RrDispatch, MoveToLocal
  <2>3. \A p : InShared(p)' => InShared(p)
    BY <2>1, RemoveQueue DEF InShared, OnePlace
  <2>4. \A p, q : InFront(shared_dsq', q, p) => InFront(shared_dsq, q, p)
    BY <2>1, RemoveInFront
  <2> QED
    BY <1>1, <2>2, <2>3, <2>4 DEF Waits
<1>6. ASSUME UNCHANGED <<status, tctx, shared_dsq>> PROVE Ascending'
  <2>1. \A p : /\ InShared(p)' <=> InShared(p)
               /\ Waits(p)' <=> Waits(p)
    BY <1>6 DEF InShared, Waits
  <2> QED
    BY <1>1, <1>6, <2>1
<1>7. ASSUME NEW p \in Tasks, RrInitTask(p) \/ DirectInsert(p) PROVE Ascending'
  <2>1. /\ status[p] \in {"none", "selected"}
        /\ \E st \in {"asleep", "queued"} : status' = [status EXCEPT ![p] = st]
        /\ \A q \in Tasks \ {p} : tctx'[q] = tctx[q]
        /\ UNCHANGED shared_dsq
    BY <1>7 DEF RrInitTask, Fork, DirectInsert, InsertLocal
  <2>2. ~Waits(p)
    BY <2>1 DEF Waits, OnePlace
  <2> QED
    BY <1>2, <2>1, <2>2
<1>8. ASSUME NEW p \in Tasks, NEW cpu \in Cpus, RrSelectCpu(p, cpu) PROVE Ascending'
  <2>1. /\ status[p] = "asleep"
        /\ status' = [status EXCEPT ![p] = "selected"]
        /\ UNCHANGED <<tctx, shared_dsq>>
    BY <1>8 DEF RrSelectCpu, SelectCpu
  <2>2. ~Waits(p)
    BY <2>1 DEF Waits, OnePlace
  <2> QED
    BY <1>2, <2>1, <2>2
<1>9. ASSUME NEW p \in Tasks, NEW cpu \in Cpus,
             RrPreempt(cpu, p) \/ RrSleep(cpu, p) \/ RrExpire(cpu, p) \/ RrExit(cpu, p)
      PROVE  Ascending'
  <2>1. /\ curr[cpu] = p
        /\ \E st \in {"queued", "asleep", "requeue", "none"} :
              status' = [status EXCEPT ![p] = st]
        /\ \A q \in Tasks \ {p} : tctx'[q] = tctx[q]
        /\ UNCHANGED shared_dsq
    BY <1>9 DEF RrPreempt, Preempt, RrSleep, Sleep, RrExpire, Expire, RrExit, Exit, Stop, Stops
  <2>2. status[p] = "running"
    BY <2>1 DEF OnePlace, Runs
  <2>3. ~Waits(p)
    BY <2>2 DEF Waits, OnePlace
  <2> QED
    BY <1>2, <2>1, <2>3
<1>10. ASSUME NEW p \in Tasks, NEW cpu \in Cpus, RunNext(cpu, p),
              tctx' = [tctx EXCEPT ![p] = RrRunning(p)]
       PROVE  Ascending'
  <2>1. /\ Contains(local_dsq[cpu], p)
        /\ status' = [status EXCEPT ![p] = "running"]
        /\ UNCHANGED shared_dsq
    BY <1>10, TailQueue DEF RunNext
  <2>2. ~Waits(p)
    BY <2>1 DEF Waits, OnePlace, InLocal
  <2> QED
    BY <1>2, <1>10, <2>1, <2>2
<1>11. ASSUME NEW cpu \in Cpus, RrResched(cpu) \/ RrDispatchNothing(cpu) PROVE Ascending'
  BY <1>6, <1>11 DEF RrResched, Resched, RrDispatchNothing, GoIdle, rrVars
<1>12. CASE RrTick \/ UNCHANGED vars
  BY <1>6, <1>12 DEF RrTick, Tick, vars, rrVars
<1> QED
  BY <1>3, <1>4, <1>5, <1>7, <1>8, <1>9, <1>10, <1>11, <1>12 DEF Next, EnqueueStep, CpuStep, Run

\* With one CPU, and as long as the u64 clock does not wrap, rr_dispatch's "FIFO
\* order means earliest-enqueued first" is true: the race of two CPUs between
\* stamp and insertion, which the run rr_bpf_fifo shows, is its only exception.
THEOREM EarliestFirstOnOneCpu ==
    ASSUME \A c, d \in Cpus : c = d
    PROVE  Spec /\ [][now <= now']_vars => []EarliestEnqueuedFirst
<1>1. Init => Ascending
  BY EmptyQueue DEF Init, ScxInit, Ascending, Waits, InShared, InFront
<1>2. ScxIInv /\ TypeOK /\ TypeOK' /\ HasCtx /\ Ascending /\ [Next]_vars /\ [now <= now']_vars
      => Ascending'
  <2> SUFFICES ASSUME ScxIInv, TypeOK, TypeOK', HasCtx, Ascending, [Next]_vars, [now <= now']_vars
               PROVE  Ascending'
    OBVIOUS
  <2>1. now \in Nat
    BY ConstantFacts DEF TypeOK, ScxTypeOK
  <2>2. now <= now'
    BY <2>1 DEF vars, scxVars
  <2> QED
    BY <2>2, NextAscending
<1>3. ScxIInv /\ Ascending => EarliestEnqueuedFirst
  BY AscendingIsFIFO DEF ScxIInv
<1>4. Spec => []ScxIInv
  BY Framework, ScxInvariance, PTL
<1> QED
  BY <1>1, <1>2, <1>3, <1>4, EveryTaskHasCtx, TypeCorrect, PTL DEF Spec
=============================================================================
