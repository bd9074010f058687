--------------------------- MODULE FairBpf_proofs ---------------------------
(***************************************************************************)
(* Proofs about the eBPF fair scheduler, for any number of tasks and CPUs, *)
(* any affinity, weights, slice and clock width.                           *)
(***************************************************************************)
EXTENDS FairBpf, ScxFramework_proofs

LEMMA WeightFacts ==
    /\ NICE_0_WEIGHT \in Nat \ {0}
    /\ \A p \in Tasks : Weight[p] \in Nat
BY WeightAssumption DEF WeightAssumption

-----------------------------------------------------------------------------
(* The callbacks keep to the framework's steps.                             *)

LEMMA NextFramework ==
    ASSUME [Next]_vars
    PROVE  [ScxNext]_scxVars
<1>1. ASSUME NEW p \in Tasks, FairFork(p) \/ EnqueueStep(p) PROVE ScxNext
  BY <1>1 DEF FairFork, EnqueueStep, SEnqueueStamp, SEnqueueNoCtx, SEnqueueInsert,
              ScxNext, ScxTaskStep
<1>2. ASSUME NEW p \in Tasks, NEW cpu \in Cpus,
             \/ SSelectCpu(p, cpu) \/ FairPreempt(cpu, p) \/ FairSleep(cpu, p)
             \/ SExitTask(cpu, p) \/ FairExpire(cpu, p) \/ RunNext(cpu, p)
      PROVE  ScxNext
  BY <1>2 DEF SSelectCpu, FairPreempt, FairSleep, SExitTask, FairExpire, ScxNext, ScxRunStep
<1>3. ASSUME NEW cpu \in Cpus, FairResched(cpu) \/ SDispatch(cpu)
      PROVE  ScxNext
  BY <1>3 DEF FairResched, SDispatch, ScxNext, ScxCpuStep
<1>4. CASE FairTick
  BY <1>4 DEF FairTick, ScxNext
<1>5. CASE UNCHANGED vars
  BY <1>5 DEF vars
<1> QED
  BY <1>1, <1>2, <1>3, <1>4, <1>5 DEF Next, CpuStep, FairRun

\* The fair scheduler's behaviours are behaviours of the framework.
THEOREM Framework == Spec => ScxSpec
<1>1. Init => ScxInit
  BY DEF Init
<1> QED
  BY <1>1, NextFramework, PTL DEF Spec, ScxSpec

\* So it has what the framework guarantees, with or without memory for its
\* contexts: a task that was inserted is in exactly one place.
THEOREM OnePlaceAlways == Spec => []OnePlace
BY Framework, ScxInvariance, PTL DEF ScxIInv

\* FR-3: a CPU gets only tasks that may run there.
THEOREM AffinityAlwaysRespected == Spec => []AffinityRespected
BY Framework, ScxInvariance, PTL DEF ScxIInv

\* A waiting task can count on a CPU that is awake or told to reschedule, although
\* s_enqueue kicks none and uses no shortcut.
THEOREM WaiterAlwaysHasACpu == Spec => []WaiterHasACpu
BY Framework, ScxInvariance, PTL DEF ScxIInv

\* s_enqueue inserts the task, or finds no memory for its context.
LEMMA NextLeavesNoneOut ==
    ASSUME AllocFails = FALSE, ScxTypeOK, [Next]_vars
    PROVE  NobodyLeftOut
<1> USE DEF ScxTypeOK
<1> SUFFICES ASSUME NEW q \in Tasks, LeaveOut(q)
             PROVE  FALSE
  BY DEF NobodyLeftOut
<1>1. status[q] \in {"selected", "requeue"} /\ status'[q] = "limbo"
  BY DEF LeaveOut, MayEnqueue, SetStatus
<1>2. ASSUME NEW p \in Tasks, NEW s \in Status \ {"limbo"}, status' = [status EXCEPT ![p] = s]
      PROVE  FALSE
  BY <1>1, <1>2
<1>3. status' # status
  BY <1>1
<1>4. ASSUME NEW p \in Tasks, FairFork(p) \/ EnqueueStep(p) PROVE FALSE
  BY <1>2, <1>4 DEF FairFork, EnqueueStep, SEnqueueStamp, SEnqueueNoCtx, SEnqueueInsert,
                    Fork, BeginEnqueue, InsertShared, SetStatus, Status
<1>5. ASSUME NEW p \in Tasks, NEW cpu \in Cpus,
             \/ SSelectCpu(p, cpu) \/ FairPreempt(cpu, p) \/ FairSleep(cpu, p)
             \/ SExitTask(cpu, p) \/ FairExpire(cpu, p) \/ RunNext(cpu, p)
      PROVE  FALSE
  BY <1>2, <1>5 DEF SSelectCpu, SelectCpu, FairPreempt, Preempt, FairSleep, Sleep, SExitTask,
                    Exit, FairExpire, Expire, RunNext, SetStatus, Status
<1>6. ASSUME NEW cpu \in Cpus, FairResched(cpu) \/ SDispatch(cpu) PROVE FALSE
  BY <1>3, <1>6 DEF FairResched, Resched, SDispatch, MoveToLocal, GoIdle, taskVars
<1>7. CASE FairTick \/ UNCHANGED vars
  BY <1>3, <1>7 DEF FairTick, Tick, vars, scxVars, taskVars
<1> QED
  BY <1>4, <1>5, <1>6, <1>7 DEF Next, CpuStep, FairRun

\* As long as every context can be allocated, tasks change hands as TaskHandover
\* says.  The condition is needed: s_enqueue's early return drops the task.
THEOREM Refinement ==
    ASSUME AllocFails = FALSE
    PROVE  Spec => HandsOver
<1>1. Spec => []ScxTypeOK /\ ScxSpec
  BY Framework, ScxInvariance, PTL DEF ScxIInv
<1>2. Spec => [][NobodyLeftOut]_scxVars
  <2>1. ScxTypeOK /\ [Next]_vars => [NobodyLeftOut]_scxVars
    BY NextLeavesNoneOut
  <2> QED
    BY <1>1, <2>1, PTL DEF Spec
<1> QED
  BY <1>1, <1>2, ScxRefinement

\* And every s_enqueue ends with its task in SCX_DSQ_GLOBAL, as its comment
\* promises: what is violated when memory is short holds when it is not.
THEOREM EnqueueEndsOnAQueue ==
    ASSUME AllocFails = FALSE
    PROVE  Spec => EndsOnAQueue
<1> DEFINE Ends == \A p \in Tasks : Enqueueing(p) /\ ~Enqueueing(p)' => InShared(p)'
<1>1. ScxIInv /\ [Next]_vars => [Ends]_vars
  <2> SUFFICES ASSUME ScxIInv, Next, NEW q \in Tasks, Enqueueing(q), ~Enqueueing(q)'
               PROVE  InShared(q)'
    OBVIOUS
  <2> USE DEF ScxIInv, ScxTypeOK, Enqueueing, InEnqueue
  <2>1. ASSUME NEW p \in Tasks, FairFork(p) \/ SEnqueueStamp(p) \/ SEnqueueNoCtx(p) PROVE FALSE
    BY <2>1 DEF FairFork, Fork, SEnqueueStamp, BeginEnqueue, SEnqueueNoCtx, SetStatus
  <2>2. ASSUME NEW p \in Tasks, SEnqueueInsert(p) PROVE InShared(q)'
    <3>1. q = p
      BY <2>2 DEF SEnqueueInsert, InsertShared, SetStatus
    <3>2. shared_dsq' = Append(shared_dsq, p)
      BY <2>2 DEF SEnqueueInsert, InsertShared
    <3> QED
      BY <3>1, <3>2, AppendQueue DEF InShared
  <2>3. ASSUME NEW p \in Tasks, NEW cpu \in Cpus, SSelectCpu(p, cpu) PROVE FALSE
    BY <2>3 DEF SSelectCpu, SelectCpu, SetStatus
  <2>4. ASSUME NEW p \in Tasks, NEW cpu \in Cpus,
               FairPreempt(cpu, p) \/ FairSleep(cpu, p) \/ SExitTask(cpu, p) \/ FairExpire(cpu, p)
        PROVE  FALSE
    <3>1. /\ curr[cpu] = p
          /\ \E s \in Status : status' = [status EXCEPT ![p] = s]
      BY <2>4 DEF FairPreempt, Preempt, FairSleep, Sleep, SExitTask, Exit, FairExpire, Expire,
                  Stop, SetStatus, Status
    <3>2. status[p] = "running"
      BY <3>1 DEF OnePlace, Runs
    <3> QED
      BY <3>1, <3>2
  <2>5. ASSUME NEW cpu \in Cpus, FairRun(cpu) PROVE FALSE
    <3>1. PICK p \in Tasks : RunNext(cpu, p)
      BY <2>5 DEF FairRun
    <3>2. Contains(local_dsq[cpu], p)
      BY <3>1, TailQueue DEF RunNext
    <3>3. status[p] = "queued"
      BY <3>2 DEF OnePlace, InLocal
    <3> QED
      BY <3>1, <3>3 DEF RunNext, SetStatus
  <2>6. ASSUME NEW cpu \in Cpus, FairResched(cpu) \/ SDispatch(cpu) PROVE FALSE
    BY <2>6 DEF FairResched, Resched, SDispatch, MoveToLocal, GoIdle, taskVars
  <2>7. CASE FairTick
    BY <2>7 DEF FairTick, Tick, taskVars
  <2> QED
    BY <2>1, <2>2, <2>3, <2>4, <2>5, <2>6, <2>7 DEF Next, EnqueueStep, CpuStep
<1>2. Spec => []ScxIInv
  BY Framework, ScxInvariance, PTL
<1> QED
  BY <1>1, <1>2, PTL DEF Spec, EndsOnAQueue

\* SCX_DSQ_GLOBAL is served in the order of insertion, and never by vruntime, but
\* for the tasks the dispatching CPU may not run.
THEOREM InOrderAlways == Spec => InInsertionOrder
BY Framework, ScxInOrder

-----------------------------------------------------------------------------
(* Types, and what s_running finds in a context                             *)

USE DEF SetStatus, taskVars, runVars, idleVars, scxVars

\* A task that was enqueued has a context until it exits: only s_enqueue ever
\* creates one, and it stamps it.
HasCtx == \A p \in Tasks : status[p] \in {"stamped", "queued", "running"} => tctx[p] \in TaskCtx

\* One task's account: its vruntime is what was metered, its stamp is as old as its
\* last s_enqueue, and what s_running will charge is what is due.
Account(st, ctx, d, s, m, t) ==
    /\ ctx # NoCtx => ctx.vruntime = m /\ (t - ctx.enqueue_time) % TimeMod = s
    /\ ctx = NoCtx => m = 0
    /\ d = IF st \in {"stamped", "queued"} THEN (t - ctx.enqueue_time) % TimeMod ELSE 0

Metering ==
    \A p \in Tasks : Account(status[p], tctx[p], due[p], since[p], metered[p], now)

IInv ==
    /\ TypeOK
    /\ HasCtx
    /\ Metering

\* Time differences on a clock that wraps.
LEMMA ElapsedCases ==
    ASSUME now \in 0 .. TimeMod - 1, NEW t \in 0 .. TimeMod - 1
    PROVE  Elapsed(t) = IF now >= t THEN now - t ELSE now - t + TimeMod
BY ConstantFacts DEF Elapsed

LEMMA NextTime ==
    ASSUME NEW t \in 0 .. TimeMod - 1
    PROVE  /\ (t + 1) % TimeMod \in 0 .. TimeMod - 1
           /\ (t + 1) % TimeMod = IF t + 1 = TimeMod THEN 0 ELSE t + 1
BY ConstantFacts

LEMMA Difference ==
    ASSUME NEW t \in 0 .. TimeMod - 1, NEW e \in 0 .. TimeMod - 1
    PROVE  (t - e) % TimeMod = IF t >= e THEN t - e ELSE t - e + TimeMod
BY ConstantFacts

\* A tick lengthens every difference by one, through the wrap of the clock.
LEMMA TickDifference ==
    ASSUME NEW t \in 0 .. TimeMod - 1, NEW e \in 0 .. TimeMod - 1
    PROVE  (((t + 1) % TimeMod) - e) % TimeMod = (((t - e) % TimeMod) + 1) % TimeMod
<1> DEFINE t1 == (t + 1) % TimeMod
           w == (t - e) % TimeMod
<1>1. t1 \in 0 .. TimeMod - 1 /\ t1 = IF t + 1 = TimeMod THEN 0 ELSE t + 1
  BY NextTime
<1>2. w = IF t >= e THEN t - e ELSE t - e + TimeMod
  BY Difference
<1>3. w \in 0 .. TimeMod - 1
  <2> HIDE DEF w
  <2> QED
    BY <1>2, ConstantFacts
<1>4. (w + 1) % TimeMod = IF w + 1 = TimeMod THEN 0 ELSE w + 1
  <2> HIDE DEF w
  <2> QED
    BY <1>3, NextTime
<1>5. (t1 - e) % TimeMod = IF t1 >= e THEN t1 - e ELSE t1 - e + TimeMod
  <2> HIDE DEF t1
  <2> QED
    BY <1>1, Difference
<1> HIDE DEF t1, w
<1>6. (t1 - e) % TimeMod = (w + 1) % TimeMod
  BY <1>1, <1>2, <1>3, <1>4, <1>5, ConstantFacts
<1> QED
  BY <1>6 DEF t1, w

LEMMA DeltaType ==
    ASSUME NEW ns \in Nat, NEW weight \in Nat
    PROVE  CalcDeltaVruntime(ns, weight) \in Int
<1> DEFINE product == (ns * NICE_0_WEIGHT) % TimeMod
           w == IF weight = 0 THEN NICE_0_WEIGHT ELSE weight
<1>1. ns * NICE_0_WEIGHT \in Int
  BY WeightFacts
<1>2. product \in Int
  BY <1>1, ConstantFacts
<1>3. w \in Nat \ {0}
  BY WeightFacts
<1> HIDE DEF product, w
<1>4. product \div w \in Int
  BY <1>2, <1>3
<1> QED
  BY <1>4 DEF CalcDeltaVruntime, product, w

LEMMA CtxTypes ==
    ASSUME TypeOK, NEW p \in Tasks
    PROVE  /\ GetTaskCtx(p) \in TaskCtx
           /\ SRunning(p) \in TaskCtx
           /\ [GetTaskCtx(p) EXCEPT !.enqueue_time = now] \in TaskCtx
<1>1. now \in 0 .. TimeMod - 1 /\ 0 \in 0 .. TimeMod - 1
  BY ConstantFacts DEF TypeOK, ScxTypeOK
<1>2. GetTaskCtx(p) \in TaskCtx
  <2>1. tctx[p] \in TaskCtx \cup {NoCtx}
    BY DEF TypeOK
  <2> QED
    BY <1>1, <2>1 DEF GetTaskCtx, TaskCtx
<1> DEFINE ctx == GetTaskCtx(p)
           wait == Elapsed(ctx.enqueue_time)
           delta == CalcDeltaVruntime(wait, Weight[p])
<1>3. ctx.vruntime \in 0 .. TimeMod - 1 /\ ctx.enqueue_time \in 0 .. TimeMod - 1
  BY <1>2 DEF TaskCtx
<1>4. wait \in Nat
  <2> HIDE DEF ctx
  <2> QED
    BY <1>1, <1>3, ElapsedCases, ConstantFacts
<1>5. delta \in Int
  <2> HIDE DEF wait
  <2> QED
    BY <1>4, DeltaType, WeightFacts
<1>6. (ctx.vruntime + delta) % TimeMod \in 0 .. TimeMod - 1
  <2> HIDE DEF ctx, delta
  <2>1. ctx.vruntime + delta \in Int
    BY <1>3, <1>5
  <2> QED
    BY <2>1, ConstantFacts
<1>7. SRunning(p) = [ctx EXCEPT !.vruntime = (ctx.vruntime + delta) % TimeMod]
  BY DEF SRunning
<1>8. SRunning(p) \in TaskCtx
  <2> HIDE DEF ctx, delta
  <2>1. ctx \in TaskCtx
    BY <1>2 DEF ctx
  <2> QED
    BY <1>6, <1>7, <2>1 DEF TaskCtx
<1>9. [ctx EXCEPT !.enqueue_time = now] \in TaskCtx
  BY <1>1, <1>2 DEF TaskCtx
<1> QED
  BY <1>2, <1>8, <1>9


LEMMA NextTypeOK ==
    ASSUME TypeOK, ScxTypeOK', Next
    PROVE  TypeOK'
<1> USE ConstantFacts
<1> DEFINE Times == 0 .. TimeMod - 1
<1>1. /\ tctx \in [Tasks -> TaskCtx \cup {NoCtx}]
      /\ due \in [Tasks -> Times] /\ since \in [Tasks -> Times] /\ metered \in [Tasks -> Times]
  BY DEF TypeOK
<1> DEFINE Kept == /\ tctx' \in [Tasks -> TaskCtx \cup {NoCtx}]
                   /\ due' \in [Tasks -> Times]
                   /\ since' \in [Tasks -> Times]
                   /\ metered' \in [Tasks -> Times]
<1>2. SUFFICES Kept
  BY DEF TypeOK
<1>3. 0 \in Times
  OBVIOUS
<1>4. ASSUME NEW p \in Tasks, SEnqueueStamp(p) PROVE Kept
  <2>1. [GetTaskCtx(p) EXCEPT !.enqueue_time = now] \in TaskCtx
    BY CtxTypes
  <2> QED
    BY <1>1, <1>3, <1>4, <2>1 DEF SEnqueueStamp
<1>5. ASSUME NEW cpu \in Cpus, FairRun(cpu) PROVE Kept
  <2>1. PICK p \in Tasks :
          /\ tctx' = [tctx EXCEPT ![p] = SRunning(p)]
          /\ metered' = [metered EXCEPT ![p] =
                            (metered[p] + CalcDeltaVruntime(due[p], Weight[p])) % TimeMod]
          /\ due' = [due EXCEPT ![p] = 0]
          /\ UNCHANGED since
    BY <1>5 DEF FairRun
  <2>2. SRunning(p) \in TaskCtx
    BY CtxTypes
  <2> DEFINE delta == CalcDeltaVruntime(due[p], Weight[p])
  <2>3. delta \in Int
    BY <1>1, DeltaType, WeightFacts
  <2>4. (metered[p] + delta) % TimeMod \in Times
    <3> HIDE DEF delta
    <3>1. metered[p] + delta \in Int
      BY <1>1, <2>3
    <3> QED
      BY <3>1
  <2> HIDE DEF delta
  <2>5. metered' = [metered EXCEPT ![p] = (metered[p] + delta) % TimeMod]
    BY <2>1 DEF delta
  <2> QED
    BY <1>1, <1>3, <2>1, <2>2, <2>4, <2>5
<1>6. ASSUME NEW p \in Tasks, NEW cpu \in Cpus, FairPreempt(cpu, p) PROVE Kept
  BY <1>1, <1>6 DEF FairPreempt
<1>7. ASSUME NEW p \in Tasks, NEW cpu \in Cpus, SExitTask(cpu, p) PROVE Kept
  BY <1>1, <1>3, <1>7 DEF SExitTask
<1>8. CASE FairTick
  <2>1. ASSUME NEW h \in [Tasks -> Times], NEW T PROVE Longer(h, T) \in [Tasks -> Times]
    <3>1. ASSUME NEW p \in Tasks PROVE (h[p] + 1) % TimeMod \in Times
      BY NextTime
    <3> QED
      BY <3>1 DEF Longer
  <2> QED
    BY <1>1, <1>8, <2>1 DEF FairTick
<1>9. ASSUME UNCHANGED fairVars PROVE Kept
  BY <1>1, <1>9 DEF fairVars, history
<1> QED
  BY <1>4, <1>5, <1>6, <1>7, <1>8, <1>9
  DEF Next, EnqueueStep, SEnqueueNoCtx, SEnqueueInsert, CpuStep, FairFork, SSelectCpu,
      FairSleep, FairResched, SDispatch, FairExpire

LEMMA NextHasCtx ==
    ASSUME TypeOK, HasCtx, OnePlace, Next
    PROVE  HasCtx'
<1> USE DEF TypeOK, ScxTypeOK, HasCtx
<1>1. ASSUME NEW p \in Tasks, SEnqueueStamp(p) PROVE HasCtx'
  <2>1. [GetTaskCtx(p) EXCEPT !.enqueue_time = now] \in TaskCtx
    BY CtxTypes
  <2> QED
    BY <1>1, <2>1 DEF SEnqueueStamp, BeginEnqueue
<1>2. ASSUME NEW p \in Tasks, NEW cpu \in Cpus, RunNext(cpu, p),
             tctx' = [tctx EXCEPT ![p] = SRunning(p)]
      PROVE  HasCtx'
  <2>1. SRunning(p) \in TaskCtx
    BY CtxTypes
  <2> QED
    BY <1>2, <2>1 DEF RunNext
<1>3. ASSUME NEW p \in Tasks, NEW cpu \in Cpus, SExitTask(cpu, p) PROVE HasCtx'
  BY <1>3 DEF SExitTask, Exit, Stop
<1>4. ASSUME NEW p \in Tasks, FairFork(p) \/ SEnqueueNoCtx(p) PROVE HasCtx'
  BY <1>4 DEF FairFork, Fork, SEnqueueNoCtx, LeaveOut, fairVars
<1>5. ASSUME NEW p \in Tasks, SEnqueueInsert(p) PROVE HasCtx'
  BY <1>5 DEF SEnqueueInsert, InsertShared, fairVars
<1>6. ASSUME NEW p \in Tasks, NEW cpu \in Cpus, SSelectCpu(p, cpu) PROVE HasCtx'
  BY <1>6 DEF SSelectCpu, SelectCpu, fairVars
<1>7. ASSUME NEW p \in Tasks, NEW cpu \in Cpus, FairExpire(cpu, p) PROVE HasCtx'
  BY <1>7 DEF FairExpire, Expire, Stop, fairVars
<1>8. ASSUME NEW p \in Tasks, NEW cpu \in Cpus, FairPreempt(cpu, p) PROVE HasCtx'
  <2>1. status[p] = "running"
    BY <1>8 DEF FairPreempt, Preempt, Stop, OnePlace, Runs
  <2> QED
    BY <1>8, <2>1 DEF FairPreempt, Preempt
<1>9. ASSUME NEW p \in Tasks, NEW cpu \in Cpus, FairSleep(cpu, p) PROVE HasCtx'
  BY <1>9 DEF FairSleep, Sleep, Stop, fairVars
<1>10. ASSUME NEW cpu \in Cpus, FairResched(cpu) \/ SDispatch(cpu) PROVE HasCtx'
  BY <1>10 DEF FairResched, Resched, SDispatch, MoveToLocal, GoIdle, fairVars
<1>11. CASE FairTick
  BY <1>11 DEF FairTick, Tick
<1> QED
  BY <1>1, <1>2, <1>3, <1>4, <1>5, <1>6, <1>7, <1>8, <1>9, <1>10, <1>11
  DEF Next, EnqueueStep, CpuStep, FairRun

-----------------------------------------------------------------------------
(* What s_running charges                                                   *)

\* A step of one task, at one time.
LEMMA AccountStep ==
    ASSUME Metering, NEW p \in Tasks, now' = now,
           \A q \in Tasks \ {p} : /\ status'[q] = status[q] /\ tctx'[q] = tctx[q]
                                  /\ due'[q] = due[q] /\ since'[q] = since[q]
                                  /\ metered'[q] = metered[q],
           Account(status'[p], tctx'[p], due'[p], since'[p], metered'[p], now)
    PROVE  Metering'
<1>1. ASSUME NEW q \in Tasks, q # p
      PROVE  Account(status'[q], tctx'[q], due'[q], since'[q], metered'[q], now')
  BY <1>1 DEF Metering, Account
<1>2. Account(status'[p], tctx'[p], due'[p], since'[p], metered'[p], now')
  BY DEF Account
<1> QED
  BY <1>1, <1>2 DEF Metering

LEMMA AccountSame ==
    ASSUME Metering, UNCHANGED <<now, status, fairVars>>
    PROVE  Metering'
BY DEF Metering, fairVars, history, Account

\* A task that is moved about and neither enters nor leaves a wait.
LEMMA AccountMove ==
    ASSUME ScxTypeOK, Metering, NEW p \in Tasks, NEW st,
           status' = [status EXCEPT ![p] = st],
           st \in {"stamped", "queued"} <=> status[p] \in {"stamped", "queued"},
           UNCHANGED <<now, fairVars>>
    PROVE  Metering'
<1>1. Account(status[p], tctx[p], due[p], since[p], metered[p], now)
  BY DEF Metering
<1>2. Account(status'[p], tctx'[p], due'[p], since'[p], metered'[p], now)
  BY <1>1 DEF Account, fairVars, history, ScxTypeOK
<1> QED
  BY <1>2, AccountStep DEF fairVars, history, ScxTypeOK

LEMMA NextMetering ==
    ASSUME TypeOK, HasCtx, Metering, OnePlace, Next
    PROVE  Metering'
<1>1. ScxTypeOK /\ now \in 0 .. TimeMod - 1
  BY DEF TypeOK, ScxTypeOK
<1>2. ASSUME NEW p \in Tasks
      PROVE  Account(status[p], tctx[p], due[p], since[p], metered[p], now)
  BY DEF Metering
<1>3. ASSUME NEW p \in Tasks, SEnqueueStamp(p) PROVE Metering'
  <2>1. /\ now' = now
        /\ status[p] \in {"selected", "requeue"}
        /\ status' = [status EXCEPT ![p] = "stamped"]
        /\ tctx' = [tctx EXCEPT ![p] = [GetTaskCtx(p) EXCEPT !.enqueue_time = now]]
        /\ since' = [since EXCEPT ![p] = 0]
        /\ UNCHANGED <<due, metered>>
    BY <1>3 DEF SEnqueueStamp, BeginEnqueue, MayEnqueue
  <2>2. GetTaskCtx(p) \in TaskCtx
    BY CtxTypes
  <2>3. /\ tctx'[p] = [GetTaskCtx(p) EXCEPT !.enqueue_time = now]
        /\ since'[p] = 0 /\ status'[p] = "stamped"
    BY <1>1, <2>1 DEF TypeOK, ScxTypeOK
  <2>4. /\ tctx'[p].enqueue_time = now /\ tctx'[p].vruntime = GetTaskCtx(p).vruntime
        /\ tctx'[p] # NoCtx
    BY <1>1, <2>2, <2>3 DEF TaskCtx, NoCtx
  <2>5. (now - now) % TimeMod = 0
    BY <1>1, ConstantFacts
  <2>6. due[p] = 0 /\ GetTaskCtx(p).vruntime = metered[p]
    BY <1>2, <2>1 DEF Account, GetTaskCtx
  <2>7. Account(status'[p], tctx'[p], due'[p], since'[p], metered'[p], now)
    BY <2>1, <2>3, <2>4, <2>5, <2>6 DEF Account
  <2>8. \A q \in Tasks \ {p} : /\ status'[q] = status[q] /\ tctx'[q] = tctx[q]
                               /\ since'[q] = since[q]
    BY <1>1, <2>1 DEF TypeOK, ScxTypeOK
  <2> QED
    BY <2>1, <2>7, <2>8, AccountStep
<1>4. ASSUME NEW p \in Tasks, FairFork(p) PROVE Metering'
  BY <1>1, <1>4, AccountMove DEF FairFork, Fork
<1>5. ASSUME NEW p \in Tasks, SEnqueueNoCtx(p) PROVE Metering'
  BY <1>1, <1>5, AccountMove DEF SEnqueueNoCtx, LeaveOut, MayEnqueue
<1>6. ASSUME NEW p \in Tasks, SEnqueueInsert(p) PROVE Metering'
  BY <1>1, <1>6, AccountMove DEF SEnqueueInsert, InsertShared
<1>7. ASSUME NEW p \in Tasks, NEW cpu \in Cpus, SSelectCpu(p, cpu) PROVE Metering'
  BY <1>1, <1>7, AccountMove DEF SSelectCpu, SelectCpu
<1>8. ASSUME NEW p \in Tasks, NEW cpu \in Cpus, curr[cpu] = p
      PROVE  status[p] = "running" /\ tctx[p] \in TaskCtx /\ due[p] = 0
  <2>1. status[p] = "running"
    BY <1>8 DEF OnePlace, Runs
  <2> QED
    BY <1>2, <2>1 DEF HasCtx, Account
<1>9. ASSUME NEW p \in Tasks, NEW cpu \in Cpus, FairExpire(cpu, p) PROVE Metering'
  BY <1>1, <1>8, <1>9, AccountMove DEF FairExpire, Expire, Stop
<1>10. ASSUME NEW p \in Tasks, NEW cpu \in Cpus, FairSleep(cpu, p) PROVE Metering'
  BY <1>1, <1>8, <1>10, AccountMove DEF FairSleep, Sleep, Stop
<1>11. ASSUME NEW p \in Tasks, NEW cpu \in Cpus, SExitTask(cpu, p) PROVE Metering'
  <2>1. /\ now' = now /\ curr[cpu] = p
        /\ status' = [status EXCEPT ![p] = "none"]
        /\ tctx' = [tctx EXCEPT ![p] = NoCtx]
        /\ since' = [since EXCEPT ![p] = 0]
        /\ metered' = [metered EXCEPT ![p] = 0]
        /\ UNCHANGED due
    BY <1>11 DEF SExitTask, Exit, Stop
  <2>2. Account(status'[p], tctx'[p], due'[p], since'[p], metered'[p], now)
    BY <1>1, <1>8, <2>1 DEF Account, TypeOK, ScxTypeOK
  <2>3. \A q \in Tasks \ {p} : /\ status'[q] = status[q] /\ tctx'[q] = tctx[q]
                               /\ since'[q] = since[q] /\ metered'[q] = metered[q]
    BY <1>1, <2>1 DEF TypeOK, ScxTypeOK
  <2> QED
    BY <2>1, <2>2, <2>3, AccountStep
<1>12. ASSUME NEW p \in Tasks, NEW cpu \in Cpus, FairPreempt(cpu, p) PROVE Metering'
  <2>1. /\ now' = now /\ curr[cpu] = p
        /\ status' = [status EXCEPT ![p] = "queued"]
        /\ due' = [due EXCEPT ![p] = since[p]]
        /\ UNCHANGED <<tctx, since, metered>>
    BY <1>12 DEF FairPreempt, Preempt, Stop
  <2>2. tctx[p] # NoCtx
    BY <1>8, <2>1 DEF TaskCtx, NoCtx
  <2>3. /\ tctx[p].vruntime = metered[p]
        /\ (now - tctx[p].enqueue_time) % TimeMod = since[p]
    BY <1>2, <2>2 DEF Account
  <2>4. Account(status'[p], tctx'[p], due'[p], since'[p], metered'[p], now)
    BY <1>1, <2>1, <2>2, <2>3 DEF Account, TypeOK, ScxTypeOK
  <2>5. \A q \in Tasks \ {p} : status'[q] = status[q] /\ due'[q] = due[q]
    BY <1>1, <2>1 DEF TypeOK, ScxTypeOK
  <2> QED
    BY <2>1, <2>4, <2>5, AccountStep
<1>13. ASSUME NEW cpu \in Cpus, FairRun(cpu) PROVE Metering'
  <2>1. PICK p \in Tasks :
          /\ RunNext(cpu, p)
          /\ tctx' = [tctx EXCEPT ![p] = SRunning(p)]
          /\ metered' = [metered EXCEPT ![p] =
                            (metered[p] + CalcDeltaVruntime(due[p], Weight[p])) % TimeMod]
          /\ due' = [due EXCEPT ![p] = 0]
          /\ UNCHANGED since
    BY <1>13 DEF FairRun
  <2>2. now' = now /\ status' = [status EXCEPT ![p] = "running"]
    BY <2>1 DEF RunNext
  <2>3. Contains(local_dsq[cpu], p)
    BY <1>1, <2>1, TailQueue DEF RunNext, ScxTypeOK
  <2>4. status[p] = "queued"
    BY <2>3 DEF OnePlace, InLocal
  <2>5. tctx[p] \in TaskCtx /\ tctx[p] # NoCtx
    BY <2>4 DEF HasCtx, TaskCtx, NoCtx
  <2> DEFINE ctx == tctx[p]
             m == (metered[p] + CalcDeltaVruntime(due[p], Weight[p])) % TimeMod
  <2>6. /\ ctx.vruntime = metered[p]
        /\ (now - ctx.enqueue_time) % TimeMod = since[p]
        /\ Elapsed(ctx.enqueue_time) = due[p]
    BY <1>2, <2>4, <2>5 DEF Account, Elapsed
  <2>7. SRunning(p) = [ctx EXCEPT !.vruntime = m]
    BY <2>5, <2>6 DEF SRunning, GetTaskCtx
  <2>8. tctx'[p] = [ctx EXCEPT !.vruntime = m] /\ metered'[p] = m /\ due'[p] = 0
    BY <2>1, <2>7 DEF TypeOK
  <2> HIDE DEF m
  <2>9. tctx'[p].vruntime = m /\ tctx'[p].enqueue_time = ctx.enqueue_time
    BY <2>5, <2>8 DEF TaskCtx
  <2>10. tctx'[p] # NoCtx
    BY <2>5, <2>9 DEF TaskCtx, NoCtx
  <2>11. status'[p] = "running"
    BY <1>1, <2>2 DEF ScxTypeOK
  <2>12. Account(status'[p], tctx'[p], due'[p], since'[p], metered'[p], now)
    BY <2>1, <2>6, <2>8, <2>9, <2>10, <2>11 DEF Account
  <2>13. \A q \in Tasks \ {p} : /\ status'[q] = status[q] /\ tctx'[q] = tctx[q]
                                /\ due'[q] = due[q] /\ metered'[q] = metered[q]
    BY <1>1, <2>1, <2>2 DEF TypeOK, ScxTypeOK
  <2> QED
    BY <2>1, <2>2, <2>12, <2>13, AccountStep
<1>14. ASSUME NEW cpu \in Cpus, FairResched(cpu) \/ SDispatch(cpu) PROVE Metering'
  <2>1. UNCHANGED <<now, status, fairVars>>
    BY <1>14 DEF FairResched, Resched, SDispatch, MoveToLocal, GoIdle
  <2> QED
    BY <2>1, AccountSame
<1>15. CASE FairTick
  <2>1. now' = (now + 1) % TimeMod /\ UNCHANGED <<status, tctx, metered>>
    BY <1>15 DEF FairTick, Tick
  <2>2. ASSUME NEW p \in Tasks
        PROVE  Account(status'[p], tctx'[p], due'[p], since'[p], metered'[p], now')
    <3>1. /\ due'[p] = IF status[p] \in {"stamped", "queued"} THEN (due[p] + 1) % TimeMod
                                                            ELSE due[p]
          /\ since'[p] = IF tctx[p] # NoCtx THEN (since[p] + 1) % TimeMod ELSE since[p]
      BY <1>15 DEF FairTick, Longer
    <3>2. CASE tctx[p] = NoCtx
      <4>1. status[p] \notin {"stamped", "queued"}
        BY <3>2 DEF HasCtx, TaskCtx, NoCtx
      <4> QED
        BY <1>2, <2>1, <3>1, <3>2, <4>1 DEF Account
    <3>3. CASE tctx[p] # NoCtx
      <4> DEFINE enq == tctx[p].enqueue_time
                 w == (now - enq) % TimeMod
      <4>1. enq \in 0 .. TimeMod - 1
        BY <3>3 DEF TypeOK, TaskCtx
      <4>2. (now' - enq) % TimeMod = (w + 1) % TimeMod
        BY <1>1, <2>1, <4>1, TickDifference
      <4>3. /\ tctx[p].vruntime = metered[p] /\ since[p] = w
            /\ due[p] = IF status[p] \in {"stamped", "queued"} THEN w ELSE 0
        BY <1>2, <3>3 DEF Account
      <4> HIDE DEF w
      <4>4. /\ since'[p] = (w + 1) % TimeMod
            /\ due'[p] = IF status[p] \in {"stamped", "queued"} THEN (w + 1) % TimeMod ELSE 0
        BY <3>1, <3>3, <4>3
      <4> QED
        BY <2>1, <3>3, <4>2, <4>3, <4>4 DEF Account
    <3> QED
      BY <3>2, <3>3
  <2> QED
    BY <2>2 DEF Metering
<1> QED
  BY <1>3, <1>4, <1>5, <1>6, <1>7, <1>9, <1>10, <1>11, <1>12, <1>13, <1>14, <1>15
  DEF Next, EnqueueStep, CpuStep

LEMMA InitMetering == Init => IInv
<1> SUFFICES ASSUME Init PROVE IInv
  OBVIOUS
<1>1. ScxTypeOK
  BY InitIInv DEF Init, ScxIInv
<1>2. 0 \in 0 .. TimeMod - 1
  BY ConstantFacts
<1>3. TypeOK
  BY <1>1, <1>2 DEF Init, TypeOK
<1>4. HasCtx /\ Metering
  BY DEF Init, ScxInit, HasCtx, Metering, Account
<1> QED
  BY <1>3, <1>4 DEF IInv

\* The inductive invariant of the charges holds in every reachable state.
THEOREM Invariance == Spec => []IInv
<1>1. ScxIInv /\ ScxIInv' /\ IInv /\ [Next]_vars => IInv'
  <2> SUFFICES ASSUME ScxIInv, ScxIInv', IInv, [Next]_vars PROVE IInv'
    OBVIOUS
  <2>1. CASE Next
    BY <2>1, NextTypeOK, NextHasCtx, NextMetering DEF IInv, ScxIInv
  <2>2. CASE UNCHANGED vars
    <3>1. TypeOK' /\ HasCtx'
      BY <2>2 DEF IInv, ScxIInv, TypeOK, HasCtx, vars, fairVars, history
    <3>2. Metering'
      BY <2>2, AccountSame DEF IInv, vars
    <3> QED
      BY <3>1, <3>2 DEF IInv
  <2> QED
    BY <2>1, <2>2
<1>2. Spec => []ScxIInv
  BY Framework, ScxInvariance, PTL
<1> QED
  BY <1>1, <1>2, InitMetering, PTL DEF Spec

\* Every context is within its ranges, whatever weights and times are charged.
THEOREM TypeCorrect == Spec => []TypeOK
BY Invariance, PTL DEF IInv

\* Through any number of enqueues, runs and preemptions and any clock width, a
\* task's vruntime is the weighted sum of its waits, each charged once and in
\* full, plus, for each preemption, all time since its last enqueue once more.
THEOREM WaitsAlwaysCharged == Spec => []ChargesTheWait
<1>1. IInv => ChargesTheWait
  BY DEF IInv, Metering, Account, ChargesTheWait
<1> QED
  BY <1>1, Invariance, PTL

-----------------------------------------------------------------------------
(* FR-2: the bound on the wait                                              *)

\* The quanta a waiting task has seen and those it may still see are together
\* at most one of each other task.
WaitBudget ==
    \A p \in Tasks :
        IF InShared(p)
        THEN quanta[p] + Cardinality(MayOvertake(p)) <= Cardinality(Tasks) - 1
        ELSE quanta[p] = 0

\* A step after which no more tasks may overtake than before.
LEMMA BudgetKept ==
    ASSUME ScxTypeOK, ScxTypeOK', WaitBudget,
           \A p \in Tasks : InShared(p)' => /\ InShared(p)
                                            /\ quanta'[p] = quanta[p]
                                            /\ MayOvertake(p)' \subseteq MayOvertake(p),
           \A p \in Tasks : ~InShared(p)' => quanta'[p] = 0
    PROVE  WaitBudget'
<1> SUFFICES ASSUME NEW p \in Tasks, InShared(p)'
             PROVE  quanta'[p] + Cardinality(MayOvertake(p)') <= Cardinality(Tasks) - 1
  BY DEF WaitBudget
<1>1. quanta[p] + Cardinality(MayOvertake(p)) <= Cardinality(Tasks) - 1
  BY DEF WaitBudget
<1>2. MayOvertake(p) \in SUBSET Tasks
  BY DEF MayOvertake
<1> DEFINE m == Cardinality(MayOvertake(p))
           m1 == Cardinality(MayOvertake(p)')
           n == Cardinality(Tasks)
<1>3. MayOvertake(p)' \in SUBSET MayOvertake(p)
  OBVIOUS
<1>4. m \in Nat /\ n \in Nat /\ m1 <= m
  BY <1>2, <1>3, Counting
<1>5. m1 \in Nat
  BY <1>2, <1>3, Counting
<1>6. quanta[p] \in Nat /\ quanta'[p] = quanta[p]
  BY ConstantFacts DEF ScxTypeOK
<1> HIDE DEF m, m1, n
<1>7. quanta'[p] + m1 <= n - 1
  BY <1>1, <1>4, <1>5, <1>6 DEF m, n
<1> QED
  BY <1>7 DEF m1, n


LEMMA BudgetInsert ==
    ASSUME ScxTypeOK, ScxTypeOK', OnePlace, OnePlace', WaitBudget,
           NEW r \in Tasks, InsertShared(r)
    PROVE  WaitBudget'
<1>1. /\ \A p \in Tasks : /\ InShared(p)' <=> InShared(p) \/ p = r
                          /\ quanta'[p] = quanta[p]
      /\ ~InShared(r)
      /\ \A p \in Tasks \ {r} : MayOvertake(p)' \subseteq MayOvertake(p)
      /\ MayOvertake(r)' \in SUBSET (Tasks \ {r})
  BY OvertakeInsert
<1>2. quanta'[r] = 0
  BY <1>1 DEF WaitBudget
<1>3. quanta'[r] + Cardinality(MayOvertake(r)') <= Cardinality(Tasks) - 1
  <2>1. Cardinality(Tasks \ {r}) = Cardinality(Tasks) - 1 /\ Tasks \ {r} \in SUBSET Tasks
    BY Counting
  <2>2. /\ Cardinality(MayOvertake(r)') <= Cardinality(Tasks \ {r})
        /\ Cardinality(MayOvertake(r)') \in Nat
        /\ Cardinality(Tasks) \in Nat
    BY <1>1, <2>1, Counting
  <2> QED
    BY <1>2, <2>1, <2>2
<1>4. ASSUME NEW p \in Tasks, p # r, InShared(p)'
      PROVE  quanta'[p] + Cardinality(MayOvertake(p)') <= Cardinality(Tasks) - 1
  <2> DEFINE m == Cardinality(MayOvertake(p))
             m1 == Cardinality(MayOvertake(p)')
             n == Cardinality(Tasks)
  <2>1. quanta[p] + m <= n - 1 /\ quanta'[p] = quanta[p]
    BY <1>1, <1>4 DEF WaitBudget
  <2>2. MayOvertake(p) \in SUBSET Tasks /\ MayOvertake(p)' \in SUBSET MayOvertake(p)
    BY <1>1, <1>4 DEF MayOvertake
  <2>3. m \in Nat /\ n \in Nat /\ m1 <= m /\ m1 \in Nat
    BY <2>2, Counting
  <2>4. quanta[p] \in Nat
    BY ConstantFacts DEF ScxTypeOK
  <2> HIDE DEF m, m1, n
  <2>5. quanta'[p] + m1 <= n - 1
    BY <2>1, <2>3, <2>4
  <2> QED
    BY <2>5 DEF m1, n
<1>5. ASSUME NEW p \in Tasks, ~InShared(p)' PROVE quanta'[p] = 0
  BY <1>1, <1>5 DEF WaitBudget
<1> QED
  BY <1>3, <1>4, <1>5 DEF WaitBudget

LEMMA BudgetRun ==
    ASSUME ScxTypeOK, OnePlace, WaitBudget,
           NEW cpu \in Cpus, NEW r \in Tasks, RunNext(cpu, r)
    PROVE  WaitBudget'
<1>1. ASSUME NEW p \in Tasks
      PROVE  /\ InShared(p)' <=> InShared(p)
             /\ MayOvertake(p)' \subseteq MayOvertake(p) \ {r}
             /\ \/ quanta'[p] = quanta[p]
                \/ /\ quanta'[p] = quanta[p] + 1
                   /\ InShared(p)
                   /\ r \in MayOvertake(p)
  BY OvertakeRun
<1>2. ASSUME NEW p \in Tasks, InShared(p)
      PROVE  quanta'[p] + Cardinality(MayOvertake(p)') <= Cardinality(Tasks) - 1
  <2> DEFINE M == MayOvertake(p)
             m == Cardinality(M)
             m1 == Cardinality(MayOvertake(p)')
             n == Cardinality(Tasks)
  <2>1. quanta[p] + m <= n - 1
    BY <1>2 DEF WaitBudget
  <2>2. quanta[p] \in Nat
    BY ConstantFacts DEF ScxTypeOK
  <2>3. M \in SUBSET Tasks
    BY DEF MayOvertake
  <2>4. MayOvertake(p)' \in SUBSET (M \ {r}) /\ MayOvertake(p)' \in SUBSET M
    BY <1>1
  <2>5. m \in Nat /\ n \in Nat /\ m1 \in Nat /\ m1 <= m
    BY <2>3, <2>4, Counting
  <2>6. CASE quanta'[p] = quanta[p] + 1 /\ r \in M
    <3>1. Cardinality(M \ {r}) = m - 1 /\ M \ {r} \in SUBSET Tasks
      BY <2>3, <2>6, Counting
    <3>2. m1 <= m - 1
      BY <2>4, <3>1, Counting
    <3> HIDE DEF m, m1, n
    <3>3. quanta'[p] + m1 <= n - 1
      BY <2>1, <2>2, <2>5, <2>6, <3>2
    <3> QED
      BY <3>3 DEF m1, n
  <2>7. CASE quanta'[p] = quanta[p]
    <3> HIDE DEF m, m1, n
    <3>1. quanta'[p] + m1 <= n - 1
      BY <2>1, <2>2, <2>5, <2>7
    <3> QED
      BY <3>1 DEF m1, n
  <2> QED
    BY <1>1, <2>6, <2>7
<1>3. ASSUME NEW p \in Tasks, ~InShared(p) PROVE quanta'[p] = 0
  BY <1>1, <1>3 DEF WaitBudget
<1> QED
  BY <1>1, <1>2, <1>3 DEF WaitBudget

LEMMA InitBudget == Init => WaitBudget
<1> SUFFICES ASSUME Init, NEW p \in Tasks PROVE ~InShared(p) /\ quanta[p] = 0
  BY DEF WaitBudget
<1> QED
  BY EmptyQueue DEF Init, ScxInit, InShared

LEMMA NextBudget ==
    ASSUME ScxIInv, ScxIInv', WaitBudget, [Next]_vars
    PROVE  WaitBudget'
<1> USE DEF ScxIInv
<1>1. ASSUME NEW p \in Tasks, SEnqueueInsert(p) PROVE WaitBudget'
  BY <1>1, BudgetInsert DEF SEnqueueInsert
<1>2. ASSUME NEW cpu \in Cpus, MoveToLocal(cpu) PROVE WaitBudget'
  <2>1. \A p \in Tasks :
           /\ InShared(p)' => /\ InShared(p)
                             /\ quanta'[p] = quanta[p]
                             /\ MayOvertake(p)' \subseteq MayOvertake(p)
           /\ ~InShared(p)' => quanta'[p] = IF InShared(p) THEN 0 ELSE quanta[p]
    BY <1>2, OvertakeMove
  <2>2. \A p \in Tasks : ~InShared(p)' => quanta'[p] = 0
    BY <2>1 DEF WaitBudget
  <2> QED
    BY <2>1, <2>2, BudgetKept
<1>3. ASSUME NEW cpu \in Cpus, FairRun(cpu) PROVE WaitBudget'
  BY <1>3, BudgetRun DEF FairRun
<1>4. ASSUME \A p \in Tasks : /\ InShared(p)' <=> InShared(p)
                              /\ quanta'[p] = quanta[p]
                              /\ MayOvertake(p)' \subseteq MayOvertake(p)
      PROVE  WaitBudget'
  <2>1. \A p \in Tasks : ~InShared(p)' => quanta'[p] = 0
    BY <1>4 DEF WaitBudget
  <2> QED
    BY <1>4, <2>1, BudgetKept
<1>5. ASSUME NEW p \in Tasks, NEW cpu \in Cpus, FairPreempt(cpu, p) PROVE WaitBudget'
  BY <1>4, <1>5, OvertakePreempt DEF FairPreempt
<1>6. ASSUME NEW p \in Tasks, NEW cpu \in Cpus,
             FairExpire(cpu, p) \/ FairSleep(cpu, p) \/ SExitTask(cpu, p)
      PROVE  WaitBudget'
  <2>1. slice' = [slice EXCEPT ![p] = 0] /\ UNCHANGED <<shared_dsq, local_dsq, quanta>>
    BY <1>6 DEF FairExpire, Expire, FairSleep, Sleep, SExitTask, Exit, Stop
  <2>2. \A q \in Tasks : slice'[q] = SLICE => slice[q] = SLICE
    BY <2>1, ConstantFacts DEF ScxTypeOK
  <2> QED
    BY <1>4, <2>1, <2>2, OvertakeSame
<1>7. ASSUME UNCHANGED <<shared_dsq, local_dsq, slice, quanta>> PROVE WaitBudget'
  BY <1>4, <1>7, OvertakeSame
<1>8. ASSUME NEW p \in Tasks, FairFork(p) \/ SEnqueueStamp(p) \/ SEnqueueNoCtx(p)
      PROVE  WaitBudget'
  BY <1>7, <1>8 DEF FairFork, Fork, SEnqueueStamp, BeginEnqueue, SEnqueueNoCtx, LeaveOut
<1>9. ASSUME NEW p \in Tasks, NEW cpu \in Cpus, SSelectCpu(p, cpu) PROVE WaitBudget'
  BY <1>7, <1>9 DEF SSelectCpu, SelectCpu
<1>10. ASSUME NEW cpu \in Cpus, FairResched(cpu) \/ GoIdle(cpu) PROVE WaitBudget'
  BY <1>7, <1>10 DEF FairResched, Resched, GoIdle
<1>11. CASE FairTick \/ UNCHANGED vars
  BY <1>7, <1>11 DEF FairTick, Tick, vars
<1> QED
  BY <1>1, <1>2, <1>3, <1>5, <1>6, <1>8, <1>9, <1>10, <1>11
  DEF Next, EnqueueStep, CpuStep, SDispatch

\* FR-2 of the fair scheduler, for any number of tasks and CPUs and any affinity:
\* a task in the shared queue sees at most one full quantum of each other task
\* begin, on the CPUs it may use, before it is dispatched.
THEOREM WaitAlwaysBounded == Spec => []BoundedWait
<1>1. ASSUME ScxIInv, WaitBudget PROVE BoundedWait
  <2> SUFFICES ASSUME NEW p \in Tasks, InShared(p)
               PROVE  quanta[p] <= Cardinality(Tasks) - 1
    BY DEF BoundedWait
  <2> DEFINE m == Cardinality(MayOvertake(p))
             n == Cardinality(Tasks)
  <2>1. quanta[p] + m <= n - 1 /\ MayOvertake(p) \in SUBSET Tasks
    BY <1>1 DEF WaitBudget, MayOvertake
  <2>2. m \in Nat /\ n \in Nat
    BY <2>1, Counting
  <2>3. quanta[p] \in Nat
    BY <1>1, ConstantFacts DEF ScxIInv, ScxTypeOK
  <2> HIDE DEF m, n
  <2>4. quanta[p] <= n - 1
    BY <2>1, <2>2, <2>3
  <2> QED
    BY <2>4 DEF n
<1>2. Spec => []ScxIInv
  BY Framework, ScxInvariance, PTL
<1> QED
  BY <1>1, <1>2, InitBudget, NextBudget, PTL DEF Spec
=============================================================================
