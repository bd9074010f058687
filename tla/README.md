# A verification project for the verified sched_ext agents

The repository holds a pipeline of language-model agents that turns requirements
into Dafny specifications and eBPF schedulers, and two products of that pipeline:
a round-robin and a "fair" scheduler for the Linux sched_ext framework, each with
a Dafny specification. This directory models the parts whose correctness depends
on the order in which things happen, checks the models with TLC and proves the
properties with TLAPS.

`PROJECT.json` is the machine-readable index: which definition stands for which
source lines, which run checks which property, which mutant of the code each
property catches, what the documentation promises and the code does not do.

## 1. Inventory

| Component | State it keeps | Operations | Talks to |
|---|---|---|---|
| Round-robin eBPF scheduler (`impl-rr/bpf/src/sched_ext_rr.bpf.c`) | `task_ctx` per task (time stamp, remaining slice), one shared dispatch queue, two counters | `rr_select_cpu`, `rr_enqueue`, `rr_dispatch`, `rr_running`, `rr_stopping`, `rr_init_task`, `rr_init`, `rr_exit` | called by the kernel, on every CPU at once |
| Fair eBPF scheduler (`impl/bpf/src/sched_ext_fair.bpf.c`) | `task_ctx` per task (vruntime, time stamp), created on first use; the framework's global queue | `s_select_cpu`, `s_enqueue`, `s_dispatch`, `s_running`, `s_exit_task` | kernel |
| Round-robin Dafny specification (`specs-rr/`) | `SchedState`: run queue per CPU, all tasks, clock, active CPUs | `Enqueue`, `Dispatch`, `ReEnqueue` (concrete), `Enqueue`, `Dispatch`, `Tick` (abstract) | concrete refines abstract; the C code is derived from it |
| Fair Dafny specification (`specs/`) | as above with vruntime and a floor per queue | `SortedInsert`, `Enqueue`, `Dispatch`; the contracts of the trait `SchedOps` | – |
| Orchestrator (`agents/orchestrator/`) | `PipelineState`: stage, iteration, history; `artifacts/pipeline_state.json` | `run`, `_run_stage`, `advance`, `save`, `load`, `FailureRouter.route` | runs the agents and tools, reads their results |
| Artifact store (`agents/common/artifact_store.py`) | files, manifest in memory and on disk | `store`, `load`, `list_by_kind`, `latest_of_kind`, `get_dependency_chain` | shared by all agents |
| Agents (`agents/{spec,verify,impl,test}/agent.py`) | the conversation of one stage | draft and correct, review, implement with a verify-and-fix loop, test and diagnose | language model, Dafny, the store, the disk past the store |
| Language-model client, tool runner (`agents/common/`) | token counts | `complete` (three attempts), `run_tool` (retry on time-out) | network, subprocesses |
| Language-server client (`tools/lsp-bridge/client.py`) | request number, the stream | open, update, collect diagnostics | `dafny server` |
| Trace exporter and runner, fuzzer, benchmark, certificate, tool wrappers | none, or one simulated scheduler | text in, text out | – |

What is hard, and what would make each part correct:

* **eBPF schedulers.** Callbacks run on all CPUs at once. The framework's lock is
  per run queue, so an enqueue on two CPUs interleaves; `select_cpu` runs without
  any lock, and the round-robin's may bypass `rr_enqueue`. Correct means: a runnable
  task is in exactly one place, only CPUs of its mask run it, nobody waits for ever
  or behind more quanta than the others are entitled to, no wake-up is lost, and
  the accounting neither underflows nor drifts.
* **Dafny specifications.** The methods are sequential, but any number of CPUs
  call them in any order. Their preconditions speak of the state, and `ValidState`
  is *assumed* after each method; the refinement lemmas take each method's effect
  as a hypothesis, or assume their conclusion. Correct means: the preconditions
  always hold, the queues stay ordered, nobody is overtaken who must not be, and
  the concrete scheduler really implements the abstract one.
* **Orchestrator.** Failures jump back to stages chosen by kind, the process may
  die anywhere, and what is on disk lags behind. Correct means: it finishes only
  on verdicts that nothing has put in question since, it ends, and a crash between
  two saves loses little.
* **Store and agents.** Two writes that are not atomic, writers that go round the
  store, a bounded loop that ends on an unverified fix, a review that lists files by
  kind and a check that globs for them. Correct means: the Dafny files a build is
  tested under are those that were verified, and a crash makes the manifest wrong
  about little.

## 2. Modules and how they correspond to the code

    TaskHandover                  how a task changes hands
      <- ScxFramework             the kernel around a scheduler  (refines it, unless a
           RRBpf, FairBpf         the callbacks, conjoined           task is left out)
    FairScheduler                 the fair Dafny specification
    RRTypes, RRAbstract <- RRScheduler   the round-robin Dafny specification
    ArtifactStore <- Agents       the store, and the agents that write through it
    Pipeline                      the orchestrator
    StageFlow <- Agents, Pipeline the order of the stages          (both refine it)

A module `X_proofs` holds the theorems about X, a module `MCX` the small instances
for TLC. Definitions whose comment begins with "Mutant of" are not part of any
specification: each is the definition that follows it with one plausible bug, and
shows that a property would notice that bug.

### TaskHandover – how a task changes hands

A task that wakes is handed to the scheduler, from there to one free CPU of its mask,
and back, or away to sleep or exit; the scheduler never drops one it holds. This is
the project's own summary of what the kernel expects of an eBPF scheduler, not the
Dafny trait `SchedOps`: that is a set of contracts for single calls, with a set of
records where this has a set of tasks, and it promises no exclusivity. In `ScxFramework`
the scheduler holds (`Ready`) the tasks between wake-up and run, wherever they are
queued, but not one that enqueue has left out (`limbo`). So the framework refines
`TaskHandover` only as long as no task is left out: always for `RRBpf`, whose
`rr_enqueue` inserts in every case, and for `FairBpf` if no allocation fails. What the
trait itself says of `enqueue` is compared with the code where it differs: `EndsOnAQueue`
for `s_enqueue`, `HeldAreNewest` for the Dafny `Enqueue`.

### ScxFramework – the kernel around the scheduler

All of it is external and follows `knowledge/ebpf/sched_ext_ops_reference.md`,
`impl/bridge/atomicity_boundaries.md`, the comments of the C files and the way the
code relies on it:

* A task is `none`, `asleep`, `selected` (between `select_cpu` and its insertion),
  `requeue` (stopped, enqueue pending under the same lock), `stamped` (inside
  enqueue), `queued`, `limbo` (enqueue returned without inserting it) or `running`.
* A callback holds the run-queue lock of one CPU. An enqueue is therefore two
  steps, `BeginEnqueue` and `InsertShared`; `RqFree(cpu)` says no unfinished enqueue
  holds that CPU's lock, and guards whatever else takes it: a wake-up's enqueue or
  direct insertion, a dispatch, and stopping the running task. `LockHeldByOne`, a part
  of the inductive invariant, says the guards suffice for mutual exclusion.
* `SelectCpu` claims any idle CPU of the mask, or returns any CPU of the mask when
  none is idle: the preference among them is left out.
* `MoveToLocal` takes the first task of the shared queue that may run on the CPU.
* `Expire`, `Preempt` (a higher class; the task goes to the head of the local queue
  with the rest of its slice, and is not enqueued), `Sleep`, `Exit`.
* Time is modulo `TimeMod`, as it is modulo 2^64 in the code. `Tick` lets a running
  task overrun its slice by at most `Overrun`, the granularity of the timer.
* `quanta` is a history variable: how many full quanta other tasks began, while a
  task waits in the shared queue, on CPUs it may use; it is not counted beyond
  `WaitCap`, which is above the bounds it is compared with.

`RRBpf` and `FairBpf` conjoin their callbacks to these actions and add the maps and
counters, so that what holds of the framework holds of both.

### RRBpf and FairBpf – the eBPF schedulers

Each callback is an operator or action with the callback's name.

* RRBpf: the insertion and its counter are one step. The kernel postpones the
  insertion until the callback returns, so no reader of the *queue* sees one without
  the other, and `CountersMatchQueue` is about the moments between callbacks. The
  same holds of `rr_dispatch`: `RrDispatch` is the call that moves a task and
  `RrDispatchNothing` the call that moves none. `direct` is the set of tasks
  `rr_select_cpu` asked to insert. Counters are modulo `CounterMod`. `rr_init_task`
  failing with `-ENOMEM` makes the fork fail and leaves no state.
* FairBpf: a context is created by the first `s_enqueue`, and with `AllocFails` that
  may fail: the early return leaves the task in no queue (`SEnqueueNoCtx`).
  `s_running` charges the time since `enqueue_time`, the *wait*. The charge is a u64
  product and a division by a weight that may be 0. There is no `stopping` callback, so
  a stop changes no context. Three history variables meter what `vruntime` ought to be
  if it is to be the time waited: `due` grows with time only while the task waits, until
  a preemption makes `s_running` charge the whole span since the enqueue (`since`) again;
  `metered` adds up the weighted `due` of each run. They read no stamp.

### RRTypes, RRAbstract, RRScheduler – the round-robin Dafny specification

`RRTypes` holds the datatypes and predicates of `types.dfy` and
`cpu_affinity.dfy`. `RRAbstract` is `abstract_scheduler.dfy`: one action per
predicate. `RRScheduler` is `concrete_scheduler.dfy`: one action per method, with
`Dispatch` split into its empty branch and its head branch.

Dafny methods do not call themselves, so `RRScheduler` adds the caller: `current`
remembers what each CPU was handed, a task that a CPU or a queue holds is not
enqueued again (`Held`), the running task is re-enqueued or blocks. The `requires`
clauses about the arguments are guards. The `requires` clauses about the *state*
(ordered queue, clock not behind the last stamp, all runnable) are not: whether
they always hold is the question `CallsAreLegal` asks.

A `map<nat, RunQueue>` is a function on `Cpus`; the set of queues never changes
because no method adds or removes one. Dafny's mathematical integers are TLA+
integers.

### FairScheduler – the fair Dafny specification

`concrete_scheduler.dfy` in the same style, with a caller that follows the order of
calls of `sched_ext_ops.dfy`:
it enqueues on a CPU `select_cpu` may return, dispatches for a CPU that runs nothing,
charges a run (any of `Charges`) before it enqueues the task again. `SortedInsert`
is a loop; `InsertionPoints` is the set of indices its invariant and its exit
condition allow, which the proofs show to be the ones that keep the order.
`Dispatch` computes an updated task and drops it, and so does the model: what it
hands out, and leaves in `all_tasks`, is the task as it was enqueued.

### ArtifactStore and Agents

`ArtifactStore` is the disk, the manifest in memory and the manifest file. `Store`
is `store()` undisturbed; a crash before, between or inside its two writes is
`CrashInStore` (a write truncates first: `Torn`). `Write` is the implementation
agent's `write_text` past the store. `Restart` is `__init__`, which cannot load a
torn manifest, and then no process comes up. A content stands for its hash.

`Agents` runs the specification, review and implementation agents over it, file by
file: an answer of the language model is any set of files, `dafny verify` and the
review say yes or no, and any call may raise (`_run_stage` turns that into a
failure). `_parse_file_blocks` of the implementation agent writes every file before
each is stored; a fix is only written. The stages after IMPL_VERIFY write no
modelled file and are one stage, LATER, that ends or fails back.

### StageFlow – the order of the stages

`Agents` and `Pipeline` each model half of the orchestrator: what the stages do to the
files, and how results move the stage. `StageFlow` is the graph both must follow: one
edge forward from each stage, edges back only to a stage that repairs the failure, the
stages after IMPL_VERIFY taken as one. `Pipeline` follows it through `FlowStage`. So
`Agents`, which has no budget and no state file, does not let a stage follow another
that the orchestrator's tables would not.

### Pipeline – the orchestrator

`StagePasses` and `StageFails(kind)` are one turn of `run`'s loop up to the end of
`advance` (`Advance` raises when the budget is used up, before the stage changes
and before anything is saved). `BeginSave` and `EndSave` are the truncation and
the write of `Path.write_text`. `Crash` may happen anywhere, `Start` and `Resume`
are the two ways to launch a process. `Reported` is the set of failures each agent
or tool returns; `Failures` adds `SPEC_INCONSISTENT`, to which `_run_stage` turns
an exception of any stage.

`history` is kept as what is read off it. Its length equals `iteration`, since both
grow in `advance` and both are saved. `passed` is the set of stages whose last
result is a success with no later run of an earlier stage. `fails` is the router's
`route_count`, up to the value at which it matters.

The process is modelled from a successful import on. As the source stands,
`PipelineState.FORWARD` is a dataclass field with a mutable default, and Python
refuses to define the class: `python3 -c "import agents.orchestrator.state_machine"`
raises ValueError. The models describe the program with that table as the class
attribute it is used as. (The BPF object is also looked for in
`impl/bpf/`, `main.py:149,165`, while the runbook and the makefile have it in
`impl/bpf/src/`; in the model that is a stage that always fails.)

## 3. Runs

Passing:

| Run | Instance | What it shows |
|---|---|---|
| `rr_bpf_slices` | 2 CPUs, 2 tasks (one pinned), quantum 2, overrun 1, time modulo 4; 332,472 states | one place per task, affinity, slice accounting with late ticks and preemption, every task handed over (`HandsOver`), and no starvation under fairness |
| `rr_bpf_queue` | 2 CPUs, 3 tasks (one pinned), quantum 1, time modulo 2, counters modulo 3; 3,680,616 states | the bound on the quanta a waiting task sees begin; a waiting task always has a CPU that is awake or told to reschedule; the shared queue is served in the order of insertion; the counters |
| `fair_bpf` | 2 CPUs, 2 tasks (one pinned), slice 2, time modulo 3, weights 0 and 3 with `NICE_0_WEIGHT` 1, allocations may fail; 146,397 states | the fair scheduler's sharper wait bound, what it charges, and no starvation of a task that reached the queue. The framework's invariants and the order of service, which the runs above check, hold here by the same proof (`Framework`) |
| `rr_spec` | 2 CPUs, 3 tasks (one pinned, one with the empty mask), two records `Enqueue` must refuse, clock up to 8; 211,902 states | FIFO order, no overtaking, legality of every call, no task in two places, registration, that every step is a step of `RRAbstract`, and that affinity is kept unless a caller of `Enqueue` names another CPU |
| `fair_spec` | 2 CPUs, 3 tasks, one with either of two vruntimes, charges 0 and 1, two records to refuse, clock up to 8; 970,437 states | sorted and stable queues, who may overtake, legality of every call, and that what is held is the newest record of its pid |
| `agents` | one specification and one refinement file, 2 contents, 2 fixes, versions up to 3, 2 kills inside writes; 1.5 million states | what the manifest still says truly; the Dafny files a build is tested under are those that were checked; no stage loops for ever; the order of the stages |
| `pipeline` | budget 12; 65,720 states | no stale verdict; what the state file lacks of the memory, and what a resumed process drops of the file; every step uses up the budget and every process ends, the order of the stages |

Bounds. `MaxClock` bounds the Dafny clocks only: eight operations are enough for
each of three tasks to wake, be dispatched and come back. Two CPUs are the least
with the races between CPUs and an idle CPU beside a busy one; three tasks the
least in which two compete while a third waits. Quantum 2 with overrun 1 gives the
three cases of `rr_stopping`: less than, exactly and more than the remainder used.
`TimeMod` must exceed quantum plus overrun, as 2^64 ns exceeds any slice; at its
smallest, differences wrap often. `CounterMod` 3 makes the counters wrap, and the
queue reach their modulus. Of the two weights, 0 takes `calc_delta_vruntime`'s guard
and 3 is so heavy that the division charges nothing. Two fixes stand for
`MAX_LSP_ITERATIONS` = 5: one to go round the loop, one to exhaust it. Two files are
the least of which a crash can leave one new and one old, and two kills the least
that can hit the same file or different ones. A budget of 12 lets the ten stages pass
with one failure on the way, and lets failures use it up. The proofs of section 5
hold without these bounds. No symmetry is used. The Dafny models stop at `MaxClock`
and the agents when they are done, so only their configurations switch deadlock
checking off.

`BoundedWait` is worth a remark. The natural bound, each other task begins at most
one quantum, holds of the fair scheduler and is false of the round-robin: while a task
waits with two idle CPUs in reach, a task that sleeps and wakes is handed one of them
directly by `rr_select_cpu`. Each CPU can be claimed so only once, because a CPU that
has left the idle loop does not return to it while the waiter is eligible there; hence
one quantum more for each CPU of the mask but one.

`InInsertionOrder` says what first in, first out means on CPUs that differ in the tasks
they may run, over steps: an insertion goes behind all who wait, nobody in the shared
queue moves back, and a task leaves it ahead of another only for a CPU the other may
not use. It concerns the order of *insertion*. The order of the stamps is another
matter (`rr_bpf_fifo`, below).

`ChargesTheWait` compares `vruntime`, which `s_running` computes from a stamp, with
`metered`, which is computed from the passage of time, through every run. It shows that
`vruntime` is a measure of waiting: a task that runs for long and waits little is charged
little, and after a preemption it is charged again all that has passed since the same
enqueue. The
repository's documents speak of CPU time (below).

`LosesOneStage` says what the state file lacks of a process that has saved or loaded it:
nothing while a stage runs, the one result between `advance` and `save`, and everything
inside `save`, which is why `pipeline_torn_save` fails. A resumed process agrees with the
file in everything but the stage, which `run` sets back.

`LaterIsVerified` is about the Dafny files only: no step verifies the C file that is
compiled, and nothing ties it to them. IMPL passes when `dafny verify` accepts the
files of the *first* answer and the listed specification files; a `.dfy` file that only
a fix created is not in that list, a fix bypasses the manifest, and an answer may
overwrite a reviewed specification file, whose kind then changes so that the next review
does not list it. The property holds nevertheless, because `_verify_implementation` looks at
the directories and not at the manifest: its mutant, which looks at the manifest,
fails. It does not notice that the review of an overwritten specification file is void.

Runs that find what the documentation promises and the code does not do:

| Run | Promise | What happens |
|---|---|---|
| `rr_bpf_fifo` | `sched_ext_rr.bpf.c:93` | stamp and insertion race on two CPUs (`TimeMod` 8, so the counterexample does not wrap) |
| `fair_bpf_order` | `sched_ext_fair.bpf.c:108` | the queue is first-in first-out; vruntime orders nothing (`TimeMod` 8 likewise) |
| `fair_bpf_left_out` | `sched_ext_fair.bpf.c:98`, `sched_ext_ops.dfy:29` | `s_enqueue` returns without a context, and the task is on no queue |
| `pipeline_torn_save` | `main.py:97` | a crash inside `save` leaves no loadable state |
| `pipeline_router` | `router.py:4-5` | the router is never consulted; repeated failures do not escalate |

Promises that a passing run shows to be broken, since what it checks is what holds
instead:

| Run, property | Promise | What holds |
|---|---|---|
| `rr_spec`, `AffinityKept` | requirements, lines 48 and 53: "never dispatched outside their CPU set" | only if the callers of `Enqueue` see to it: it compares nothing (`concrete_scheduler.dfy:28`) |
| `fair_bpf`, `ChargesTheWait` | `scheduler_internals.md:9`, `sched_ext_ops_reference.md:80`, `fair-scheduler.md:11`: CPU time | `vruntime` is the time waited |
| `fair_spec`, `HeldAreNewest` | `ensures t in s'.all_tasks` (`concrete_scheduler.dfy:53`, `sched_ext_ops.dfy:39`) | the re-stamped record is registered; the given one is not, unless it was before (`GivenRecordRegistered`) |
| `pipeline`, `LosesOneStage` | `main.py:9`: "resume from last saved state" | iteration and history are resumed, the stage is SPEC_DRAFTING (`main.py:77`) |

Divergences that need no run, because reading the lines shows them:

* `starvation_freedom.dfy:16-17` (round-robin) bounds every wait by position times
  quantum. The clock advances on calls for other CPUs and nothing obliges a CPU to
  dispatch. What is checked, and proved, instead is the order (`NeverOvertaken`).
* Ten stages run from SPEC_DRAFTING to REPORT and `advance` raises when `iteration`
  reaches `max_iterations`, 10 by default: a run in which every stage passes ends in
  a RuntimeError (`state_machine.py:105`, against `main.py:63`).
* The fair abstract `Dispatch` (`abstract_scheduler.dfy:46-59`) reads as a
  conjunction, but `==>` binds weaker than `&&`: its first conjuncts are the hypothesis
  and the update is the conclusion. When no task is runnable it allows any step, so a
  refinement of it shows nothing, and none is stated. Read as intended, it demands a
  task of a CPU whose own queue is empty.
* `min_vruntime` is "monotonically increasing" (`types.dfy:29`); an insertion below
  the floor makes the next `Dispatch` lower it. Nothing reads it.
* The specification agent reports all files verified (`spec/agent.py:148`); after a
  correction it has checked the corrected files only.
* `_save_manifest` overwrites the manifest in place; killed there, no process can
  start until someone removes the file.

## 4. Fairness

`RRBpf!FairSpec`, `FairBpf!FairSpec`: an enqueue that began ends, and each CPU goes on
with its scheduling loop. Both wait for run-queue locks that others take and release
over and over; the kernel's locks are queued spin locks, granted in order of arrival,
so a waiter is not overtaken for ever: strong fairness. Time passes (weak fairness of
`Tick`). Nothing obliges a task to wake, sleep or exit, or a higher class to
preempt. `Preempt` requires that the task has run, as a higher class that takes a
CPU for ever would starve every scheduler below it.

`Pipeline!FairSpec`: weak fairness of the process's own work. Every tool has a
time-out and the language model three attempts. One call has none, the removal of the
pinned BPF object after its verification (`main.py:169`): it is assumed to return. Nobody has to launch a process, and
a crash needs no fairness.

`Agents` and the Dafny models state safety only: that the stages end is `Pipeline`'s
question, and no Dafny method has to be called.

## 5. Proofs

All theorems hold for every value of the constants; the assumptions are the named
ASSUMEs of the modules (finite sets of tasks and CPUs, non-empty masks, a clock that
does not wrap within a slice, bounds naturals). Checked
by TLAPS with Z3, Zenon and LS4. Every safety property of every passing run is proved,
action properties and refinements included.

### The kernel and the eBPF schedulers

**ScxFramework_proofs.** `ScxInvariance`: `ScxIInv` is inductive. `OnePlace` ties
`status` to the queues and the CPUs; affinity needs `TargetAllowed`, since a local
queue or a requeue gets its CPU from `target`; `WaiterHasACpu` needs both, because the
CPU an insertion wakes is the target; `LockHeldByOne` says two unfinished enqueues run
under two locks. `ScxRefinement` maps the framework to `TaskHandover`, for callbacks
that never leave a task out (`NobodyLeftOut`), and
`ScxInOrder` shows `InInsertionOrder` step by step: only `InsertShared` and `Dispatch`
touch the shared queue. All three are about `ScxSpec`, the framework with callbacks
that keep whatever they like, so that for RRBpf and FairBpf only `Framework` is left to
show: each of their steps is one of its steps. The module also holds the facts the wait
bounds share: who can still overtake whom (`MayOvertake`), and what each step does to
that set.

**RRBpf_proofs.** `RemainingWithinSlice` is inductive only with `RunStamped`:
`rr_stopping` subtracts the time since `enqueue_time`, the framework the time since it
began to charge, and `rr_running` makes the two stamps one. `CountersMatchQueue` is an
equation of remainders; the provers do not reason about `%` with a symbolic modulus,
so `Balanced` names the quotients. `WaitAlwaysBounded` is a budget argument
(`WaitBudget`): the quanta seen so far, the rivals that may still begin one before the
waiter, and the open CPUs, each of which can make one more rival, stay together within
the bound, except that *all* CPUs of the mask can be open only before the first
quantum. `EveryTaskHasCtx`: the null checks after `lookup_task_ctx` never fire.

**FairBpf_proofs.** `ChargesTheWait` is inductive with `HasCtx` (an enqueued task has a
context) and `Account`, which ties the metered wait to the stamp in each status a task can
be in; time differences on the wrapping clock are case distinctions (`ElapsedCases`).
`Refinement` and `EnqueueEndsOnAQueue` assume that no allocation fails. `WaitAlwaysBounded` is the same budget without open CPUs.

### The Dafny specifications

**FairScheduler_proofs.** Sortedness alone is inductive, stability is not: a newcomer
stands behind its equals in *arrival* order only because every queued stamp lies before
the clock (`IInv`). From it follow `ValidState` after both methods, which the Dafny
source assumes, and `OvertakenOnlyByLess`. `HeldAreNewest` has its own induction on top:
a new record outdates all others of its pid, so `OnePlace` is needed, by which none of
them is held. `SortedInsertCorrect` is the lemma the Dafny source leaves as a TODO
(`concrete_scheduler.dfy:38`): of any sorted queue the loop has exactly one exit, and the
result is sorted and is the old queue with one task put in. Hence `EnqueueDetermined`:
the nondeterministic choice in the model's `SortedInsert` is none.

**RRScheduler_proofs.** FIFO order is not inductive: a tail append preserves it only
because no queued stamp is ahead of the clock. The inductive invariant `IInv`
(in `RRScheduler`) says of every queue that it is ordered, and that each of its
records is valid, runnable, registered in `all_tasks` and stamped *before* the
clock; and of every running slot the same without the stamp. Two lemmas carry the
proof, `QueueAppend` and `QueueTail`: what an append and a removal of the head do
to such a queue, whatever the queue. From it follow `TypeCorrect`, `FIFOAlways`,
`CallsAlwaysLegal`, `HeldAlwaysRegistered`, `NeverOvertakenAlways`, `AffinityAlwaysKept`
(and with it `AffinityUpToCaller`: one missing `requires` clause is all that affinity
lacks), and `Refinement`:
each method is a step of the abstract scheduler, including `ValidState` of the new
state, which the Dafny code assumes three times. `OnePlaceAlways` has its own induction
on top: `Held` keeps a task that is queued or running from being enqueued again.

### The pipeline

**Agents_proofs.** `IInv`: whenever a process runs, the saved manifest is the one in
memory (`MemoryIsSaved`: every save is of all of it), only two stages have files to
write (`WritersOnly`), and what IMPL_VERIFY has checked stands from its check on,
before its log is stored (`CheckStands`). `OneStalePerCrash` counts: a crash adds one
path to the stale ones and one to `crashes`, every other step only removes.
`StagesAlwaysEnd`: between two starts of a stage the pair of questions left for the
language model and files left to write decreases lexicographically, and both are natural
numbers, so no answer and no verdict keeps an agent in its loop. `Refinement`: the
agents follow `StageFlow`.

**Pipeline_proofs.** `NoStaleVerdictEver` rests on `RoutesBack`: no failure a stage
can produce, exceptions included, is routed to a later stage. Then the stages
before the current one always hold verdicts that stand. `LosesAtMostOneStage` needs
to know, for each point between `advance` and `save`, what the file has of the memory
(`InStep`), and
`TypeCorrect` that what is saved is within the budget (`Budget`).
`StepsAlwaysRunOut` is the part of termination that is a safety property: each step of
a process takes something off a finite stock (`StepsLeft`), and none is taken when it is
empty. `Refinement`: the tables `FORWARD` and `FAILURE_ROUTING` follow `StageFlow`.

### What the violated promises come down to

Four of the five runs that find a promise broken have a theorem beside them, which says
that nothing else breaks it. Each takes as a hypothesis, on the constants or on the whole
behaviour, that the one step in question does not happen; all other steps remain.

| Run | Theorem | The promise holds as long as |
|---|---|---|
| `rr_bpf_fifo` | `EarliestFirstOnOneCpu` | there is one CPU, and the u64 clock does not wrap: the race of two CPUs between stamp and insertion is the cause |
| `fair_bpf_left_out` | `EnqueueEndsOnAQueue` | no allocation of a context fails |
| `pipeline_torn_save` | `TornBySaveOnly` | no kill falls between the truncation and the write of the state file |
| `pipeline_router` | `RouterAgreesAtFirst` | neither of the stages the router escalates from has failed three times: until then the table sends a failure where the router would |

`fair_bpf_order` has none: the callbacks order nothing by vruntime, so no condition on
the schedule restores the promise. What the queue does instead is `InInsertionOrder`.

### What is only model-checked

The liveness properties: `NoStarvation` of both eBPF schedulers and `Terminates`, since
fairness and ENABLED are out of the prover's reach. What of them is safety is proved:
the wait bounds and `WaiterHasACpu` for the first (a waiter is overtaken a bounded number
of times, and a CPU that may run it is awake or told to reschedule),
`StepsAlwaysRunOut` for the second; fairness then only has to make *some* step happen.
That the measures of `StageEnds` and `StepsRunOut` cannot decrease for ever is the
well-foundedness of the naturals, which is used on paper, not in a proof. What recursive
Dafny functions compute (`QueuePosition`) is not modelled.

## 6. Not modelled, and why

* In the kernel around the schedulers: a change of affinity of a queued task, CPU
  hot-plug, tasks that run already when a scheduler is loaded, keeping the previous task
  on a CPU with nothing else to run, the watchdog, unloading. Nothing in the repository
  handles or relies on them, apart from the watchdog, which would unload the scheduler
  long after what the models show has gone wrong.
* In the store and the agents: exceptions inside `store` (a full disk, an illegal path)
  that leave the process alive; logs and reports other than by their effect on the
  manifest; the conversation. Answers with any files already include those a conversation
  would lead to.
* The fair specification's abstract predicates and its fairness and starvation
  predicates: section 3 says why the first constrain nothing, and the second speak of a
  vruntime the methods never advance.
* The test agent's programs, the language-model client and the tool runner: sequential,
  bounded retries without shared state; their outcomes are choices of the models.
* The language-server client: no other part of the system calls it. Its hazard is
  listed in `PROJECT.json`, without a property.
* Trace exporter and runner, fuzzer, benchmark, proof certificate, tool wrappers: text
  conversion and subprocess calls.
* `vmlinux.h` (generated, 200,000 of the repository's implementation lines: a share of
  lines covered means little here), prompts, set-up scripts, makefiles and CI.

What would come next: `LspClient`, if the agents come to use it; a caller for the fair
specification that advances vruntime as `fairness.dfy` expects, and its fairness bound;
composing `Pipeline` with `Agents`, which share only the order of their stages.
