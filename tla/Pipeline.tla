------------------------------ MODULE Pipeline ------------------------------
(***************************************************************************)
(* The orchestrator: agents/orchestrator/{main,state_machine,router}.py.   *)
(*                                                                         *)
(* A process runs the stages one after the other, routes a failure back to *)
(* an earlier stage and saves its state after each stage.  The process may *)
(* be killed anywhere and be started anew or with --resume.                *)
(*                                                                         *)
(* PipelineState.history is kept as what is read off it: its length (equal *)
(* to iteration), the verdicts that still stand and the failures of each   *)
(* stage.                                                                  *)
(***************************************************************************)
EXTENDS Integers

CONSTANT MaxIterations       \* --max-iterations

ASSUME MaxIterationsAssumption == MaxIterations \in Nat

VARIABLES
    proc,        \* the process: see Proc
    stage,       \* current_stage
    iteration,
    passed,      \* history: stages whose last result is a success which no
                 \* later run of an earlier stage has put in question
    fails,       \* history: failures of a stage, up to MAX_SAME_ROUTE_COUNT
    disk,        \* artifacts/pipeline_state.json
    own          \* what this process has on disk: nothing, the state it loaded or
                 \* the one it saved

memory == <<stage, iteration, passed, fails>>
vars == <<proc, memory, disk, own>>

\* "advanced": advance has returned; "saving": save has truncated the file.
Proc == {"down", "running", "advanced", "saving", "raised", "finished"}

\* The position of a stage in the pipeline.  INIT is left before any stage runs.
Position ==
    [SPEC_DRAFTING |-> 1, SPEC_REVIEW |-> 2, IMPL |-> 3, IMPL_VERIFY |-> 4,
     BPF_COMPILE |-> 5, BPF_VERIFY |-> 6, TEST_TRACE |-> 7, TEST_FUZZ |-> 8,
     TEST_PERF |-> 9, REPORT |-> 10, DONE |-> 11]

Stage == DOMAIN Position
Working == Stage \ {"DONE"}   \* the stages that run
Before(s) == {t \in Stage : Position[t] < Position[s]}

\* Mutant of FORWARD: what is generated is compiled without the refinement proof.
FORWARD_UNVERIFIED ==
    [SPEC_DRAFTING |-> "SPEC_REVIEW", SPEC_REVIEW |-> "IMPL", IMPL |-> "BPF_COMPILE",
     IMPL_VERIFY |-> "BPF_COMPILE", BPF_COMPILE |-> "BPF_VERIFY",
     BPF_VERIFY |-> "TEST_TRACE", TEST_TRACE |-> "TEST_FUZZ",
     TEST_FUZZ |-> "TEST_PERF", TEST_PERF |-> "REPORT", REPORT |-> "DONE"]

FORWARD ==
    [SPEC_DRAFTING |-> "SPEC_REVIEW", SPEC_REVIEW |-> "IMPL", IMPL |-> "IMPL_VERIFY",
     IMPL_VERIFY |-> "BPF_COMPILE", BPF_COMPILE |-> "BPF_VERIFY",
     BPF_VERIFY |-> "TEST_TRACE", TEST_TRACE |-> "TEST_FUZZ",
     TEST_FUZZ |-> "TEST_PERF", TEST_PERF |-> "REPORT", REPORT |-> "DONE"]

\* Mutant of FAILURE_ROUTING: an incomplete specification is left to the
\* implementation agent.
MISROUTING ==
    [SPEC_INCONSISTENT |-> "SPEC_DRAFTING", SPEC_INCOMPLETE |-> "IMPL",
     IMPL_UNVERIFIED |-> "IMPL", INVARIANT_TOO_WEAK |-> "IMPL", BPF_COMPILE_ERROR |-> "IMPL",
     BPF_VERIFIER_REJECT |-> "IMPL", TRACE_MISMATCH |-> "IMPL",
     FUZZ_CRASH |-> "SPEC_REVIEW", PERF_REGRESSION |-> "IMPL",
     TRANSLATION_BUG |-> "IMPL"]

FAILURE_ROUTING ==
    [SPEC_INCONSISTENT |-> "SPEC_DRAFTING", SPEC_INCOMPLETE |-> "SPEC_DRAFTING",
     IMPL_UNVERIFIED |-> "IMPL", INVARIANT_TOO_WEAK |-> "IMPL", BPF_COMPILE_ERROR |-> "IMPL",
     BPF_VERIFIER_REJECT |-> "IMPL", TRACE_MISMATCH |-> "IMPL",
     FUZZ_CRASH |-> "SPEC_REVIEW", PERF_REGRESSION |-> "IMPL",
     TRANSLATION_BUG |-> "IMPL"]

FailureKind == DOMAIN FAILURE_ROUTING

\* The failures the agent or the tool of a stage reports; none reports
\* INVARIANT_TOO_WEAK.
SpecFailures == {"SPEC_INCONSISTENT"}
ReviewFailures == {"SPEC_INCOMPLETE", "SPEC_INCONSISTENT"}
ImplFailures == {"SPEC_INCOMPLETE", "IMPL_UNVERIFIED"}
ImplVerifyFailures == {"IMPL_UNVERIFIED"}
BpfCompileFailures == {"BPF_COMPILE_ERROR"}
BpfVerifyFailures == {"BPF_VERIFIER_REJECT"}
FuzzFailures == {"FUZZ_CRASH"}
PerfFailures == {"PERF_REGRESSION"}

\* What the language model may diagnose, and what any other answer counts as.
TraceDiagnoses ==
    {"SPEC_INCOMPLETE", "IMPL_UNVERIFIED", "TRANSLATION_BUG", "BPF_VERIFIER_REJECT",
     "TRACE_MISMATCH"}
TraceFailures == {"TRACE_MISMATCH"} \cup TraceDiagnoses

Reported ==
    [SPEC_DRAFTING |-> SpecFailures, SPEC_REVIEW |-> ReviewFailures,
     IMPL |-> ImplFailures, IMPL_VERIFY |-> ImplVerifyFailures,
     BPF_COMPILE |-> BpfCompileFailures, BPF_VERIFY |-> BpfVerifyFailures,
     TEST_TRACE |-> TraceFailures, TEST_FUZZ |-> FuzzFailures,
     TEST_PERF |-> PerfFailures, REPORT |-> {}]

\* _run_stage turns an exception of any stage into SPEC_INCONSISTENT.
Failures(s) == Reported[s] \cup {"SPEC_INCONSISTENT"}

MAX_SAME_ROUTE_COUNT == 3

\* FailureRouter._escalate
Escalation(s) ==
    CASE s = "IMPL" -> "SPEC_REVIEW"
      [] s = "SPEC_REVIEW" -> "SPEC_DRAFTING"
      [] s = "SPEC_DRAFTING" -> "SPEC_DRAFTING"

\* FailureRouter.route
Route(kind) ==
    LET default == FAILURE_ROUTING[kind] IN
    IF fails[default] >= MAX_SAME_ROUTE_COUNT THEN Escalation(default) ELSE default

NoFile == [file |-> "none"]
Torn == [file |-> "torn"]
Saved(s, n, p, f) == [file |-> "saved", stage |-> s, iteration |-> n, passed |-> p, fails |-> f]

NoFailures == [s \in Working |-> 0]

TypeOK ==
    /\ proc \in Proc
    /\ stage \in Stage
    /\ iteration \in Nat
    /\ passed \in SUBSET Working
    /\ fails \in [Working -> 0 .. MAX_SAME_ROUTE_COUNT]
    /\ disk \in {NoFile, Torn} \cup
               [file: {"saved"}, stage: Stage, iteration: 1 .. MaxIterations - 1,
                passed: SUBSET Working, fails: [Working -> 0 .. MAX_SAME_ROUTE_COUNT]]
    /\ own \in {"none", "loaded", "saved"}

-----------------------------------------------------------------------------

Idle == proc \in {"down", "raised", "finished"}

\* A new PipelineState; run() goes to the first stage.
Start ==
    /\ Idle
    /\ proc' = "running"
    /\ stage' = "SPEC_DRAFTING"
    /\ iteration' = 0
    /\ passed' = {}
    /\ fails' = NoFailures
    /\ own' = "none"
    /\ UNCHANGED disk

\* Mutant of Resume: load() does not restore the iteration.
ResumeAnew ==
    /\ Idle
    /\ disk.file = "saved"
    /\ proc' = "running"
    /\ stage' = "SPEC_DRAFTING"
    /\ iteration' = 0
    /\ passed' = disk.passed
    /\ fails' = disk.fails
    /\ own' = "loaded"
    /\ UNCHANGED disk

\* --resume: load() needs a whole file, and run() goes to the first stage.
Resume ==
    /\ Idle
    /\ disk.file = "saved"
    /\ proc' = "running"
    /\ stage' = "SPEC_DRAFTING"
    /\ iteration' = disk.iteration
    /\ passed' = disk.passed
    /\ fails' = disk.fails
    /\ own' = "loaded"
    /\ UNCHANGED disk

\* Mutant of Advance: the budget is exceeded by one (> for >=).
AdvanceOneMore(next) ==
    /\ iteration' = iteration + 1
    /\ IF iteration + 1 > MaxIterations
       THEN proc' = "raised" /\ UNCHANGED stage
       ELSE proc' = "advanced" /\ stage' = next
    /\ UNCHANGED <<disk, own>>

\* Mutant of Advance: only a pass counts against the budget.
AdvanceUncounted(next) ==
    /\ iteration' = IF stage \in passed' THEN iteration + 1 ELSE iteration
    /\ IF iteration + 1 >= MaxIterations
       THEN proc' = "raised" /\ UNCHANGED stage
       ELSE proc' = "advanced" /\ stage' = next
    /\ UNCHANGED <<disk, own>>

\* advance() up to the choice of the next stage: it raises when the budget is
\* used up, before current_stage changes and before anything is saved.
Advance(next) ==
    /\ iteration' = iteration + 1
    /\ IF iteration + 1 >= MaxIterations
       THEN proc' = "raised" /\ UNCHANGED stage
       ELSE proc' = "advanced" /\ stage' = next
    /\ UNCHANGED <<disk, own>>

\* A run of s puts the verdicts of the later stages in question.
Standing(s) == passed \cap Before(s)

StagePasses ==
    /\ proc = "running"
    /\ stage \in Working
    /\ passed' = Standing(stage) \cup {stage}
    /\ UNCHANGED fails
    /\ Advance(FORWARD[stage])

StageFails(kind) ==
    /\ proc = "running"
    /\ stage \in Working
    /\ kind \in Failures(stage)
    /\ passed' = Standing(stage)
    /\ fails' = [fails EXCEPT ![stage] = IF @ < MAX_SAME_ROUTE_COUNT THEN @ + 1 ELSE @]
    /\ Advance(FAILURE_ROUTING[kind])

\* save(): write_text truncates the file, then writes it.
BeginSave ==
    /\ proc = "advanced"
    /\ proc' = "saving"
    /\ disk' = Torn
    /\ UNCHANGED <<memory, own>>

EndSave ==
    /\ proc = "saving"
    /\ proc' = "running"
    /\ disk' = Saved(stage, iteration, passed, fails)
    /\ own' = "saved"
    /\ UNCHANGED memory

Finish ==
    /\ proc = "running"
    /\ stage = "DONE"
    /\ proc' = "finished"
    /\ UNCHANGED <<memory, disk, own>>

\* The process is killed: its memory is gone.
Crash ==
    /\ proc \in {"running", "advanced", "saving"}
    /\ proc' = "down"
    /\ stage' = "SPEC_DRAFTING"
    /\ iteration' = 0
    /\ passed' = {}
    /\ fails' = NoFailures
    /\ own' = "none"
    /\ UNCHANGED disk

Init ==
    /\ proc = "down"
    /\ stage = "SPEC_DRAFTING"
    /\ iteration = 0
    /\ passed = {}
    /\ fails = NoFailures
    /\ disk = NoFile
    /\ own = "none"

Work == StagePasses \/ (\E kind \in FailureKind : StageFails(kind)) \/ BeginSave \/ EndSave \/ Finish

Next == Start \/ Resume \/ Work \/ Crash

Spec == Init /\ [][Next]_vars

\* A stage returns: the tools it runs have time-outs and the calls of the
\* language model a bounded number of attempts.  Nobody has to start a process.
FairSpec == Spec /\ WF_vars(Work)

-----------------------------------------------------------------------------

\* "Returns True if all stages pass": a stage is only run, and the pipeline only
\* finishes, on verdicts that stand.  No failure is routed past a stage that has
\* not passed since the last change before it.
NoStaleVerdict ==
    /\ proc \in {"running", "advanced", "saving"} => Before(stage) \subseteq passed
    /\ proc = "finished" => passed = Working

\* The stage a process goes on with: its own last save names it, a loaded one does
\* not, since run() sets current_stage back.
GoesOnWith == IF own = "loaded" THEN "SPEC_DRAFTING" ELSE disk.stage

\* The verdicts of the saved state which a run of that stage leaves standing.
Kept == disk.passed \cap Before(GoesOnWith)

UpToDate ==
    /\ disk.file = "saved"
    /\ iteration = disk.iteration /\ stage = GoesOnWith
    /\ passed = disk.passed /\ fails = disk.fails

OneStageAhead ==
    /\ disk.file = "saved"
    /\ iteration = disk.iteration + 1
    /\ \/ passed = Kept \cup {GoesOnWith} /\ fails = disk.fails
       \/ passed = Kept /\ \A s \in Working \ {GoesOnWith} : fails[s] = disk.fails[s]

\* What the state file lacks of a process that has saved or loaded it: nothing
\* while a stage runs, the result of the one stage just run until the next save,
\* and everything while that save writes, which truncates the only copy.  Of what
\* the file has, a resumed process discards the stage, and only that.
LosesOneStage ==
    own # "none" =>
        \/ UpToDate
        \/ proc \in {"advanced", "raised"} /\ OneStageAhead
        \/ proc = "saving" /\ disk = Torn

\* What a running process may still do: four steps for every iteration left.
Phase == [running |-> 1, saving |-> 2, advanced |-> 3, down |-> 0, raised |-> 0, finished |-> 0]
StepsLeft == 4 * (MaxIterations - iteration) + Phase[proc]

\* However failures are routed, no chain of them runs past the iteration budget:
\* every step a process takes uses up some of a finite stock, which it is never
\* without before it is done.
StepsRunOut == [][Work => 0 < StepsLeft /\ StepsLeft' < StepsLeft]_vars

\* Whatever fails and however failures are routed, a process comes to an end.
Terminates == proc = "running" ~> Idle

\* "Persist state after every stage (crash recovery)": a crash never leaves a
\* file that load() cannot read.
CrashRecovery == proc = "down" => disk # Torn

\* router.py: "it consults this router to determine where to send the failure".
RoutedByRouter ==
    [][\A kind \in FailureKind : StageFails(kind) /\ proc' = "advanced" => stage' = Route(kind)]_vars

\* The stage of a process that runs, the ones after IMPL_VERIFY taken as one.
FlowStage ==
    CASE proc \in {"down", "raised"} -> "INIT"
      [] proc \notin {"down", "raised"} /\ stage \in Before("BPF_COMPILE") -> stage
      [] proc \notin {"down", "raised"} /\ stage = "DONE" -> "DONE"
      [] OTHER -> "LATER"

\* The orchestrator, as advance and FAILURE_ROUTING make it, follows the order of
\* stages that its agents are modelled with: the failures a stage can report, and
\* no others, lead back, and only to a stage that repairs them.
Flow == INSTANCE StageFlow WITH at <- FlowStage
FollowsStages == Flow!Spec
=============================================================================
