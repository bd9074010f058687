-------------------------- MODULE Pipeline_proofs --------------------------
(***************************************************************************)
(* Proofs about the orchestrator, for every iteration budget.  A failure   *)
(* never moves the pipeline forward (RoutesBack), so the stages before the *)
(* current one keep verdicts that stand; and what is saved lags behind the *)
(* memory by no more than the stage being run (InStep).                    *)
(***************************************************************************)
EXTENDS Pipeline, TLAPS

\* Where the process stands between memory and disk, step by step.
InStep ==
    own # "none" =>
        /\ proc # "down"
        /\ proc \in {"running", "finished"} => UpToDate
        /\ proc \in {"advanced", "raised"} => OneStageAhead
        /\ proc = "saving" => disk = Torn

\* The stages before the current one have verdicts that stand.
Standings == proc \in {"running", "advanced", "saving"} => Before(stage) \subseteq passed

Complete == proc = "finished" => passed = Working /\ stage = "DONE"

\* A result that is to be saved is within the budget, and so is a stage that runs.
Budget ==
    /\ proc \in {"advanced", "saving"} => iteration \in 1 .. MaxIterations - 1
    /\ proc = "running" => iteration <= MaxIterations

IInv == TypeOK /\ Standings /\ Complete /\ InStep /\ Budget

-----------------------------------------------------------------------------

\* FORWARD moves to the stage just after: it is preceded by the one left and by
\* those before it.
LEMMA ForwardIsNext ==
    \A s \in Working : FORWARD[s] \in Stage /\ Before(FORWARD[s]) = Before(s) \cup {s}
  BY DEF Working, Stage, FORWARD, Before, Position

\* No failure a stage can produce is routed to a later stage.
LEMMA RoutesBack ==
    ASSUME NEW s \in Working, NEW kind \in Failures(s)
    PROVE  /\ FAILURE_ROUTING[kind] \in Stage
           /\ Before(FAILURE_ROUTING[kind]) \subseteq Before(s)
  <1>1. /\ FAILURE_ROUTING[kind] \in Stage
        /\ Position[FAILURE_ROUTING[kind]] <= Position[s]
    BY DEF Failures, Reported, SpecFailures, ReviewFailures, ImplFailures,
           ImplVerifyFailures, BpfCompileFailures, BpfVerifyFailures, TraceFailures,
           TraceDiagnoses, FuzzFailures, PerfFailures, FAILURE_ROUTING, Working,
           Stage, Position
  <1>2. \A t \in Stage : Position[t] \in Nat
    BY DEF Stage, Position
  <1> QED
    BY <1>1, <1>2 DEF Before, Working

\* Nothing comes before the first stage, and every stage that runs before DONE.
LEMMA Ends ==
    /\ "SPEC_DRAFTING" \in Stage /\ Before("SPEC_DRAFTING") = {}
    /\ Before("DONE") = Working
  BY DEF Before, Stage, Working, Position

\* Routes are counted up to the cap, whatever stage fails.
LEMMA CountsStayCapped ==
    ASSUME fails \in [Working -> 0 .. MAX_SAME_ROUTE_COUNT], NEW s \in Working
    PROVE  [fails EXCEPT ![s] = IF @ < MAX_SAME_ROUTE_COUNT THEN @ + 1 ELSE @]
                \in [Working -> 0 .. MAX_SAME_ROUTE_COUNT]
  BY DEF MAX_SAME_ROUTE_COUNT

\* A new process has counted no failure.
LEMMA NoFailuresTyped == NoFailures \in [Working -> 0 .. MAX_SAME_ROUTE_COUNT]
  BY DEF NoFailures, MAX_SAME_ROUTE_COUNT

\* The invariant holds before any process is started.
LEMMA InitIInv == Init => IInv
  <1> SUFFICES ASSUME Init PROVE IInv
    OBVIOUS
  <1>1. TypeOK
    BY Ends, NoFailuresTyped DEF Init, TypeOK, Proc
  <1>2. Standings /\ Complete /\ InStep /\ Budget
    BY DEF Init, Standings, Complete, InStep, Budget
  <1> QED
    BY <1>1, <1>2 DEF IInv

-----------------------------------------------------------------------------

\* A process that starts, with or without --resume, keeps the invariant.
LEMMA LaunchKeepsIInv ==
    ASSUME IInv, Start \/ Resume
    PROVE  IInv'
  <1>1. CASE Start
    <2>1. TypeOK'
      BY <1>1, Ends, NoFailuresTyped DEF Start, IInv, TypeOK, Proc
    <2>2. Standings' /\ Complete' /\ InStep' /\ Budget'
      BY <1>1, Ends, MaxIterationsAssumption DEF Start, Standings, Complete, InStep, Budget
    <2> QED
      BY <2>1, <2>2 DEF IInv
  <1>2. CASE Resume
    <2>1. /\ disk.iteration \in Nat
          /\ disk.iteration <= MaxIterations
          /\ disk.passed \in SUBSET Working
          /\ disk.fails \in [Working -> 0 .. MAX_SAME_ROUTE_COUNT]
      BY <1>2, MaxIterationsAssumption DEF Resume, IInv, TypeOK, NoFile, Torn
    <2>2. InStep'
      BY <1>2 DEF Resume, InStep, UpToDate, GoesOnWith
    <2>3. TypeOK'
      BY <1>2, <2>1, Ends DEF Resume, IInv, TypeOK, Proc
    <2> QED
      BY <1>2, <2>1, <2>2, <2>3, Ends DEF Resume, IInv, Standings, Complete, Budget
  <1> QED
    BY <1>1, <1>2

\* What advance does to the process, the stage and the count keeps them typed.
LEMMA AdvanceFacts ==
    ASSUME IInv, proc = "running", NEW next \in Stage, Advance(next)
    PROVE  /\ proc' \in {"advanced", "raised"}
           /\ proc' = "advanced" => stage' = next
           /\ stage' \in Stage
           /\ iteration' \in Nat
           /\ Budget'
  <1>1. proc' \in {"advanced", "raised"} /\ iteration' = iteration + 1
    BY DEF Advance
  <1>2. Budget'
    BY MaxIterationsAssumption DEF Advance, IInv, TypeOK, Budget
  <1> QED
    BY <1>1, <1>2 DEF Advance, IInv, TypeOK

\* A stage that returns puts the memory one stage ahead of the file, if it was
\* the file's before.
LEMMA ResultIsOneAhead ==
    ASSUME IInv, proc = "running", NEW next, Advance(next), stage \in Working,
           \/ passed' = Standing(stage) \cup {stage} /\ fails' = fails
           \/ /\ passed' = Standing(stage)
              /\ \A s \in Working \ {stage} : fails'[s] = fails[s]
    PROVE  InStep'
  <1> SUFFICES ASSUME own # "none" PROVE OneStageAhead' /\ proc' \in {"advanced", "raised"}
    BY DEF InStep, Advance
  <1>1. UpToDate
    BY DEF IInv, InStep
  <1>2. /\ disk' = disk /\ own' = own /\ iteration' = iteration + 1
        /\ proc' \in {"advanced", "raised"}
    BY DEF Advance
  <1>3. GoesOnWith' = stage /\ Kept' = Standing(stage)
    BY <1>1, <1>2 DEF UpToDate, GoesOnWith, Kept, Standing
  <1> QED
    BY <1>1, <1>2, <1>3 DEF OneStageAhead, UpToDate

\* A stage that passes hands over to the next one, whose predecessors have all
\* passed.
LEMMA PassKeepsIInv ==
    ASSUME IInv, StagePasses
    PROVE  IInv'
  <1>1. stage \in Working /\ FORWARD[stage] \in Stage
    BY ForwardIsNext DEF StagePasses
  <1>2. Before(stage) \subseteq passed
    BY DEF StagePasses, IInv, Standings
  <1>3. passed' = (passed \cap Before(stage)) \cup {stage}
    BY DEF StagePasses, Standing
  <1>4. Before(FORWARD[stage]) \subseteq passed'
    BY <1>1, <1>2, <1>3, ForwardIsNext
  <1>5. /\ proc' \in {"advanced", "raised"}
        /\ proc' = "advanced" => stage' = FORWARD[stage]
        /\ stage' \in Stage
        /\ iteration' \in Nat
        /\ Budget'
    BY <1>1, AdvanceFacts DEF StagePasses
  <1>6. TypeOK'
    BY <1>1, <1>3, <1>5 DEF StagePasses, Advance, IInv, TypeOK, Proc
  <1>7. InStep'
    BY <1>1, ResultIsOneAhead DEF StagePasses
  <1> QED
    BY <1>4, <1>5, <1>6, <1>7 DEF IInv, Standings, Complete

\* A stage that fails sends the pipeline back to a stage whose predecessors have
\* all passed.
LEMMA FailKeepsIInv ==
    ASSUME IInv, NEW kind, StageFails(kind)
    PROVE  IInv'
  <1>1. /\ stage \in Working
        /\ FAILURE_ROUTING[kind] \in Stage
        /\ Before(FAILURE_ROUTING[kind]) \subseteq Before(stage)
    BY RoutesBack DEF StageFails
  <1>2. Before(stage) \subseteq passed
    BY DEF StageFails, IInv, Standings
  <1>3. passed' = passed \cap Before(stage)
    BY DEF StageFails, Standing
  <1>4. Before(FAILURE_ROUTING[kind]) \subseteq passed'
    BY <1>1, <1>2, <1>3
  <1>5. /\ proc' \in {"advanced", "raised"}
        /\ proc' = "advanced" => stage' = FAILURE_ROUTING[kind]
        /\ stage' \in Stage
        /\ iteration' \in Nat
        /\ Budget'
    BY <1>1, AdvanceFacts DEF StageFails
  <1>6. fails' \in [Working -> 0 .. MAX_SAME_ROUTE_COUNT]
    BY <1>1, CountsStayCapped DEF StageFails, IInv, TypeOK
  <1>7. TypeOK'
    BY <1>1, <1>3, <1>5, <1>6 DEF StageFails, Advance, IInv, TypeOK, Proc
  <1>8. \A s \in Working \ {stage} : fails'[s] = fails[s]
    BY DEF StageFails, IInv, TypeOK
  <1>9. InStep'
    BY <1>1, <1>8, ResultIsOneAhead DEF StageFails
  <1> QED
    BY <1>4, <1>5, <1>7, <1>9 DEF IInv, Standings, Complete

\* The file that EndSave leaves is the memory's.
LEMMA EndSaveKeepsIInv ==
    ASSUME IInv, EndSave
    PROVE  IInv'
  <1>1. /\ proc = "saving" /\ proc' = "running" /\ own' = "saved"
        /\ disk' = Saved(stage, iteration, passed, fails)
        /\ stage' = stage /\ iteration' = iteration
        /\ passed' = passed /\ fails' = fails
    BY DEF EndSave, memory
  <1>2. iteration \in 1 .. MaxIterations - 1
    BY <1>1 DEF IInv, Budget
  <1>3. disk' \in [file: {"saved"}, stage: Stage, iteration: 1 .. MaxIterations - 1,
                   passed: SUBSET Working, fails: [Working -> 0 .. MAX_SAME_ROUTE_COUNT]]
    BY <1>1, <1>2 DEF Saved, IInv, TypeOK
  <1>4. TypeOK'
    BY <1>1, <1>3 DEF IInv, TypeOK, Proc
  <1>5. Standings' /\ Complete' /\ Budget'
    BY <1>1, <1>2, MaxIterationsAssumption DEF IInv, Standings, Complete, Budget
  <1>6. InStep'
    BY <1>1 DEF InStep, UpToDate, GoesOnWith, Saved
  <1> QED
    BY <1>4, <1>5, <1>6 DEF IInv

\* Every step of the orchestrator keeps the invariant.
LEMMA NextIInv == IInv /\ [Next]_vars => IInv'
  <1> SUFFICES ASSUME IInv, [Next]_vars PROVE IInv'
    OBVIOUS
  <1>1. CASE Start \/ Resume
    BY <1>1, LaunchKeepsIInv
  <1>2. CASE StagePasses
    BY <1>2, PassKeepsIInv
  <1>3. CASE \E kind \in FailureKind : StageFails(kind)
    BY <1>3, FailKeepsIInv
  <1>4. CASE BeginSave
    <2>1. TypeOK' /\ Standings' /\ Complete' /\ Budget'
      BY <1>4 DEF BeginSave, memory, IInv, TypeOK, Standings, Complete, Budget, Proc
    <2>2. InStep'
      BY <1>4 DEF BeginSave, memory, InStep
    <2> QED
      BY <2>1, <2>2 DEF IInv
  <1>5. CASE EndSave
    BY <1>5, EndSaveKeepsIInv
  <1>6. CASE Finish
    <2>1. TypeOK' /\ Standings' /\ Complete' /\ Budget'
      BY <1>6, Ends DEF Finish, memory, IInv, TypeOK, Standings, Complete, Budget, Proc
    <2>2. InStep'
      BY <1>6 DEF Finish, memory, IInv, InStep, UpToDate, GoesOnWith
    <2> QED
      BY <2>1, <2>2 DEF IInv
  <1>7. CASE Crash
    <2>1. TypeOK'
      BY <1>7, Ends, NoFailuresTyped DEF Crash, IInv, TypeOK, Proc
    <2> QED
      BY <1>7, <2>1 DEF Crash, IInv, Standings, Complete, InStep, Budget
  <1>8. CASE UNCHANGED vars
    BY <1>8 DEF vars, memory, IInv, TypeOK, Standings, Complete, InStep, Budget,
                UpToDate, OneStageAhead, GoesOnWith, Kept
  <1> QED
    BY <1>1, <1>2, <1>3, <1>4, <1>5, <1>6, <1>7, <1>8 DEF Next, Work

-----------------------------------------------------------------------------

\* The inductive invariant holds in every reachable state of the orchestrator.
THEOREM Invariance == Spec => []IInv
  BY InitIInv, NextIInv, PTL DEF Spec

\* Type correctness, and with it that nothing beyond the budget is ever saved.
THEOREM TypeCorrect == Spec => []TypeOK
  <1>1. IInv => TypeOK
    BY DEF IInv
  <1> QED
    BY <1>1, Invariance, PTL

\* run() returns True only if all stages passed, and no stage runs while the
\* verdict of an earlier one is missing or in question.
THEOREM NoStaleVerdictEver == Spec => []NoStaleVerdict
  <1>1. IInv => NoStaleVerdict
    BY DEF IInv, Standings, Complete, NoStaleVerdict
  <1> QED
    BY <1>1, Invariance, PTL

\* Killing the process loses at most the result of one stage, unless the kill falls
\* into a save, which loses everything.
THEOREM LosesAtMostOneStage == Spec => []LosesOneStage
  <1>1. IInv => LosesOneStage
    BY DEF IInv, TypeOK, Proc, InStep, LosesOneStage
  <1> QED
    BY <1>1, Invariance, PTL

-----------------------------------------------------------------------------

(* The stock of steps a process has left, which every step uses up.         *)

\* A stage that returns leaves a smaller stock, be it advanced or raised.
LEMMA AdvanceUsesSteps ==
    ASSUME IInv, proc = "running", NEW next, Advance(next)
    PROVE  0 < StepsLeft /\ StepsLeft' < StepsLeft
  <1>1. iteration \in Nat /\ MaxIterations \in Nat /\ iteration <= MaxIterations
    BY MaxIterationsAssumption DEF IInv, TypeOK, Budget
  <1>2. iteration' = iteration + 1 /\ proc' \in {"raised", "advanced"}
    BY DEF Advance
  <1>3. StepsLeft = 4 * (MaxIterations - iteration) + 1
    BY DEF StepsLeft, Phase
  <1>4. StepsLeft' \in {4 * (MaxIterations - iteration') + 0, 4 * (MaxIterations - iteration') + 3}
    BY <1>2 DEF StepsLeft, Phase
  <1> QED
    BY <1>1, <1>2, <1>3, <1>4

\* The two halves of a save, and the end, leave the iteration as it is.
LEMMA OtherWorkUsesSteps ==
    ASSUME IInv, BeginSave \/ EndSave \/ Finish
    PROVE  0 < StepsLeft /\ StepsLeft' < StepsLeft
  <1>1. /\ iteration' = iteration
        /\ iteration \in Nat /\ MaxIterations \in Nat /\ iteration <= MaxIterations
    BY MaxIterationsAssumption DEF BeginSave, EndSave, Finish, memory, IInv, TypeOK, Budget
  <1>2. Phase[proc] \in 1 .. 3 /\ Phase[proc'] \in 0 .. 2 /\ Phase[proc'] < Phase[proc]
    BY DEF BeginSave, EndSave, Finish, Phase
  <1> QED
    BY <1>1, <1>2 DEF StepsLeft

\* For every budget, no chain of failures and escalations runs past it.
THEOREM StepsAlwaysRunOut == Spec => StepsRunOut
  <1>1. ASSUME IInv, StagePasses \/ \E kind \in FailureKind : StageFails(kind)
        PROVE  0 < StepsLeft /\ StepsLeft' < StepsLeft
    BY <1>1, AdvanceUsesSteps DEF StagePasses, StageFails
  <1>2. IInv /\ [Next]_vars => [Work => 0 < StepsLeft /\ StepsLeft' < StepsLeft]_vars
    BY <1>1, OtherWorkUsesSteps DEF Work
  <1> QED
    BY <1>2, Invariance, PTL DEF Spec, StepsRunOut

-----------------------------------------------------------------------------

(* The order of the stages.                                                 *)

Collapse(s) == IF s \in Before("BPF_COMPILE") THEN s ELSE IF s = "DONE" THEN s ELSE "LATER"

LEMMA FlowStageCollapses ==
    ASSUME stage \in Stage
    PROVE  FlowStage = IF proc \in {"down", "raised"} THEN "INIT" ELSE Collapse(stage)
  <1>1. Before("BPF_COMPILE") = {"SPEC_DRAFTING", "SPEC_REVIEW", "IMPL", "IMPL_VERIFY"}
    BY DEF Before, Stage, Position
  <1> QED
    BY <1>1 DEF FlowStage, Collapse

LEMMA Collapsed ==
    /\ \A s \in {"SPEC_DRAFTING", "SPEC_REVIEW", "IMPL", "IMPL_VERIFY", "DONE"} : Collapse(s) = s
    /\ \A s \in {"BPF_COMPILE", "BPF_VERIFY", "TEST_TRACE", "TEST_FUZZ", "TEST_PERF", "REPORT"} :
          Collapse(s) = "LATER"
  <1>1. Before("BPF_COMPILE") = {"SPEC_DRAFTING", "SPEC_REVIEW", "IMPL", "IMPL_VERIFY"}
    BY DEF Before, Stage, Position
  <1> QED
    BY <1>1 DEF Collapse

LEMMA ForwardFlows ==
    ASSUME NEW s \in Working
    PROVE  \/ Collapse(FORWARD[s]) = Collapse(s)
           \/ /\ Collapse(s) \in DOMAIN Flow!Forward
              /\ Collapse(FORWARD[s]) = Flow!Forward[Collapse(s)]
  BY Collapsed DEF Working, Stage, Position, FORWARD, Flow!Forward

LEMMA FailureFlows ==
    ASSUME NEW s \in Working, NEW kind \in Failures(s)
    PROVE  /\ Collapse(s) \in DOMAIN Flow!Repairs
           /\ Collapse(FAILURE_ROUTING[kind]) \in Flow!Repairs[Collapse(s)]
  <1>1. /\ FAILURE_ROUTING[kind] \in {"SPEC_DRAFTING", "SPEC_REVIEW", "IMPL"}
        /\ s = "SPEC_DRAFTING" => FAILURE_ROUTING[kind] = "SPEC_DRAFTING"
        /\ s = "SPEC_REVIEW" => FAILURE_ROUTING[kind] = "SPEC_DRAFTING"
        /\ s \in {"IMPL", "IMPL_VERIFY"} => FAILURE_ROUTING[kind] \in {"SPEC_DRAFTING", "IMPL"}
    BY DEF Failures, Reported, SpecFailures, ReviewFailures, ImplFailures,
           ImplVerifyFailures, BpfCompileFailures, BpfVerifyFailures, TraceFailures,
           TraceDiagnoses, FuzzFailures, PerfFailures, FAILURE_ROUTING, Working,
           Stage, Position
  <1> QED
    BY <1>1, Collapsed DEF Working, Stage, Position, Flow!Repairs

LEMMA NextFlows == IInv /\ IInv' /\ [Next]_vars => [Flow!Next]_FlowStage
  <1> SUFFICES ASSUME IInv, IInv', [Next]_vars PROVE [Flow!Next]_FlowStage
    OBVIOUS
  <1> DEFINE Maps(p, s) == IF p \in {"down", "raised"} THEN "INIT" ELSE Collapse(s)
  <1>1. FlowStage = Maps(proc, stage) /\ FlowStage' = Maps(proc', stage')
    <2>1. FlowStage = Maps(proc, stage)
      BY FlowStageCollapses DEF IInv, TypeOK
    <2>2. stage' \in Stage
      BY DEF IInv, TypeOK
    <2>3. Before("BPF_COMPILE") = {"SPEC_DRAFTING", "SPEC_REVIEW", "IMPL", "IMPL_VERIFY"}
      BY DEF Before, Stage, Position
    <2>4. FlowStage' = Maps(proc', stage')
      BY <2>2, <2>3 DEF FlowStage, Collapse, Before
    <2> QED
      BY <2>1, <2>4
  <1>2. CASE Start \/ Resume
    <2>1. FlowStage \in {"INIT", "DONE"}
      BY <1>1, <1>2, Collapsed DEF Start, Resume, Idle, IInv, Complete
    <2>2. FlowStage' = "SPEC_DRAFTING"
      BY <1>1, <1>2, Collapsed DEF Start, Resume
    <2> QED
      BY <2>1, <2>2 DEF Flow!Next, Flow!Begin
  <1>3. CASE StagePasses
    <2>1. proc = "running" /\ stage \in Working /\ Advance(FORWARD[stage])
      BY <1>3 DEF StagePasses
    <2>2. FlowStage = Collapse(stage)
      BY <1>1, <2>1
    <2>3. CASE proc' = "raised"
      BY <1>1, <2>3 DEF Flow!Next, Flow!Stop
    <2>4. CASE proc' # "raised"
      <3>1. FlowStage' = Collapse(FORWARD[stage])
        BY <1>1, <2>1, <2>4 DEF Advance
      <3> QED
        BY <2>1, <2>2, <3>1, ForwardFlows DEF Flow!Next, Flow!Pass
    <2> QED
      BY <2>3, <2>4
  <1>4. ASSUME NEW kind \in FailureKind, StageFails(kind)
        PROVE  [Flow!Next]_FlowStage
    <2>1. /\ proc = "running" /\ stage \in Working /\ kind \in Failures(stage)
          /\ Advance(FAILURE_ROUTING[kind])
      BY <1>4 DEF StageFails
    <2>2. FlowStage = Collapse(stage)
      BY <1>1, <2>1
    <2>3. CASE proc' = "raised"
      BY <1>1, <2>3 DEF Flow!Next, Flow!Stop
    <2>4. CASE proc' # "raised"
      <3>1. FlowStage' = Collapse(FAILURE_ROUTING[kind])
        BY <1>1, <2>1, <2>4 DEF Advance
      <3> QED
        BY <2>1, <2>2, <3>1, FailureFlows DEF Flow!Next, Flow!Fail
    <2> QED
      BY <2>3, <2>4
  <1>5. CASE BeginSave \/ EndSave \/ Finish
    <2>1. FlowStage' = FlowStage
      BY <1>1, <1>5 DEF BeginSave, EndSave, Finish, memory
    <2> QED
      BY <2>1
  <1>6. CASE Crash
    BY <1>1, <1>6 DEF Crash, Flow!Next, Flow!Stop
  <1>7. CASE UNCHANGED vars
    BY <1>1, <1>7 DEF vars, memory
  <1> QED
    BY <1>2, <1>3, <1>4, <1>5, <1>6, <1>7 DEF Next, Work

\* For every budget, and through every crash and resumption, the orchestrator
\* goes through the stages in the order the agents are modelled with.
THEOREM Refinement == Spec => FollowsStages
  <1>1. Init => Flow!Init
    BY DEF Init, FlowStage, Flow!Init
  <1>2. IInv /\ IInv' /\ [Next]_vars => [Flow!Next]_FlowStage
    BY NextFlows
  <1> QED
    BY <1>1, <1>2, Invariance, PTL DEF Spec, FollowsStages, Flow!Spec

-----------------------------------------------------------------------------

(* What the two disagreements with the comments come down to.               *)

TornInSaveOnly == disk = Torn => proc = "saving"

\* The comment on crash recovery fails in one place only: as long as no kill falls
\* between the truncation and the write of the state file, load() can read it.
THEOREM TornBySaveOnly ==
    Spec /\ [][~ (proc = "saving" /\ Crash)]_vars => []CrashRecovery
  <1>1. Init => TornInSaveOnly
    BY DEF Init, TornInSaveOnly, NoFile, Torn
  <1>2. TornInSaveOnly /\ [Next]_vars /\ [~ (proc = "saving" /\ Crash)]_vars => TornInSaveOnly'
    <2> SUFFICES ASSUME TornInSaveOnly, [Next]_vars, [~ (proc = "saving" /\ Crash)]_vars
                 PROVE  TornInSaveOnly'
      OBVIOUS
    <2>1. CASE Start \/ Resume \/ StagePasses \/ (\E kind \in FailureKind : StageFails(kind))
      BY <2>1 DEF Start, Resume, StagePasses, StageFails, Advance, Idle, TornInSaveOnly
    <2>2. CASE BeginSave \/ Finish
      BY <2>2 DEF BeginSave, Finish, TornInSaveOnly
    <2>3. CASE EndSave
      BY <2>3 DEF EndSave, TornInSaveOnly, Saved, Torn
    <2>4. CASE Crash
      <3>1. proc # "saving" /\ disk' = disk
        BY <2>4 DEF Crash, vars
      <3> QED
        BY <3>1 DEF TornInSaveOnly
    <2>5. CASE UNCHANGED vars
      BY <2>5 DEF vars, TornInSaveOnly
    <2> QED
      BY <2>1, <2>2, <2>3, <2>4, <2>5 DEF Next, Work
  <1>3. TornInSaveOnly => CrashRecovery
    BY DEF TornInSaveOnly, CrashRecovery
  <1> QED
    BY <1>1, <1>2, <1>3, PTL DEF Spec

FewFailures ==
    fails["IMPL"] < MAX_SAME_ROUTE_COUNT /\ fails["SPEC_REVIEW"] < MAX_SAME_ROUTE_COUNT

\* That the router is never asked makes a difference only once one of the two
\* stages it escalates from has failed three times: until then, a failure goes
\* where the router would send it.
THEOREM RouterAgreesAtFirst == Spec /\ []FewFailures => RoutedByRouter
  <1>1. ASSUME IInv, FewFailures, NEW kind \in FailureKind, StageFails(kind), proc' = "advanced"
        PROVE  stage' = Route(kind)
    <2>1. stage' = FAILURE_ROUTING[kind] /\ stage \in Working /\ kind \in Failures(stage)
      BY <1>1 DEF StageFails, Advance
    <2>2. FAILURE_ROUTING[kind] \in {"SPEC_DRAFTING", "SPEC_REVIEW", "IMPL"}
      BY DEF FailureKind, FAILURE_ROUTING
    <2>3. Route(kind) = FAILURE_ROUTING[kind]
      <3>1. Escalation("SPEC_DRAFTING") = "SPEC_DRAFTING"
        BY DEF Escalation
      <3>2. /\ fails["IMPL"] \in Nat /\ fails["SPEC_REVIEW"] \in Nat
            /\ ~ (fails["IMPL"] >= MAX_SAME_ROUTE_COUNT)
            /\ ~ (fails["SPEC_REVIEW"] >= MAX_SAME_ROUTE_COUNT)
        <4>1. fails \in [Working -> 0 .. MAX_SAME_ROUTE_COUNT] /\ "IMPL" \in Working
              /\ "SPEC_REVIEW" \in Working
          BY <1>1 DEF IInv, TypeOK, Working, Stage, Position
        <4> QED
          BY <1>1, <4>1 DEF FewFailures, MAX_SAME_ROUTE_COUNT
      <3> QED
        BY <2>2, <3>1, <3>2 DEF Route
    <2> QED
      BY <2>1, <2>3
  <1>2. IInv /\ FewFailures /\ [Next]_vars =>
           [\A kind \in FailureKind :
               StageFails(kind) /\ proc' = "advanced" => stage' = Route(kind)]_vars
    BY <1>1
  <1> QED
    BY <1>2, Invariance, PTL DEF Spec, RoutedByRouter
=============================================================================
