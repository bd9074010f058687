------------------------------- MODULE Agents -------------------------------
(***************************************************************************)
(* The specification, review and implementation agents                     *)
(* (agents/{spec,verify,impl}/agent.py) on the artifact store: what they   *)
(* read, write and have checked, file by file, under crashes.              *)
(*                                                                         *)
(* An answer of the language model is any set of files; `dafny verify` and *)
(* the semantic review may say yes or no.  The stages after IMPL_VERIFY,   *)
(* which write no modelled file, are one: LATER.                           *)
(***************************************************************************)
EXTENDS ArtifactStore

CONSTANTS
    DafnyPaths,          \* the paths that end in .dfy
    DomainFiles,         \* specs/domain/*.dfy and specs/properties/*.dfy
    RefinementFiles,     \* specs/refinements/*.dfy
    MAX_LSP_ITERATIONS

ASSUME AgentsAssumption ==
    /\ DafnyPaths \subseteq Paths
    /\ DomainFiles \cup RefinementFiles \subseteq DafnyPaths
    /\ {"dafny_spec", "dafny_impl", "c_source"} \subseteq Kinds
    /\ MAX_LSP_ITERATIONS \in Nat \ {0}

VARIABLES
    stage,
    pc,          \* where in the stage's agent
    answer,      \* path -> what the agent still has to pass to the store
    parsed,      \* path -> what _parse_file_blocks or a fix still has to write
    attempts,    \* fixes asked for
    vouched      \* path -> what the last successful IMPL_VERIFY checked

agentVars == <<stage, pc, answer, parsed, attempts, vouched>>
vars == <<storeVars, agentVars>>

Stage == {"INIT", "SPEC_DRAFTING", "SPEC_REVIEW", "IMPL", "IMPL_VERIFY", "LATER", "DONE"}
Pc == {"ask", "first", "corrected", "generated", "log"}

Nothing == [p \in Paths |-> Absent]
Answer == [Paths -> Contents \cup {Absent}]

TypeOK ==
    /\ StoreTypeOK
    /\ stage \in Stage
    /\ pc \in Pc
    /\ answer \in Answer
    /\ parsed \in Answer
    /\ attempts \in 0 .. MAX_LSP_ITERATIONS
    /\ vouched \in [Paths -> Contents \cup {Absent, Torn}]

Init ==
    /\ StoreInit
    /\ stage = "INIT"
    /\ pc = "ask"
    /\ answer = Nothing
    /\ parsed = Nothing
    /\ attempts = 0
    /\ vouched = Nothing

\* A stage begins; whatever the last one had not written is forgotten.
Goto(s) ==
    /\ stage' = s
    /\ pc' = "ask"
    /\ answer' = Nothing
    /\ parsed' = Nothing
    /\ attempts' = 0

At(s, where) == up /\ stage = s /\ pc = where

\* The agent has written its answer and goes on to have it checked.
Written == answer = Nothing /\ parsed = Nothing

\* The artifact that ends a stage: the snapshot of the requirements, or a log.
StageEndsWithLog(next) ==
    /\ up
    /\ pc = "log"
    /\ <<stage, next>> \in {<<"INIT", "SPEC_DRAFTING">>, <<"SPEC_REVIEW", "IMPL">>,
                            <<"IMPL_VERIFY", "LATER">>}
    /\ StoreLog
    /\ Goto(next)
    /\ UNCHANGED vouched

-----------------------------------------------------------------------------
(* SpecAgent                                                                *)

SpecAnswers(files) ==
    /\ At("SPEC_DRAFTING", "ask")
    /\ files # Nothing
    /\ answer' = files
    /\ pc' = "first"
    /\ UNCHANGED <<storeVars, stage, parsed, attempts, vouched>>

\* The self-check fails: one correction, if the model answers with files.
SpecCorrects(files) ==
    /\ At("SPEC_DRAFTING", "first")
    /\ Written
    /\ files # Nothing
    /\ answer' = files
    /\ pc' = "corrected"
    /\ UNCHANGED <<storeVars, stage, parsed, attempts, vouched>>

\* SPEC_INCONSISTENT: no file blocks at all, or the self-check failed for good.
SpecFails ==
    /\ At("SPEC_DRAFTING", pc)
    /\ Written
    /\ Goto("SPEC_DRAFTING")
    /\ UNCHANGED <<storeVars, vouched>>

SpecPasses ==
    /\ At("SPEC_DRAFTING", pc)
    /\ pc \in {"first", "corrected"}
    /\ Written
    /\ Goto("SPEC_REVIEW")
    /\ UNCHANGED <<storeVars, vouched>>

-----------------------------------------------------------------------------
(* VerifyAgent                                                              *)

\* list_by_kind(DAFNY_SPEC): by the kind of the last store, not by path.
Listed == {p \in Paths : memory[p].kind = "dafny_spec"}

\* Nothing listed (SPEC_INCOMPLETE), or a check says no: all routed alike.
ReviewFails ==
    /\ At("SPEC_REVIEW", "ask")
    /\ Goto("SPEC_DRAFTING")
    /\ UNCHANGED <<storeVars, vouched>>

\* Both checks say yes; the verification log is stored.
ReviewPasses ==
    /\ At("SPEC_REVIEW", "ask")
    /\ Listed # {}
    /\ pc' = "log"
    /\ UNCHANGED <<storeVars, stage, answer, parsed, attempts, vouched>>

-----------------------------------------------------------------------------
(* ImplAgent                                                                *)

SpecContents == {p \in Listed : disk[p] # Absent}

\* SPEC_INCOMPLETE
ImplHasNoSpec ==
    /\ At("IMPL", "ask")
    /\ SpecContents = {}
    /\ Goto("SPEC_DRAFTING")
    /\ UNCHANGED <<storeVars, vouched>>

\* _parse_file_blocks writes every file; then each is stored as well.
ImplAnswers(files) ==
    /\ At("IMPL", "ask")
    /\ SpecContents # {}
    /\ files # Nothing
    /\ parsed' = files
    /\ answer' = files
    /\ pc' = "generated"
    /\ UNCHANGED <<storeVars, stage, attempts, vouched>>

\* Mutant of ImplFixes: one fix too many.
ImplFixesOnceMore(files) ==
    /\ At("IMPL", "generated")
    /\ Written
    /\ attempts <= MAX_LSP_ITERATIONS
    /\ parsed' = files
    /\ attempts' = attempts + 1
    /\ UNCHANGED <<storeVars, stage, pc, answer, vouched>>

\* Mutant of ImplFixes: the fixes are not counted.
ImplFixesUncounted(files) ==
    /\ At("IMPL", "generated")
    /\ Written
    /\ attempts < MAX_LSP_ITERATIONS
    /\ parsed' = files
    /\ UNCHANGED <<storeVars, stage, pc, answer, attempts, vouched>>

\* A check says no and the model is asked for a fix, which is only written.
ImplFixes(files) ==
    /\ At("IMPL", "generated")
    /\ Written
    /\ attempts < MAX_LSP_ITERATIONS
    /\ parsed' = files
    /\ attempts' = attempts + 1
    /\ UNCHANGED <<storeVars, stage, pc, answer, vouched>>

\* IMPL_UNVERIFIED: no file blocks, or the last fix is written, unchecked.
ImplFails ==
    /\ At("IMPL", pc)
    /\ \/ pc = "ask" /\ SpecContents # {}
       \/ pc = "generated" /\ Written /\ attempts = MAX_LSP_ITERATIONS
    /\ Goto("IMPL")
    /\ UNCHANGED <<storeVars, vouched>>

\* Mutant of ImplPasses: the refinement proof is skipped.
ImplPassesUnverified ==
    /\ At("IMPL", "generated")
    /\ Written
    /\ attempts < MAX_LSP_ITERATIONS
    /\ Goto("LATER")
    /\ UNCHANGED <<storeVars, vouched>>

ImplPasses ==
    /\ At("IMPL", "generated")
    /\ Written
    /\ attempts < MAX_LSP_ITERATIONS
    /\ Goto("IMPL_VERIFY")
    /\ UNCHANGED <<storeVars, vouched>>

\* Mutant of Checked: what the manifest lists instead of what is on disk.
CheckedListed == {p \in DafnyPaths : memory[p] # NoEntry /\ disk[p] # Absent}

\* The files _verify_implementation globs for.
Checked == {p \in DomainFiles \cup RefinementFiles : disk[p] # Absent}

\* The refinement proof holds; the log is stored.
ImplVerifyPasses ==
    /\ At("IMPL_VERIFY", "ask")
    /\ Checked \cap RefinementFiles # {}
    /\ vouched' = [p \in Paths |-> IF p \in Checked THEN disk[p] ELSE Absent]
    /\ pc' = "log"
    /\ UNCHANGED <<storeVars, stage, answer, parsed, attempts>>

\* IMPL_UNVERIFIED: no refinement file, or it does not hold.
ImplVerifyFails ==
    /\ At("IMPL_VERIFY", "ask")
    /\ Goto("IMPL")
    /\ UNCHANGED <<storeVars, vouched>>

-----------------------------------------------------------------------------
(* Writes, exceptions, crashes and the rest of the pipeline                 *)

KindOf(p) ==
    IF stage = "SPEC_DRAFTING" THEN "dafny_spec"
    ELSE IF p \in DafnyPaths THEN "dafny_impl" ELSE "c_source"

WriteNext(p) ==
    /\ parsed[p] # Absent
    /\ Write(p, parsed[p])
    /\ parsed' = [parsed EXCEPT ![p] = Absent]
    /\ UNCHANGED <<stage, pc, answer, attempts, vouched>>

StoreNext(p) ==
    /\ parsed = Nothing
    /\ answer[p] # Absent
    /\ Store(p, answer[p], KindOf(p))
    /\ answer' = [answer EXCEPT ![p] = Absent]
    /\ UNCHANGED <<stage, pc, parsed, attempts, vouched>>

\* _run_stage: an exception (the language model's client gives up) becomes
\* SPEC_INCONSISTENT.
StageRaises ==
    /\ up
    /\ stage \notin {"INIT", "DONE"}
    /\ stage # "SPEC_DRAFTING" \/ pc # "ask"
    /\ Goto("SPEC_DRAFTING")
    /\ UNCHANGED <<storeVars, vouched>>

LaterPasses ==
    /\ At("LATER", "ask")
    /\ Goto("DONE")
    /\ UNCHANGED <<storeVars, vouched>>

\* The targets of FAILURE_ROUTING for the compile, verify and test stages.
LaterFails(next) ==
    /\ At("LATER", "ask")
    /\ next \in {"IMPL", "SPEC_REVIEW", "SPEC_DRAFTING"}
    /\ Goto(next)
    /\ UNCHANGED <<storeVars, vouched>>

Crash ==
    /\ \/ CrashIdle
       \/ pc = "log" /\ CrashInStoreLog
       \/ \E p \in Paths : parsed[p] # Absent /\ CrashInWrite(p)
       \/ \E p \in Paths : /\ parsed = Nothing /\ answer[p] # Absent
                           /\ CrashInStore(p, answer[p])
    /\ Goto("INIT")
    /\ UNCHANGED vouched

\* run() stores the requirements, and goes to SPEC_DRAFTING whatever was saved.
Run ==
    /\ Restart
    /\ pc' = "log"
    /\ UNCHANGED <<stage, answer, parsed, attempts, vouched>>

Next ==
    \/ Run \/ Crash \/ StageRaises
    \/ \E p \in Paths : WriteNext(p) \/ StoreNext(p)
    \/ \E files \in Answer : SpecAnswers(files) \/ SpecCorrects(files)
                             \/ ImplAnswers(files) \/ ImplFixes(files)
    \/ SpecFails \/ SpecPasses \/ ReviewFails \/ ReviewPasses
    \/ ImplHasNoSpec \/ ImplFails \/ ImplPasses \/ ImplVerifyPasses \/ ImplVerifyFails
    \/ \E next \in Stage : StageEndsWithLog(next) \/ LaterFails(next)
    \/ LaterPasses

Spec == Init /\ [][Next]_vars

-----------------------------------------------------------------------------

Vouched == \A p \in DomainFiles \cup RefinementFiles : disk[p] = vouched[p]

\* The proofs a build is compiled, tested and reported under stand: from
\* IMPL_VERIFY on, every Dafny file of the specification and the refinement is on
\* disk as IMPL_VERIFY checked it, be it known to the manifest or left by a crash
\* or a fix.  It says nothing of the C file that is compiled, which no step
\* verifies, nor that the review of an overwritten specification still counts.
LaterIsVerified == up /\ stage \in {"LATER", "DONE"} => Vouched

\* How often the language model may still be asked, and the files to be written.
AsksLeft ==
    CASE pc = "ask" -> MAX_LSP_ITERATIONS + 2
      [] pc = "first" -> 1
      [] pc = "generated" -> MAX_LSP_ITERATIONS - attempts
      [] pc \in {"corrected", "log"} -> 0

Pending ==
    Cardinality({p \in Paths : parsed[p] # Absent})
        + Cardinality({p \in Paths : answer[p] # Absent})

\* The loops of the agents come to an end whatever the language model answers
\* and whatever the checks say: every step of a process either begins a stage or
\* brings the current one nearer to its end.
StageEnds ==
    [][up /\ up' => \/ pc' = "ask"
                    \/ AsksLeft' < AsksLeft
                    \/ AsksLeft' = AsksLeft /\ Pending' < Pending]_vars

\* The inductive invariant.  The saved manifest is the one in memory whenever a
\* process runs; only SPEC_DRAFTING and IMPL have files still to write; and what
\* IMPL_VERIFY has checked stands from its check on, before its log is stored.
MemoryIsSaved == IF up THEN memory = manifest /\ ~torn ELSE stage = "INIT"

WritersOnly == stage \notin {"SPEC_DRAFTING", "IMPL"} => Written

CheckStands ==
    /\ up
    /\ \/ stage \in {"LATER", "DONE"}
       \/ stage = "IMPL_VERIFY" /\ pc = "log"
    => Vouched

IInv ==
    /\ TypeOK
    /\ MemoryIsSaved
    /\ WritersOnly
    /\ CheckStands
    /\ OneStalePerCrash

\* The agents follow the orchestrator's order of stages: whatever fails, and
\* wherever a crash falls, no stage is entered past one it depends on.
Flow == INSTANCE StageFlow WITH at <- stage
FollowsStages == Flow!Spec
=============================================================================
