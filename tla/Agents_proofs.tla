--------------------------- MODULE Agents_proofs ---------------------------
(***************************************************************************)
(* Proofs about Agents and the artifact store under them, for every set of *)
(* paths and contents, every bound of fixes and any number of crashes.     *)
(***************************************************************************)
EXTENDS Agents, FiniteSetTheorems, TLAPS

(* The artifact store: how many files the manifest misdescribes.            *)

LEMMA StaleFinite == IsFiniteSet(Stale) /\ Cardinality(Stale) \in Nat
<1>1. Stale \subseteq Paths
  BY DEF Stale
<1> QED
  BY <1>1, StoreAssumption, FS_Subset, FS_CardinalityType DEF StoreAssumption

\* A step that makes no file stale.
LEMMA StaleShrinks ==
    ASSUME OneStalePerCrash, Stale' \subseteq Stale, torn' = torn, crashes' = crashes,
           crashes \in Nat
    PROVE  OneStalePerCrash'
<1>1. Cardinality(Stale') <= Cardinality(Stale) /\ IsFiniteSet(Stale')
  BY StaleFinite, FS_Subset
<1>2. Cardinality(Stale') \in Nat /\ Cardinality(Stale) \in Nat
  BY <1>1, StaleFinite, FS_CardinalityType
<1> QED
  BY <1>1, <1>2 DEF OneStalePerCrash

\* A kill in a write, which makes one file stale at most.
LEMMA StaleGrowsByOne ==
    ASSUME OneStalePerCrash, NEW p, Stale' \subseteq Stale \cup {p}, ~torn,
           crashes' = crashes + 1, crashes \in Nat
    PROVE  OneStalePerCrash'
<1>1. /\ IsFiniteSet(Stale \cup {p})
      /\ Cardinality(Stale \cup {p}) <= Cardinality(Stale) + 1
  BY StaleFinite, FS_AddElement
<1>2. Cardinality(Stale') <= Cardinality(Stale \cup {p}) /\ IsFiniteSet(Stale')
  BY <1>1, FS_Subset
<1>3. /\ Cardinality(Stale') \in Nat
      /\ Cardinality(Stale) \in Nat
      /\ Cardinality(Stale \cup {p}) \in Nat
  BY <1>1, <1>2, StaleFinite, FS_CardinalityType
<1> QED
  BY <1>1, <1>2, <1>3 DEF OneStalePerCrash

\* store() of a path: what it registers describes what it wrote.
LEMMA StoreKeepsStale ==
    ASSUME StoreTypeOK, OneStalePerCrash, up => memory = manifest,
           NEW p \in Paths, NEW content \in Contents, NEW kind \in Kinds,
           Store(p, content, kind)
    PROVE  StoreTypeOK' /\ OneStalePerCrash'
<1> DEFINE entry == [version |-> memory[p].version + 1, sha256 |-> content, kind |-> kind]
<1>1. /\ up /\ up' = up
      /\ memory' = [memory EXCEPT ![p] = entry]
      /\ manifest' = memory'
      /\ disk' = [disk EXCEPT ![p] = content]
      /\ bypassed' = bypassed \ {p}
      /\ torn' = torn /\ crashes' = crashes
  BY DEF Store, Registered
<1>2. /\ memory \in [Paths -> Entry \cup {NoEntry}]
      /\ disk \in [Paths -> Contents \cup {Absent, Torn}]
      /\ crashes \in Nat
  BY StoreAssumption DEF StoreAssumption, StoreTypeOK
<1>3. memory[p].version \in Nat
  BY <1>2 DEF Entry, NoEntry
<1>4. entry \in Entry /\ entry.sha256 = content
  BY <1>3 DEF Entry
<1> HIDE DEF entry
<1>5. StoreTypeOK'
  BY <1>1, <1>2, <1>4 DEF StoreTypeOK
<1>6. Stale' \subseteq Stale
  <2> SUFFICES ASSUME NEW q \in Stale'
               PROVE  q \in Stale
    OBVIOUS
  <2>1. q \in Paths /\ q \notin bypassed' /\ Misdescribed(q)'
    BY DEF Stale
  <2>2. CASE q = p
    <3>1. manifest'[q].sha256 = disk'[q]
      BY <1>1, <1>2, <1>4, <2>2
    <3> QED
      BY <2>1, <3>1 DEF Misdescribed
  <2>3. CASE q # p
    <3>1. manifest'[q] = manifest[q] /\ disk'[q] = disk[q] /\ q \notin bypassed
      BY <1>1, <1>2, <2>1, <2>3
    <3> QED
      BY <2>1, <3>1 DEF Misdescribed, Stale
  <2> QED
    BY <2>2, <2>3
<1>7. OneStalePerCrash'
  BY <1>1, <1>2, <1>6, StaleShrinks
<1> QED
  BY <1>5, <1>7

\* A write past the store takes its path out of the account.
LEMMA WriteKeepsStale ==
    ASSUME StoreTypeOK, OneStalePerCrash,
           NEW p \in Paths, NEW content \in Contents, Write(p, content)
    PROVE  StoreTypeOK' /\ OneStalePerCrash'
<1>1. /\ disk' = [disk EXCEPT ![p] = content]
      /\ bypassed' = bypassed \cup {p}
      /\ UNCHANGED <<memory, manifest, torn, up, crashes>>
  BY DEF Write
<1>2. disk \in [Paths -> Contents \cup {Absent, Torn}] /\ crashes \in Nat
  BY StoreAssumption DEF StoreAssumption, StoreTypeOK
<1>3. StoreTypeOK'
  BY <1>1, <1>2 DEF StoreTypeOK
<1>4. Stale' \subseteq Stale
  BY <1>1, <1>2 DEF Stale, Misdescribed
<1> QED
  BY <1>1, <1>2, <1>3, <1>4, StaleShrinks

\* A kill: the memory is lost, and one file at most is no longer as described.
LEMMA KillKeepsStale ==
    ASSUME StoreTypeOK, OneStalePerCrash, Killed, ~torn,
           NEW p \in Paths, NEW held \in Contents \cup {Absent, Torn},
           disk' = [disk EXCEPT ![p] = held],
           torn' \in BOOLEAN, manifest' = manifest,
           bypassed' \in SUBSET Paths, bypassed \ {p} \subseteq bypassed'
    PROVE  StoreTypeOK' /\ OneStalePerCrash'
<1>1. /\ up' = FALSE
      /\ memory' = [q \in Paths |-> NoEntry]
      /\ crashes' = crashes + 1
      /\ crashes < MaxCrashes
  BY DEF Killed, Gone
<1>2. /\ disk \in [Paths -> Contents \cup {Absent, Torn}]
      /\ crashes \in Nat /\ MaxCrashes \in Nat
  BY StoreAssumption DEF StoreAssumption, StoreTypeOK
<1>3. crashes' \in 0 .. MaxCrashes
  BY <1>1, <1>2
<1>4. StoreTypeOK'
  BY <1>1, <1>2, <1>3 DEF StoreTypeOK
<1>5. Stale' \subseteq Stale \cup {p}
  <2> SUFFICES ASSUME NEW q \in Stale', q # p
               PROVE  q \in Stale
    OBVIOUS
  <2>1. q \in Paths /\ q \notin bypassed /\ Misdescribed(q)'
    BY DEF Stale
  <2>2. disk'[q] = disk[q]
    BY <1>2
  <2> QED
    BY <2>1, <2>2 DEF Misdescribed, Stale
<1> QED
  BY <1>1, <1>2, <1>4, <1>5, StaleGrowsByOne

\* A kill in the save of the manifest leaves nothing to be misled by.
LEMMA TornKeepsStale ==
    ASSUME StoreTypeOK, CrashInStoreLog
    PROVE  StoreTypeOK' /\ OneStalePerCrash'
<1>1. /\ up' = FALSE
      /\ memory' = [q \in Paths |-> NoEntry]
      /\ crashes' = crashes + 1
      /\ crashes < MaxCrashes
      /\ torn' = TRUE
      /\ UNCHANGED <<disk, manifest, bypassed>>
  BY DEF CrashInStoreLog, Killed, Gone
<1>2. crashes \in Nat /\ MaxCrashes \in Nat
  BY StoreAssumption DEF StoreAssumption, StoreTypeOK
<1>3. crashes' \in 0 .. MaxCrashes
  BY <1>1, <1>2
<1> QED
  BY <1>1, <1>3 DEF StoreTypeOK, OneStalePerCrash

\* A step that leaves files and manifest alone.
LEMMA StaleStutters ==
    ASSUME OneStalePerCrash, StoreTypeOK, UNCHANGED <<disk, manifest, torn, bypassed, crashes>>
    PROVE  OneStalePerCrash'
<1>1. Stale' \subseteq Stale
  BY DEF Stale, Misdescribed
<1>2. crashes \in Nat
  BY StoreAssumption DEF StoreAssumption, StoreTypeOK
<1> QED
  BY <1>1, <1>2, StaleShrinks

-----------------------------------------------------------------------------

(* The agents.                                                              *)

LEMMA NothingFacts ==
    /\ Nothing \in Answer
    /\ \A p \in Paths : Nothing[p] = Absent
BY DEF Nothing, Answer

LEMMA InitIInv == Init => IInv
<1> SUFFICES ASSUME Init
             PROVE  IInv
  OBVIOUS
<1>1. /\ disk = [p \in Paths |-> Absent]
      /\ memory = [p \in Paths |-> NoEntry]
      /\ manifest = [p \in Paths |-> NoEntry]
      /\ torn = FALSE /\ up = FALSE /\ bypassed = {} /\ crashes = 0
      /\ stage = "INIT" /\ pc = "ask" /\ answer = Nothing /\ parsed = Nothing
      /\ attempts = 0 /\ vouched = Nothing
  BY DEF Init, StoreInit
<1>2. TypeOK
  <2>1. 0 \in 0 .. MaxCrashes /\ 0 \in 0 .. MAX_LSP_ITERATIONS
    BY StoreAssumption, AgentsAssumption DEF StoreAssumption, AgentsAssumption
  <2>2. vouched \in [Paths -> Contents \cup {Absent, Torn}]
    BY <1>1 DEF Nothing
  <2> QED
    BY <1>1, <2>1, <2>2, NothingFacts DEF TypeOK, StoreTypeOK, Stage, Pc
<1>3. OneStalePerCrash
  <2>1. Stale = {}
    BY <1>1 DEF Stale, Misdescribed
  <2> QED
    BY <1>1, <2>1, FS_EmptySet DEF OneStalePerCrash
<1>4. MemoryIsSaved /\ WritersOnly /\ CheckStands
  BY <1>1 DEF MemoryIsSaved, WritersOnly, Written, CheckStands
<1> QED
  BY <1>2, <1>3, <1>4 DEF IInv

\* A stage ends and another begins, and nothing is written but what was saved.
LEMMA GotoStep ==
    ASSUME IInv, up, NEW next \in Stage, Goto(next),
           UNCHANGED storeVars, UNCHANGED vouched,
           next \in {"LATER", "DONE"} => Vouched
    PROVE  IInv'
<1>1. /\ stage' = next /\ pc' = "ask" /\ attempts' = 0
      /\ answer' = Nothing /\ parsed' = Nothing
      /\ UNCHANGED <<disk, memory, manifest, torn, up, bypassed, crashes>>
      /\ vouched' = vouched
  BY DEF Goto, storeVars
<1>2. TypeOK'
  <2>1. 0 \in 0 .. MAX_LSP_ITERATIONS
    BY AgentsAssumption DEF AgentsAssumption
  <2> QED
    BY <1>1, <2>1, NothingFacts DEF IInv, TypeOK, StoreTypeOK, Pc
<1>3. OneStalePerCrash'
  BY <1>1, StaleStutters DEF IInv, TypeOK
<1>4. MemoryIsSaved' /\ WritersOnly'
  BY <1>1 DEF IInv, MemoryIsSaved, WritersOnly, Written
<1>5. CheckStands'
  BY <1>1 DEF CheckStands, Vouched
<1> QED
  BY <1>2, <1>3, <1>4, <1>5 DEF IInv

\* An agent goes on within its stage.
LEMMA WithinStage ==
    ASSUME IInv, up, UNCHANGED <<storeVars, stage, vouched>>,
           pc' \in Pc, pc' # "log",
           answer' \in Answer, parsed' \in Answer, attempts' \in 0 .. MAX_LSP_ITERATIONS,
           stage \in {"SPEC_DRAFTING", "IMPL"}
    PROVE  IInv'
<1>1. UNCHANGED <<disk, memory, manifest, torn, up, bypassed, crashes>>
  BY DEF storeVars
<1>2. TypeOK'
  BY <1>1 DEF IInv, TypeOK, StoreTypeOK
<1>3. OneStalePerCrash'
  BY <1>1, StaleStutters DEF IInv, TypeOK
<1>4. MemoryIsSaved' /\ WritersOnly' /\ CheckStands'
  BY <1>1 DEF IInv, MemoryIsSaved, WritersOnly, CheckStands
<1> QED
  BY <1>2, <1>3, <1>4 DEF IInv

\* Only the writing stages have something to write.
LEMMA WritesInWriters ==
    ASSUME IInv, NEW p \in Paths, parsed[p] # Absent \/ answer[p] # Absent
    PROVE  stage \in {"SPEC_DRAFTING", "IMPL"}
BY NothingFacts DEF IInv, WritersOnly, Written

LEMMA StoreStep ==
    ASSUME IInv, NEW p \in Paths, StoreNext(p)
    PROVE  IInv'
<1>1. /\ stage \in {"SPEC_DRAFTING", "IMPL"}
      /\ answer[p] # Absent
      /\ Store(p, answer[p], KindOf(p))
      /\ answer' = [answer EXCEPT ![p] = Absent]
      /\ UNCHANGED <<stage, pc, parsed, attempts, vouched>>
  BY WritesInWriters DEF StoreNext
<1>2. /\ StoreTypeOK /\ OneStalePerCrash
      /\ up => memory = manifest
      /\ answer \in Answer
  BY DEF IInv, TypeOK, MemoryIsSaved
<1>3. answer[p] \in Contents /\ answer' \in Answer
  BY <1>1, <1>2 DEF Answer
<1>4. KindOf(p) \in Kinds
  BY AgentsAssumption DEF AgentsAssumption, KindOf
<1>5. StoreTypeOK' /\ OneStalePerCrash'
  BY <1>1, <1>2, <1>3, <1>4, StoreKeepsStale
<1>6. up /\ up' /\ manifest' = memory' /\ torn' = torn
  BY <1>1 DEF Store
<1>7. TypeOK'
  BY <1>1, <1>3, <1>5 DEF IInv, TypeOK
<1>8. MemoryIsSaved' /\ WritersOnly' /\ CheckStands'
  BY <1>1, <1>6 DEF IInv, MemoryIsSaved, WritersOnly, CheckStands
<1> QED
  BY <1>5, <1>7, <1>8 DEF IInv

LEMMA WriteStep ==
    ASSUME IInv, NEW p \in Paths, WriteNext(p)
    PROVE  IInv'
<1>1. /\ stage \in {"SPEC_DRAFTING", "IMPL"}
      /\ parsed[p] # Absent
      /\ Write(p, parsed[p])
      /\ parsed' = [parsed EXCEPT ![p] = Absent]
      /\ UNCHANGED <<stage, pc, answer, attempts, vouched>>
  BY WritesInWriters DEF WriteNext
<1>2. parsed \in Answer /\ StoreTypeOK /\ OneStalePerCrash
  BY DEF IInv, TypeOK
<1>3. parsed[p] \in Contents /\ parsed' \in Answer
  BY <1>1, <1>2 DEF Answer
<1>4. StoreTypeOK' /\ OneStalePerCrash'
  BY <1>1, <1>2, <1>3, WriteKeepsStale
<1>5. UNCHANGED <<memory, manifest, torn, up>>
  BY <1>1 DEF Write
<1>6. TypeOK'
  BY <1>1, <1>3, <1>4 DEF IInv, TypeOK
<1>7. MemoryIsSaved' /\ WritersOnly' /\ CheckStands'
  BY <1>1, <1>5 DEF IInv, MemoryIsSaved, WritersOnly, CheckStands
<1> QED
  BY <1>4, <1>6, <1>7 DEF IInv

\* The process dies, wherever it is.
LEMMA CrashStep ==
    ASSUME IInv, Crash
    PROVE  IInv'
<1>1. /\ stage' = "INIT" /\ pc' = "ask" /\ answer' = Nothing /\ parsed' = Nothing
      /\ attempts' = 0 /\ vouched' = vouched
  BY DEF Crash, Goto
<1>2. StoreTypeOK /\ OneStalePerCrash /\ answer \in Answer
  BY DEF IInv, TypeOK
<1>3. StoreTypeOK' /\ OneStalePerCrash' /\ up' = FALSE
  <2>1. CASE CrashIdle
    <3>1. /\ up' = FALSE /\ memory' = [q \in Paths |-> NoEntry]
          /\ UNCHANGED <<disk, manifest, torn, bypassed, crashes>>
      BY <2>1 DEF CrashIdle, Gone
    <3>2. StoreTypeOK'
      BY <1>2, <3>1 DEF StoreTypeOK
    <3> QED
      BY <1>2, <3>1, <3>2, StaleStutters
  <2>2. CASE CrashInStoreLog
    BY <1>2, <2>2, TornKeepsStale DEF CrashInStoreLog, Killed, Gone
  <2>3. ASSUME NEW p \in Paths, CrashInWrite(p)
        PROVE  StoreTypeOK' /\ OneStalePerCrash' /\ up' = FALSE
    <3>1. /\ Killed /\ up' = FALSE /\ ~torn
          /\ disk' = [disk EXCEPT ![p] = Torn]
          /\ bypassed' = bypassed \cup {p}
          /\ manifest' = manifest /\ torn' = torn
      BY <2>3 DEF CrashInWrite, Killed, Gone, IInv, MemoryIsSaved
    <3>2. torn' \in BOOLEAN /\ bypassed' \in SUBSET Paths
      BY <1>2, <3>1 DEF StoreTypeOK
    <3> QED
      BY <1>2, <3>1, <3>2, KillKeepsStale
  <2>4. ASSUME NEW p \in Paths, answer[p] # Absent, CrashInStore(p, answer[p])
        PROVE  StoreTypeOK' /\ OneStalePerCrash' /\ up' = FALSE
    <3>1. /\ Killed /\ up' = FALSE /\ ~torn
          /\ bypassed' = bypassed \ {p}
          /\ manifest' = manifest
      BY <2>4 DEF CrashInStore, Killed, Gone, IInv, MemoryIsSaved
    <3>2. PICK held \in Contents \cup {Absent, Torn} : disk' = [disk EXCEPT ![p] = held]
      BY <1>2, <2>4 DEF CrashInStore, Answer
    <3>3. torn' \in BOOLEAN /\ bypassed' \in SUBSET Paths
      BY <1>2, <2>4, <3>1 DEF CrashInStore, StoreTypeOK
    <3> QED
      BY <1>2, <3>1, <3>2, <3>3, KillKeepsStale
  <2> QED
    BY <2>1, <2>2, <2>3, <2>4 DEF Crash
<1>4. TypeOK'
  <2>1. 0 \in 0 .. MAX_LSP_ITERATIONS
    BY AgentsAssumption DEF AgentsAssumption
  <2> QED
    BY <1>1, <1>3, <2>1, NothingFacts DEF IInv, TypeOK, Stage, Pc
<1>5. MemoryIsSaved' /\ WritersOnly' /\ CheckStands'
  BY <1>1, <1>3 DEF MemoryIsSaved, WritersOnly, Written, CheckStands
<1> QED
  BY <1>3, <1>4, <1>5 DEF IInv

\* A process starts, at the first stage, with what the manifest says.
LEMMA RunStep ==
    ASSUME IInv, Run
    PROVE  IInv'
<1>1. /\ ~up /\ ~torn /\ up' = TRUE
      /\ memory' = manifest /\ manifest' = manifest
      /\ UNCHANGED <<disk, manifest, torn, bypassed, crashes>>
      /\ pc' = "log"
      /\ UNCHANGED <<stage, answer, parsed, attempts, vouched>>
      /\ stage = "INIT"
  BY DEF Run, Restart, IInv, MemoryIsSaved
<1>2. TypeOK'
  BY <1>1 DEF IInv, TypeOK, StoreTypeOK, Pc
<1>3. OneStalePerCrash'
  BY <1>1, StaleStutters DEF IInv, TypeOK
<1>4. MemoryIsSaved' /\ WritersOnly' /\ CheckStands'
  BY <1>1 DEF IInv, MemoryIsSaved, WritersOnly, Written, CheckStands
<1> QED
  BY <1>2, <1>3, <1>4 DEF IInv

\* Both checks of a review, or of the refinement, say yes; the log comes next.
LEMMA ReviewStep ==
    ASSUME IInv, ReviewPasses
    PROVE  IInv'
<1>1. /\ up /\ stage = "SPEC_REVIEW" /\ pc' = "log"
      /\ UNCHANGED <<disk, memory, manifest, torn, up, bypassed, crashes>>
      /\ UNCHANGED <<stage, answer, parsed, attempts, vouched>>
  BY DEF ReviewPasses, At, storeVars
<1>2. TypeOK'
  BY <1>1 DEF IInv, TypeOK, StoreTypeOK, Pc
<1>3. OneStalePerCrash'
  BY <1>1, StaleStutters DEF IInv, TypeOK
<1>4. MemoryIsSaved' /\ WritersOnly' /\ CheckStands'
  BY <1>1 DEF IInv, MemoryIsSaved, WritersOnly, Written, CheckStands
<1> QED
  BY <1>2, <1>3, <1>4 DEF IInv

LEMMA ImplVerifyStep ==
    ASSUME IInv, ImplVerifyPasses
    PROVE  IInv'
<1>1. /\ up /\ stage = "IMPL_VERIFY" /\ pc' = "log"
      /\ vouched' = [p \in Paths |-> IF p \in Checked THEN disk[p] ELSE Absent]
      /\ UNCHANGED <<disk, memory, manifest, torn, up, bypassed, crashes>>
      /\ UNCHANGED <<stage, answer, parsed, attempts>>
  BY DEF ImplVerifyPasses, At, storeVars
<1>2. disk \in [Paths -> Contents \cup {Absent, Torn}]
  BY DEF IInv, TypeOK, StoreTypeOK
<1>3. TypeOK'
  <2>1. vouched' \in [Paths -> Contents \cup {Absent, Torn}]
    BY <1>1, <1>2
  <2> QED
    BY <1>1, <2>1 DEF IInv, TypeOK, StoreTypeOK, Pc
<1>4. OneStalePerCrash'
  BY <1>1, StaleStutters DEF IInv, TypeOK
<1>5. Vouched'
  <2> SUFFICES ASSUME NEW p \in DomainFiles \cup RefinementFiles
               PROVE  disk'[p] = vouched'[p]
    BY DEF Vouched
  <2>1. p \in Paths
    BY AgentsAssumption DEF AgentsAssumption
  <2>2. p \in Checked \/ disk[p] = Absent
    BY DEF Checked
  <2> QED
    BY <1>1, <2>1, <2>2
<1>6. MemoryIsSaved' /\ WritersOnly' /\ CheckStands'
  BY <1>1, <1>5 DEF IInv, MemoryIsSaved, WritersOnly, Written, CheckStands
<1> QED
  BY <1>3, <1>4, <1>6 DEF IInv

\* Every step of the agents and of the store keeps the inductive invariant.
LEMMA NextIInv == IInv /\ [Next]_vars => IInv'
<1> SUFFICES ASSUME IInv, [Next]_vars
             PROVE  IInv'
  OBVIOUS
<1>1. CASE Run
  BY <1>1, RunStep
<1>2. CASE Crash
  BY <1>2, CrashStep
<1>3. ASSUME NEW p \in Paths, WriteNext(p) \/ StoreNext(p)
      PROVE  IInv'
  BY <1>3, WriteStep, StoreStep
<1>4. CASE StageRaises \/ SpecFails \/ ReviewFails \/ ImplHasNoSpec
  BY <1>4, GotoStep
  DEF StageRaises, SpecFails, ReviewFails, ImplHasNoSpec, At, Stage
<1>5. CASE SpecPasses \/ ImplPasses \/ ImplFails \/ ImplVerifyFails
  BY <1>5, GotoStep DEF SpecPasses, ImplPasses, ImplFails, ImplVerifyFails, At, Stage
<1>6. ASSUME NEW files \in Answer,
             SpecAnswers(files) \/ SpecCorrects(files) \/ ImplAnswers(files) \/ ImplFixes(files)
      PROVE  IInv'
  <2>1. /\ answer \in Answer /\ parsed \in Answer
        /\ attempts \in 0 .. MAX_LSP_ITERATIONS /\ MAX_LSP_ITERATIONS \in Nat
        /\ pc \in Pc
    BY AgentsAssumption DEF AgentsAssumption, IInv, TypeOK
  <2>2. CASE SpecAnswers(files)
    BY <2>1, <2>2, WithinStage DEF SpecAnswers, At, Pc
  <2>3. CASE SpecCorrects(files)
    BY <2>1, <2>3, WithinStage DEF SpecCorrects, At, Pc
  <2>4. CASE ImplAnswers(files)
    BY <2>1, <2>4, WithinStage DEF ImplAnswers, At, Pc
  <2>5. CASE ImplFixes(files)
    <3>1. attempts' \in 0 .. MAX_LSP_ITERATIONS
      BY <2>1, <2>5 DEF ImplFixes
    <3> QED
      BY <2>1, <2>5, <3>1, WithinStage DEF ImplFixes, At, Pc
  <2> QED
    BY <1>6, <2>2, <2>3, <2>4, <2>5
<1>7. CASE ReviewPasses \/ ImplVerifyPasses
  BY <1>7, ReviewStep, ImplVerifyStep
<1>8. ASSUME NEW next \in Stage, StageEndsWithLog(next)
      PROVE  IInv'
  <2>1. up /\ Goto(next) /\ UNCHANGED vouched /\ StoreLog
    BY <1>8 DEF StageEndsWithLog
  <2>2. UNCHANGED storeVars
    BY <2>1 DEF StoreLog, IInv, MemoryIsSaved, storeVars
  <2>3. next \in {"LATER", "DONE"} => Vouched
    BY <1>8 DEF StageEndsWithLog, IInv, CheckStands
  <2> QED
    BY <2>1, <2>2, <2>3, GotoStep
<1>9. ASSUME NEW next \in Stage, LaterFails(next)
      PROVE  IInv'
  BY <1>9, GotoStep DEF LaterFails, At
<1>10. CASE LaterPasses
  <2>1. Vouched
    BY <1>10 DEF LaterPasses, At, IInv, CheckStands
  <2> QED
    BY <1>10, <2>1, GotoStep DEF LaterPasses, At, Stage
<1>11. CASE UNCHANGED vars
  <2>1. UNCHANGED <<disk, memory, manifest, torn, up, bypassed, crashes>>
    BY <1>11 DEF vars, storeVars
  <2>2. OneStalePerCrash'
    BY <2>1, StaleStutters DEF IInv, TypeOK
  <2> QED
    BY <1>11, <2>1, <2>2
    DEF vars, agentVars, IInv, TypeOK, StoreTypeOK, MemoryIsSaved, WritersOnly, Written,
        CheckStands, Vouched
<1> QED
  BY <1>1, <1>2, <1>3, <1>4, <1>5, <1>6, <1>7, <1>8, <1>9, <1>10, <1>11 DEF Next

\* The inductive invariant holds in every reachable state.
THEOREM Invariance == Spec => []IInv
BY InitIInv, NextIInv, PTL DEF Spec

\* Files, entries and the agents' state keep their types, through crashes.
THEOREM TypeCorrect == Spec => []TypeOK
<1>1. IInv => TypeOK
  BY DEF IInv
<1> QED
  BY <1>1, Invariance, PTL

\* The stages after IMPL_VERIFY work on the very files it verified.
THEOREM LaterAlwaysVerified == Spec => []LaterIsVerified
<1>1. IInv => LaterIsVerified
  BY DEF IInv, CheckStands, LaterIsVerified
<1> QED
  BY <1>1, Invariance, PTL

\* For any number of paths and crashes, a crash costs one file at most.
THEOREM OneStalePerCrashAlways == Spec => []OneStalePerCrash
<1>1. IInv => OneStalePerCrash
  BY DEF IInv
<1> QED
  BY <1>1, Invariance, PTL

-----------------------------------------------------------------------------

(* What the saved manifest has said of a version, it never unsays.          *)

Ascends ==
    \A p \in Paths :
        /\ manifest'[p].version >= manifest[p].version
        /\ manifest'[p].version = manifest[p].version => manifest'[p] = manifest[p]

LEMMA SameManifest ==
    ASSUME IInv, manifest' = manifest
    PROVE  Ascends
<1>1. \A p \in Paths : manifest[p].version \in Nat
  <2>1. \A p \in Paths : manifest[p] \in Entry \cup {NoEntry}
    BY DEF IInv, TypeOK, StoreTypeOK
  <2> QED
    BY <2>1 DEF Entry, NoEntry
<1> QED
  BY <1>1 DEF Ascends

LEMMA StoreAscends ==
    ASSUME IInv, NEW p \in Paths, StoreNext(p)
    PROVE  Ascends
<1>1. Store(p, answer[p], KindOf(p)) /\ memory = manifest
  BY DEF StoreNext, Store, IInv, MemoryIsSaved
<1>2. /\ manifest \in [Paths -> Entry \cup {NoEntry}]
      /\ manifest' = [manifest EXCEPT ![p] = [version |-> manifest[p].version + 1,
                                              sha256 |-> answer[p], kind |-> KindOf(p)]]
  BY <1>1 DEF Store, Registered, IInv, TypeOK, StoreTypeOK
<1>3. \A q \in Paths : manifest[q].version \in Nat
  BY <1>2 DEF Entry, NoEntry
<1>4. manifest'[p].version = manifest[p].version + 1
  BY <1>2
<1>5. \A q \in Paths \ {p} : manifest'[q] = manifest[q]
  BY <1>2
<1> QED
  BY <1>3, <1>4, <1>5 DEF Ascends

LEMMA NextAscends ==
    ASSUME IInv, [Next]_vars
    PROVE  Ascends
<1>1. ASSUME NEW p \in Paths, StoreNext(p)
      PROVE  Ascends
  BY <1>1, StoreAscends
<1>2. ASSUME NEW p \in Paths, WriteNext(p)
      PROVE  Ascends
  BY <1>2, SameManifest DEF WriteNext, Write
<1>3. CASE Crash
  BY <1>3, SameManifest
  DEF Crash, CrashIdle, CrashInStoreLog, CrashInWrite, CrashInStore
<1>4. CASE Run
  BY <1>4, SameManifest DEF Run, Restart
<1>5. ASSUME NEW next \in Stage, StageEndsWithLog(next)
      PROVE  Ascends
  BY <1>5, SameManifest DEF StageEndsWithLog, StoreLog, IInv, MemoryIsSaved
<1>6. CASE UNCHANGED storeVars
  BY <1>6, SameManifest DEF storeVars
<1>7. CASE UNCHANGED vars
  BY <1>6, <1>7 DEF vars
<1>8. Next => \/ Run \/ Crash \/ UNCHANGED storeVars
              \/ \E p \in Paths : WriteNext(p) \/ StoreNext(p)
              \/ \E next \in Stage : StageEndsWithLog(next)
  BY DEF Next, StageRaises, SpecAnswers, SpecCorrects, ImplAnswers, ImplFixes, SpecFails,
         SpecPasses, ReviewFails, ReviewPasses, ImplHasNoSpec, ImplFails, ImplPasses,
         ImplVerifyPasses, ImplVerifyFails, LaterFails, LaterPasses
<1> QED
  BY <1>1, <1>2, <1>3, <1>4, <1>5, <1>6, <1>7, <1>8

\* Through any crashes, a version number of a path names one entry for ever.
THEOREM VersionsNameContentsAlways == Spec => VersionsNameContents
<1>1. IInv /\ [Next]_vars =>
         [\A p \in Paths :
            /\ manifest'[p].version >= manifest[p].version
            /\ manifest'[p].version = manifest[p].version => manifest'[p] = manifest[p]]_storeVars
  BY NextAscends DEF Ascends
<1> QED
  BY <1>1, Invariance, PTL DEF Spec, VersionsNameContents

-----------------------------------------------------------------------------

(* Every step of a process brings its stage nearer to its end.              *)

Nearer ==
    \/ pc' = "ask"
    \/ AsksLeft' < AsksLeft
    \/ AsksLeft' = AsksLeft /\ Pending' < Pending

Held(f) == {p \in Paths : f[p] # Absent}

\* A file written is one file fewer to write.
LEMMA OneFewerHeld ==
    ASSUME NEW f \in Answer, NEW g, NEW p \in Paths, f[p] # Absent,
           g = [f EXCEPT ![p] = Absent]
    PROVE  /\ Cardinality(Held(f)) \in Nat
           /\ Cardinality(Held(g)) \in Nat
           /\ Cardinality(Held(g)) < Cardinality(Held(f))
<1>1. IsFiniteSet(Held(f)) /\ p \in Held(f)
  <2>1. Held(f) \subseteq Paths
    BY DEF Held
  <2> QED
    BY <2>1, StoreAssumption, FS_Subset DEF StoreAssumption, Held
<1>2. Held(g) = Held(f) \ {p}
  BY DEF Held, Answer
<1>3. /\ IsFiniteSet(Held(g))
      /\ Cardinality(Held(g)) = Cardinality(Held(f)) - 1
  BY <1>1, <1>2, FS_RemoveElement
<1>4. Cardinality(Held(f)) \in Nat /\ Cardinality(Held(g)) \in Nat
  BY <1>1, <1>3, FS_CardinalityType
<1> QED
  BY <1>3, <1>4

LEMMA HeldCount ==
    ASSUME NEW f
    PROVE  Cardinality(Held(f)) \in Nat
<1>1. Held(f) \subseteq Paths
  BY DEF Held
<1> QED
  BY <1>1, StoreAssumption, FS_Subset, FS_CardinalityType DEF StoreAssumption

LEMMA WritingIsNearer ==
    ASSUME IInv, NEW p \in Paths, WriteNext(p) \/ StoreNext(p)
    PROVE  Nearer
<1>1. AsksLeft' = AsksLeft
  BY DEF WriteNext, StoreNext, AsksLeft
<1>2. Pending = Cardinality(Held(parsed)) + Cardinality(Held(answer))
  BY DEF Pending, Held
<1>3. Pending' = Cardinality(Held(parsed')) + Cardinality(Held(answer'))
  BY DEF Pending, Held
<1>4. parsed \in Answer /\ answer \in Answer
  BY DEF IInv, TypeOK
<1>5. CASE WriteNext(p)
  <2>1. /\ parsed[p] # Absent /\ parsed' = [parsed EXCEPT ![p] = Absent]
        /\ answer' = answer
    BY <1>5 DEF WriteNext
  <2>2. /\ Cardinality(Held(parsed)) \in Nat
        /\ Cardinality(Held(parsed')) \in Nat
        /\ Cardinality(Held(parsed')) < Cardinality(Held(parsed))
    BY <1>4, <2>1, OneFewerHeld
  <2>3. Cardinality(Held(answer)) \in Nat /\ Held(answer') = Held(answer)
    BY <2>1, HeldCount
  <2> QED
    BY <1>1, <1>2, <1>3, <2>2, <2>3 DEF Nearer
<1>6. CASE StoreNext(p)
  <2>1. /\ answer[p] # Absent /\ answer' = [answer EXCEPT ![p] = Absent]
        /\ parsed' = parsed
    BY <1>6 DEF StoreNext
  <2>2. /\ Cardinality(Held(answer)) \in Nat
        /\ Cardinality(Held(answer')) \in Nat
        /\ Cardinality(Held(answer')) < Cardinality(Held(answer))
    BY <1>4, <2>1, OneFewerHeld
  <2>3. Cardinality(Held(parsed)) \in Nat /\ Held(parsed') = Held(parsed)
    BY <2>1, HeldCount
  <2> QED
    BY <1>1, <1>2, <1>3, <2>2, <2>3 DEF Nearer
<1> QED
  BY <1>5, <1>6

LEMMA AskingIsNearer ==
    ASSUME IInv, NEW files,
           SpecAnswers(files) \/ SpecCorrects(files) \/ ImplAnswers(files) \/ ImplFixes(files)
    PROVE  Nearer
<1>1. attempts \in 0 .. MAX_LSP_ITERATIONS /\ MAX_LSP_ITERATIONS \in Nat
  BY AgentsAssumption DEF AgentsAssumption, IInv, TypeOK
<1>2. CASE SpecAnswers(files)
  BY <1>1, <1>2 DEF SpecAnswers, At, AsksLeft, Nearer
<1>3. CASE SpecCorrects(files)
  BY <1>1, <1>3 DEF SpecCorrects, At, AsksLeft, Nearer
<1>4. CASE ImplAnswers(files)
  BY <1>1, <1>4 DEF ImplAnswers, At, AsksLeft, Nearer
<1>5. CASE ImplFixes(files)
  BY <1>1, <1>5 DEF ImplFixes, At, AsksLeft, Nearer
<1> QED
  BY <1>2, <1>3, <1>4, <1>5

LEMMA NextIsNearer ==
    ASSUME IInv, Next, up, up'
    PROVE  Nearer
<1>1. CASE ReviewPasses \/ ImplVerifyPasses
  <2>1. MAX_LSP_ITERATIONS \in Nat
    BY AgentsAssumption DEF AgentsAssumption
  <2> QED
    BY <1>1, <2>1 DEF ReviewPasses, ImplVerifyPasses, At, AsksLeft, Nearer
<1>2. CASE Run
  BY <1>2 DEF Run, Restart
<1>3. Next => \/ Run \/ ReviewPasses \/ ImplVerifyPasses \/ pc' = "ask"
              \/ \E p \in Paths : WriteNext(p) \/ StoreNext(p)
              \/ \E files \in Answer : SpecAnswers(files) \/ SpecCorrects(files)
                                       \/ ImplAnswers(files) \/ ImplFixes(files)
  BY DEF Next, Goto, Crash, StageRaises, SpecFails, SpecPasses, ReviewFails, ImplHasNoSpec,
         ImplFails, ImplPasses, ImplVerifyFails, StageEndsWithLog, LaterFails, LaterPasses
<1> QED
  BY <1>1, <1>2, <1>3, WritingIsNearer, AskingIsNearer DEF Nearer

\* For every number of files and of fixes, the loops of the agents end.
THEOREM StagesAlwaysEnd == Spec => StageEnds
<1>1. IInv /\ [Next]_vars =>
         [up /\ up' => \/ pc' = "ask"
                       \/ AsksLeft' < AsksLeft
                       \/ AsksLeft' = AsksLeft /\ Pending' < Pending]_vars
  BY NextIsNearer DEF Nearer
<1> QED
  BY <1>1, Invariance, PTL DEF Spec, StageEnds

-----------------------------------------------------------------------------

(* The order of the stages.                                                 *)

LEMMA NextFlows == IInv /\ [Next]_vars => [Flow!Next]_stage
<1> SUFFICES ASSUME IInv, [Next]_vars
             PROVE  [Flow!Next]_stage
  OBVIOUS
<1>1. stage \in Stage
  BY DEF IInv, TypeOK
<1>2. CASE Crash
  BY <1>2 DEF Crash, Goto, Flow!Next, Flow!Stop
<1>3. CASE StageRaises \/ ReviewFails \/ ImplHasNoSpec \/ SpecFails
  BY <1>1, <1>3
  DEF StageRaises, ReviewFails, ImplHasNoSpec, SpecFails, At, Goto, Stage, Flow!Next,
      Flow!Fail, Flow!Repairs
<1>4. CASE ImplFails \/ ImplVerifyFails \/ \E next \in Stage : LaterFails(next)
  BY <1>4
  DEF ImplFails, ImplVerifyFails, LaterFails, At, Goto, Flow!Next, Flow!Fail, Flow!Repairs
<1>5. CASE SpecPasses \/ ImplPasses \/ LaterPasses
  BY <1>5
  DEF SpecPasses, ImplPasses, LaterPasses, At, Goto, Flow!Next, Flow!Pass, Flow!Forward
<1>6. ASSUME NEW next \in Stage, StageEndsWithLog(next)
      PROVE  Flow!Next
  BY <1>6
  DEF StageEndsWithLog, Goto, Flow!Next, Flow!Begin, Flow!Pass, Flow!Forward
<1>7. CASE stage' = stage
  BY <1>7
<1>8. Next => \/ Crash \/ StageRaises \/ ReviewFails \/ ImplHasNoSpec \/ SpecFails
              \/ ImplFails \/ ImplVerifyFails \/ SpecPasses \/ ImplPasses \/ LaterPasses
              \/ \E next \in Stage : StageEndsWithLog(next) \/ LaterFails(next)
              \/ stage' = stage
  BY DEF Next, Run, WriteNext, StoreNext, SpecAnswers, SpecCorrects, ImplAnswers, ImplFixes,
         ReviewPasses, ImplVerifyPasses
<1>9. CASE UNCHANGED vars
  BY <1>9 DEF vars, agentVars
<1> QED
  BY <1>2, <1>3, <1>4, <1>5, <1>6, <1>7, <1>8, <1>9

\* For every set of files and any number of crashes, the agents go through the
\* stages in the orchestrator's order.
THEOREM Refinement == Spec => FollowsStages
<1>1. Init => Flow!Init
  BY DEF Init, Flow!Init
<1> QED
  BY <1>1, NextFlows, Invariance, PTL DEF Spec, FollowsStages, Flow!Spec
=============================================================================
