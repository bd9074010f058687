----------------------------- MODULE StageFlow -----------------------------
(***************************************************************************)
(* The order of the stages as agents/orchestrator/state_machine.py draws   *)
(* it, without budget, state file or artifacts: one edge forward from each *)
(* stage, and edges back to where a failure is repaired.  Pipeline and     *)
(* Agents, which each keep half of the orchestrator's state, both follow   *)
(* it.  The stages after IMPL_VERIFY are one, LATER.                       *)
(***************************************************************************)

VARIABLE at     \* current_stage; INIT when no process runs

Forward ==
    [SPEC_DRAFTING |-> "SPEC_REVIEW", SPEC_REVIEW |-> "IMPL", IMPL |-> "IMPL_VERIFY",
     IMPL_VERIFY |-> "LATER", LATER |-> "DONE"]

\* Where the failures of a stage, an exception included, may send the pipeline.
Repairs ==
    [SPEC_DRAFTING |-> {"SPEC_DRAFTING"}, SPEC_REVIEW |-> {"SPEC_DRAFTING"},
     IMPL |-> {"SPEC_DRAFTING", "IMPL"}, IMPL_VERIFY |-> {"SPEC_DRAFTING", "IMPL"},
     LATER |-> {"SPEC_DRAFTING", "SPEC_REVIEW", "IMPL"}]

\* run() goes to the first stage, resumed or not.
Begin == at \in {"INIT", "DONE"} /\ at' = "SPEC_DRAFTING"

Pass == at \in DOMAIN Forward /\ at' = Forward[at]

Fail == at \in DOMAIN Repairs /\ at' \in Repairs[at]

\* The budget is used up, or the process is killed.
Stop == at' = "INIT"

Init == at = "INIT"

Next == Begin \/ Pass \/ Fail \/ Stop

Spec == Init /\ [][Next]_at
=============================================================================
