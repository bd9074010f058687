----------------------------- MODULE MCFairBpf -----------------------------
(***************************************************************************)
(* Small instances of FairBpf: two CPUs and a pinned task, one task of the *)
(* weight zero that calc_delta_vruntime guards against, and one so heavy   *)
(* that the division charges it nothing.                                   *)
(***************************************************************************)
EXTENDS FairBpf

CONSTANTS p1, p2, p3, c1, c2

MCTasks == {p1, p2}
MCThree == {p1, p2, p3}
MCCpus == {c1, c2}
MCAffinity == p1 :> {c1} @@ p2 :> {c1, c2}
MCThreeAffinity == p1 :> {c1} @@ p2 :> {c1, c2} @@ p3 :> {c1}
MCWeight == p1 :> 0 @@ p2 :> 3
MCThreeWeight == p1 :> 0 @@ p2 :> 2 @@ p3 :> 1
=============================================================================
