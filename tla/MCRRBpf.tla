------------------------------ MODULE MCRRBpf ------------------------------
(***************************************************************************)
(* Small instances of RRBpf: two CPUs, tasks of which one is pinned.       *)
(***************************************************************************)
EXTENDS RRBpf

CONSTANTS p1, p2, p3, c1, c2

TwoTasks == {p1, p2}
ThreeTasks == {p1, p2, p3}
MCCpus == {c1, c2}

TwoAffinity == p1 :> {c1} @@ p2 :> {c1, c2}
ThreeAffinity == p1 :> {c1} @@ p2 :> {c1, c2} @@ p3 :> {c1, c2}
=============================================================================
