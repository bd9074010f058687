-------------------------- MODULE MCFairScheduler --------------------------
(***************************************************************************)
(* A small instance: two CPUs, three tasks (one pinned to CPU 0), of which *)
(* one wakes up with either of two vruntimes, and two records that Enqueue *)
(* must refuse, so that its guards matter.                                 *)
(***************************************************************************)
EXTENDS FairScheduler

MCCpus == {0, 1}
MCCharges == {0, 1}

Fresh(pid, vruntime, affinity) ==
    [pid |-> pid, vruntime |-> vruntime, weight |-> 1, state |-> "Runnable",
     cpu_affinity |-> affinity, enqueue_time |-> 0]

MCWakeable ==
    {Fresh(1, 1, {0}), Fresh(2, 0, {}), Fresh(2, 2, {}), Fresh(3, 1, {0, 1}),
     [Fresh(3, 0, {0, 1}) EXCEPT !.state = "Blocked"],
     [Fresh(1, 0, {0}) EXCEPT !.weight = 0]}
=============================================================================
