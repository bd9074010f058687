--------------------------- MODULE MCRRScheduler ---------------------------
(***************************************************************************)
(* A small instance: two CPUs, three tasks (one pinned to CPU 0, one that  *)
(* may go anywhere), and two records Enqueue must refuse, so that its      *)
(* guards matter.                                                          *)
(***************************************************************************)
EXTENDS RRScheduler

MCCpus == {0, 1}

Fresh(pid, affinity) ==
    [pid |-> pid, state |-> "Runnable", cpu_affinity |-> affinity,
     enqueue_time |-> 0, remaining_slice |-> 0]

MCWakeable ==
    {Fresh(1, {0}), Fresh(2, {}), Fresh(3, {0, 1}),
     [Fresh(3, {}) EXCEPT !.state = "Blocked"], Fresh(0, {})}
=============================================================================
