---------------------------- MODULE MCScheduler ----------------------------
EXTENDS Scheduler

T(y, v, p, r) == [type |-> y, privilege |-> v, priority |-> p, returns |-> r]

(* No task, as in this build; the fastest and a slower one; one that is    *)
(* never due; volatile ones in two places; one that may hang.              *)
MCTables ==
  { << >>,
    << T("TSR", "USER", 0, TRUE), T("TSR", "KERNEL", 1, TRUE) >>,
    << T("TSR", "USER", 2, TRUE), T("TSR", "USER", 3, TRUE), T("TSR", "KERNEL", 0, TRUE) >>,
    << T("TSR", "KERNEL", 0, TRUE), T("VOLATILE", "USER", 0, TRUE), T("TSR", "USER", 1, TRUE) >>,
    << T("VOLATILE", "USER", 1, TRUE), T("TSR", "USER", 0, TRUE) >>,
    << T("TSR", "USER", 0, FALSE), T("TSR", "USER", 1, TRUE) >> }
=============================================================================
