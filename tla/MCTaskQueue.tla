---------------------------- MODULE MCTaskQueue -----------------------------
(***************************************************************************)
(* Model values for the instance of TaskQueue: two tasks that differ in    *)
(* their handler and two workers.                                          *)
(***************************************************************************)
EXTENDS TaskQueue

CONSTANTS t1, t2, w1, w2
=============================================================================
