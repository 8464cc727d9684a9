---------------------------- MODULE MCSyncCycle -----------------------------
(***************************************************************************)
(* The instances of SyncCycle: accounts whose scans differ in length.      *)
(***************************************************************************)
EXTENDS SyncCycle, TLC

CONSTANTS a1, a2, a3

\* The third account needs more pages than two runs may read.
ThreePages == (a1 :> 1) @@ (a2 :> 2) @@ (a3 :> 3)
TwoPages == (a1 :> 2) @@ (a2 :> 2)
=============================================================================
