---------------------------- MODULE MCWaitNotify ----------------------------
(***************************************************************************)
(* WaitNotify for TLC.  The threads start alike and nothing tells them     *)
(* apart, so permuting them is sound for the invariants.                   *)
(***************************************************************************)

EXTENDS WaitNotify, TLC

ThreadSymmetry == Permutations(Threads)
=============================================================================
