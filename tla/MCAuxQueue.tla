----------------------------- MODULE MCAuxQueue -----------------------------
(***************************************************************************)
(* AuxQueue fed with consecutive numbers: the values in the queue at any   *)
(* time differ, so that no two of them can be confused.                    *)
(***************************************************************************)
EXTENDS AuxQueue

VARIABLE n   \* the number pushed next

MCInit == auxQueueCreate /\ n = 0

MCPush == Push(n) /\ n' = (n + 1) % 17

MCNext == MCPush \/ (UNCHANGED n /\ (Pop \/ Shrink \/ Return))

MCSpec == MCInit /\ [][MCNext]_<<queueVars, n>>
=============================================================================
