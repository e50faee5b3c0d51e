----------------------------- MODULE MCStsQueue -----------------------------
(***************************************************************************)
(* StsQueue for TLC, with the threads of test_queue.c: main pushes, pops   *)
(* and may destroy, another thread pushes, task_manager pops for ever.     *)
(***************************************************************************)
EXTENDS StsQueue

CONSTANTS main, pusher, manager, v1, v2, n1, n2, n3
=============================================================================
