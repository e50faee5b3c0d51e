---------------------------- MODULE MCEventLoop ----------------------------
(***************************************************************************)
(* EventLoop for TLC: the listening socket and two connections, whose      *)
(* descriptors and handles are used again.                                 *)
(***************************************************************************)
EXTENDS EventLoop

CONSTANTS c1, c2
=============================================================================
