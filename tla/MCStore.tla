------------------------------ MODULE MCStore ------------------------------
(***************************************************************************)
(* Store for TLC: three keys, two values, every SQLite call free to fail.  *)
(***************************************************************************)
EXTENDS Store

CONSTANTS k1, k2, k3, v1, v2

MCKeys == {k1, k2, k3}
MCVals == {v1, v2}
=============================================================================
