---------------------------- MODULE MCDiscIndex ----------------------------
(***************************************************************************)
(* DiscIndex for TLC: two keys and two values, any of which may be added   *)
(* again, with failures and restarts.  Keys and values are told apart by   *)
(* equality only, so that they may be exchanged.                           *)
(***************************************************************************)
EXTENDS DiscIndex, TLC

CONSTANTS k1, k2, v1, v2

Exchange == Permutations({k1, k2}) \cup Permutations({v1, v2})
=============================================================================
