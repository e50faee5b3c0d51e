---------------------------- MODULE MCHashTable ----------------------------
(***************************************************************************)
(* HashTable for TLC: keys that collide at every capacity, and two that    *)
(* still collide in the last slot of the largest.                          *)
(***************************************************************************)
EXTENDS HashTable, TLC

CONSTANTS k1, k2, k3, v1, v2

MCHash == k1 :> 3 @@ k2 :> 7 @@ k3 :> 7
=============================================================================
