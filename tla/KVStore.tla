------------------------------ MODULE KVStore ------------------------------
(***************************************************************************)
(* What a key-value store promises its caller, as an abstract              *)
(* specification: a map from keys to values, and for each call the value   *)
(* it returned.                                                            *)
(*                                                                         *)
(* README.md documents three requests: "1|mykey|myvalue|" writes a value,  *)
(* "2|mykey|" gets it and "3|mykey|" deletes it.  MapSpec is that promise: *)
(* a successful set makes the value the current one.  WriteOnceSpec is the *)
(* weaker promise that the first value set for a key stays until the key   *)
(* is deleted.  In both a call may fail, and then changes nothing; and a   *)
(* volatile database is empty when the process starts again.               *)
(***************************************************************************)

CONSTANTS Keys,     \* the keys a caller may use
          Vals,     \* the values a caller may store
          NULL,     \* "no value": an absent key, a get that returned nothing
          Volatile  \* TRUE when the contents end with the process

VARIABLES map,   \* [Keys -> Vals \cup {NULL}]
          call   \* the last call, its arguments and its return value

kvVars == <<map, call>>

Init == /\ map = [k \in Keys |-> NULL]
        /\ call = [op |-> "none"]

(***************************************************************************)
(* The calls.  A set or a remove returns 1 on success and 0 on failure, a  *)
(* get returns the value, or NULL for an absent key or a failure.          *)
(***************************************************************************)
Overwrite(k, v) ==
  /\ map' = [map EXCEPT ![k] = v]
  /\ call' = [op |-> "set", key |-> k, val |-> v, ret |-> 1]

KeepFirst(k, v) ==
  /\ map' = [map EXCEPT ![k] = IF @ = NULL THEN v ELSE @]
  /\ call' = [op |-> "set", key |-> k, val |-> v, ret |-> 1]

SetFails(k, v) ==
  /\ call' = [op |-> "set", key |-> k, val |-> v, ret |-> 0]
  /\ UNCHANGED map

Get(k) ==
  /\ call' \in {[op |-> "get", key |-> k, ret |-> r] : r \in {map[k], NULL}}
  /\ UNCHANGED map

Remove(k) ==
  /\ map' = [map EXCEPT ![k] = NULL]
  /\ call' = [op |-> "remove", key |-> k, ret |-> 1]

RemoveFails(k) ==
  /\ call' = [op |-> "remove", key |-> k, ret |-> 0]
  /\ UNCHANGED map

\* The process ends and starts again: a volatile store has lost its contents.
Restart ==
  /\ map' = IF Volatile THEN [k \in Keys |-> NULL] ELSE map
  /\ call' = [op |-> "none"]

Common(k) == Get(k) \/ Remove(k) \/ RemoveFails(k)

MapNext ==
  \/ \E k \in Keys : Common(k) \/ \E v \in Vals : Overwrite(k, v) \/ SetFails(k, v)
  \/ Restart

WriteOnceNext ==
  \/ \E k \in Keys : Common(k) \/ \E v \in Vals : KeepFirst(k, v) \/ SetFails(k, v)
  \/ Restart

MapSpec == Init /\ [][MapNext]_kvVars

WriteOnceSpec == Init /\ [][WriteOnceNext]_kvVars

=============================================================================
