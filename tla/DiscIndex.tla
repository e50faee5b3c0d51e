----------------------------- MODULE DiscIndex -----------------------------
(***************************************************************************)
(* disc_data/disc_index.c and disc_data.c: a map in memory (a hash table,  *)
(* ht.c) and a file of fixed-size records, one per key, that the map is    *)
(* loaded from at the start.  The two sources have the same functions over *)
(* another record; the names here are those of disc_index.c.               *)
(*                                                                         *)
(* An add changes the map, then the file; the process may end between the  *)
(* two.  With Faults ht_set may fail, and a write may reach the disk in    *)
(* part or not at all; the code checks neither.                            *)
(*                                                                         *)
(* The file is read in steps of one record.  An append that reached the    *)
(* disk in part leaves a tail shorter than a record; the next append goes  *)
(* behind it, so that the bytes of the tail and of the append make a whole *)
(* record, and again leaves a tail.                                        *)
(***************************************************************************)
EXTENDS Integers, Sequences, FiniteSetsExt

CONSTANTS Keys, Vals, NULL,
          Junk,        \* a key or a value that nobody added, made of parts
          MaxRecords,  \* bound on the length of the file
          Faults       \* whether ht_set and writes may fail

ASSUME DiscAssumption ==
  /\ NULL # Junk /\ {NULL, Junk} \cap (Keys \cup Vals) = {}
  /\ MaxRecords \in Nat /\ Faults \in BOOLEAN

VARIABLES file,     \* the whole records on disk
          torn,     \* whether a part of a record is behind them
          proc,     \* "off" or "on"
          idx_map,  \* key to value, NULL for none
          add,      \* the add between its two steps: key, value and record number
          got,      \* the last get since the last add, and what it returned
          last,     \* auxiliary: what was last added for a key, Junk if the write failed
          again,    \* auxiliary: keys added again since they came into the map
          lost,     \* auxiliary: whether ht_set ever failed
          mixed     \* auxiliary: whether a record was ever made of two appends

discVars == <<file, torn, proc, idx_map, add, got, last, again, lost, mixed>>

-----------------------------------------------------------------------------
\* Reading the file.

WithKey(k) == {n \in 1..Len(file) : file[n].key = k}

\* Mutant: the position after the record that was read.
idx_get_index_key_After(k) == IF WithKey(k) = {} THEN -1 ELSE Min(WithKey(k))

\* The first record with the key, from 0, or -1.
idx_get_index_key(k) == IF WithKey(k) = {} THEN -1 ELSE Min(WithKey(k)) - 1

\* What idx_init puts in the map: the last record of a key counts.
Loaded == [k \in Keys |-> IF WithKey(k) = {} THEN NULL ELSE file[Max(WithKey(k))].val]

\* Where ht_set fails for a record, an earlier one stays, or none.
Loads ==
  {Loaded} \cup
  (IF Faults THEN {[k \in Keys |-> IF n[k] = 0 THEN NULL ELSE file[n[k]].val] :
                     n \in {f \in [Keys -> 0..Len(file)] : \A k \in Keys : f[k] \in {0} \cup WithKey(k)}}
   ELSE {})

NoAdd == [key |-> NULL]

\* The files are opened and idx_init loads the map.
Start ==
  /\ proc = "off"
  /\ proc' = "on"
  /\ idx_map' \in Loads
  /\ lost' = (lost \/ idx_map' # Loaded)
  /\ UNCHANGED <<file, torn, add, got, last, again, mixed>>

-----------------------------------------------------------------------------
\* Adding.

InMap(k) == idx_map[k] # NULL

\* Mutant: the value is not copied, all entries point to the same one.
NewMap_Shared(k, v) ==
  IF InMap(k) THEN {idx_map} ELSE {[j \in Keys |-> IF j = k \/ InMap(j) THEN v ELSE NULL]}

\* ht_set of a new key; the map is left alone when the key is there.
NewMap(k, v) ==
  IF InMap(k) THEN {idx_map}
  ELSE {[idx_map EXCEPT ![k] = v]} \cup (IF Faults THEN {idx_map} ELSE {})

\* Mutant: every add appends.
WriteAt_End(k) == Len(file) + 1

\* The record that will be written: a new one at the end, or the first one of the
\* key.  When the search finds none, the seek to -1 fails and the file is where the
\* search stopped, at its end.
WriteAt(k) ==
  IF InMap(k) /\ idx_get_index_key(k) # -1 THEN idx_get_index_key(k) + 1 ELSE Len(file) + 1

\* idx_add_key_position up to the write.
Add(k, v) ==
  /\ proc = "on" /\ add = NoAdd
  /\ WriteAt(k) <= MaxRecords
  /\ add' = [key |-> k, val |-> v, at |-> WriteAt(k)]
  /\ idx_map' \in NewMap(k, v)
  /\ lost' = (lost \/ idx_map'[k] = NULL)
  /\ again' = IF InMap(k) THEN again \cup {k} ELSE again
  /\ got' = NoAdd
  /\ UNCHANGED <<file, torn, proc, last, mixed>>

\* Mutant: a new record goes over the last one.
Put_Over(rec, n) ==
  LET m == IF n > Len(file) /\ n > 1 THEN n - 1 ELSE n
  IN  [i \in 1..Max({Len(file), m}) |-> IF i = m THEN rec ELSE file[i]]

\* The file with the record at place n.
Put(rec, n) == [i \in 1..Max({Len(file), n}) |-> IF i = n THEN rec ELSE file[i]]

\* An append goes to the end of the file, which a tail has moved.
Behind == torn /\ add.at > Len(file)

\* What a tail and the bytes behind it may read as: the key of the tail where that is
\* whole, else any, with whatever is where the value should be.
Mixed == [key : Keys \cup {Junk}, val : Vals \cup {Junk}]

\* The bytes of an append complete the tail to a record.
Complete == mixed' = TRUE /\ \E rec \in Mixed : file' = Put(rec, add.at)

\* The whole record is written: to its place or, behind a tail, in two parts, of
\* which the second is the new tail.
Written ==
  IF Behind
  THEN Complete /\ UNCHANGED torn
  ELSE /\ file' = Put([key |-> add.key, val |-> add.val], add.at)
       /\ UNCHANGED <<torn, mixed>>

\* A part of it is: of a record that is there, the value may be old, new or spoilt.
WrittenInPart ==
  \/ /\ add.at <= Len(file)
     /\ \E v \in {add.val, Junk} : file' = Put([key |-> add.key, val |-> v], add.at)
     /\ UNCHANGED <<torn, mixed>>
  \/ add.at > Len(file) /\ torn' = TRUE /\ UNCHANGED <<file, mixed>>
  \/ Behind /\ Complete /\ torn' \in BOOLEAN

NotWritten == UNCHANGED <<file, torn, mixed>>

\* fwrite and fflush.
Write ==
  /\ proc = "on" /\ add # NoAdd
  /\ \/ Written /\ last' = [last EXCEPT ![add.key] = IF Behind THEN Junk ELSE add.val]
     \/ Faults /\ (WrittenInPart \/ NotWritten) /\ last' = [last EXCEPT ![add.key] = Junk]
  /\ add' = NoAdd
  /\ UNCHANGED <<proc, idx_map, got, again, lost>>

\* idx_get_key_pos looks in memory only.
Get(k) ==
  /\ proc = "on" /\ add = NoAdd
  /\ got' = [key |-> k, val |-> idx_map[k]]
  /\ UNCHANGED <<file, torn, proc, idx_map, add, last, again, lost, mixed>>

\* The process ends, between two calls or before the write of an add; a machine may
\* end in the middle of it.
Crash ==
  /\ proc = "on"
  /\ proc' = "off"
  /\ \/ NotWritten /\ UNCHANGED last
     \/ Faults /\ add # NoAdd /\ WrittenInPart /\ last' = [last EXCEPT ![add.key] = Junk]
  /\ idx_map' = [k \in Keys |-> NULL]
  /\ add' = NoAdd
  /\ got' = NoAdd
  /\ again' = {}
  /\ UNCHANGED lost

DiscInit ==
  /\ file = <<>> /\ torn = FALSE
  /\ proc = "off"
  /\ idx_map = [k \in Keys |-> NULL]
  /\ add = NoAdd
  /\ got = NoAdd
  /\ last = [k \in Keys |-> NULL]
  /\ again = {}
  /\ lost = FALSE /\ mixed = FALSE

DiscNext ==
  \/ Start \/ Write \/ Crash
  \/ \E k \in Keys : Get(k) \/ \E v \in Vals : Add(k, v)

DiscSpec == DiscInit /\ [][DiscNext]_discVars

-----------------------------------------------------------------------------
\* Wherever the process ended and whatever was not written, a key has one record,
\* which is what updating it in place needs: only a failed ht_set or an append behind
\* a torn record, which may make a record of any key, can make a second.
OneRecordPerKey == ~lost /\ ~mixed => \A k \in Keys : \A m, n \in WithKey(k) : m = n

\* What an add wrote is what the next start loads: neither the end of the process nor
\* a failed or torn write takes it away, until something is appended behind a torn
\* record.
FileIsDurable ==
  ~lost /\ ~mixed => \A k \in Keys : last[k] # Junk => Loaded[k] = last[k]

\* A failed write of a key, too, leaves its value before or a spoilt one, and never
\* the value of another add that was overtaken: only an add changes what the next
\* start loads, and only for its own key.  An append behind a torn record changes it
\* for one key, which may be another.
NothingComesBack ==
  [][\A k \in Keys : Loaded'[k] # Loaded[k] =>
       \/ add.key = k /\ Loaded'[k] \in {add.val, Junk}
       \/ Behind /\ \A j \in Keys \ {k} : Loaded'[j] = Loaded[j]]_discVars

\* "add position to mem and file": while nothing fails, memory and file know the
\* same keys between calls, and a get returns what was added last, but for a key
\* that was added again since it came into the map: it has its older value.
MemoryFollows ==
  (~lost /\ ~mixed /\ ~torn /\ proc = "on" /\ add = NoAdd) =>
    /\ \A k \in Keys : last[k] # Junk => (idx_map[k] = NULL) = (last[k] = NULL)
    /\ (got # NoAdd /\ got.key \notin again /\ last[got.key] # Junk) => got.val = last[got.key]
=============================================================================
