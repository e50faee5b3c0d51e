----------------------------- MODULE HashTable -----------------------------
(***************************************************************************)
(* ht.c: a hash table with linear probing, the memory side of disc_data.   *)
(*                                                                         *)
(* ht_remove frees the copy of the key and leaves the pointer in its slot. *)
(* What such a slot holds from then on is undefined: a comparison with it  *)
(* may give either answer, its hash may be any, and freeing it again       *)
(* corrupts the heap.  So a loop over the slots has a set of indexes where *)
(* it may stop, and the functions have sets of outcomes.                   *)
(***************************************************************************)
EXTENDS Integers, FiniteSets

CONSTANTS Keys,            \* the strings used as keys
          Vals,            \* the pointers used as values
          NULL,            \* the NULL pointer
          Hash,            \* the value of hash_key for each key
          InitialCapacity, \* INITIAL_CAPACITY
          MaxCapacity,     \* bound: calloc refuses a larger array
          MaxFreed,        \* bound: slots whose key has been freed
          Faults           \* whether malloc, calloc and strdup may fail

ASSUME HtAssumption ==
  /\ \A k \in Keys : Hash[k] \in Nat
  /\ NULL \notin Keys \cup Vals
  /\ \E n \in 1..MaxCapacity : InitialCapacity = 2^n
  /\ InitialCapacity <= MaxCapacity
  /\ MaxCapacity \in Nat /\ MaxFreed \in Nat

VARIABLES table,     \* "none", "live", or "corrupt" after a double free
          capacity,  \* number of slots
          length,    \* the field of the same name
          entries,   \* the slots, from 0
          it,        \* the iterator in use: its index, and the keys it returned
          call       \* the last call, its arguments and its return value

htVars == <<table, capacity, length, entries, it, call>>

Empty == [key |-> NULL, value |-> NULL, mem |-> "none"]
Live(k, v) == [key |-> k, value |-> v, mem |-> "live"]

NoIterator == [index |-> 0, seen |-> {}]

-----------------------------------------------------------------------------
\* Probing.  An argument or a slot is "freed" when its key's memory is.

hash_key(k) == Hash[k]

\* hash & (capacity - 1), for a capacity that is a power of two.
FirstIndexes(a, cap) == IF a.mem = "freed" THEN 0..(cap - 1) ELSE {hash_key(a.key) % cap}

MayMatch(a, slot) == a.mem = "freed" \/ slot.mem = "freed" \/ slot.key = a.key
MayDiffer(a, slot) == a.mem = "freed" \/ slot.mem = "freed" \/ slot.key # a.key

\* The loop of ht_get, ht_set_entry and ht_remove: where it may stop, at an
\* empty slot or at one whose key compares equal.  It never ends when there is
\* no such index.
Probe(e, cap, a) ==
  {i \in 0..(cap - 1) :
     /\ e[i].mem = "none" \/ MayMatch(a, e[i])
     /\ \E h \in FirstIndexes(a, cap) :
          \A d \in 0..(((i - h) % cap) - 1) :
            e[(h + d) % cap].mem # "none" /\ MayDiffer(a, e[(h + d) % cap])}

\* The value of an empty slot is NULL.
ht_get(k) == {entries[i].value : i \in Probe(entries, capacity, Live(k, NULL))}

\* Mutant: the value of a key that is present is not replaced.
ht_set_entry_NoUpdate(e, cap, a) ==
  {IF e[i].mem = "none" THEN [e EXCEPT ![i] = a] ELSE e : i \in Probe(e, cap, a)}

\* ht_set_entry: fill the empty slot, or replace the value of the equal key.
ht_set_entry(e, cap, a) ==
  {[e EXCEPT ![i] = IF @.mem = "none" THEN a ELSE [@ EXCEPT !.value = a.value]]
     : i \in Probe(e, cap, a)}

\* Mutant: the array grows by one slot.
NewCapacity_PlusOne == capacity + 1

NewCapacity == capacity * 2

\* Mutant: the old slots are copied to the same places.
Moved_Verbatim ==
  {[i \in 0..(NewCapacity - 1) |-> IF i < capacity THEN entries[i] ELSE Empty]}

\* What the new array of ht_expand may be after all slots have been moved.
Moved ==
  LET upTo[n \in 0..capacity] ==
        IF n = 0 THEN {[i \in 0..(NewCapacity - 1) |-> Empty]}
        ELSE IF entries[n - 1].mem = "none" THEN upTo[n - 1]
        ELSE UNION {ht_set_entry(e, NewCapacity, entries[n - 1]) : e \in upTo[n - 1]}
  IN  upTo[capacity]

\* Mutant: the table grows only when more than half of it is used.
MustExpand_Late == length > capacity \div 2

MustExpand == length >= capacity \div 2

-----------------------------------------------------------------------------
State(e, cap, len, ret) == [entries |-> e, capacity |-> cap, length |-> len, ret |-> ret]

\* The arrays ht_set may go on with; ht_expand returns false on overflow or when
\* calloc fails.
Expanded ==
  IF ~MustExpand THEN {State(entries, capacity, length, 1)}
  ELSE (IF NewCapacity <= MaxCapacity
        THEN {State(e, NewCapacity, length, 1) : e \in Moved} ELSE {})
       \cup (IF Faults \/ NewCapacity > MaxCapacity
             THEN {State(entries, capacity, length, 0)} ELSE {})

\* The occupied slots, freed ones included.
Used(e) == {i \in DOMAIN e : e[i].mem # "none"}
Freed(e) == {i \in DOMAIN e : e[i].mem = "freed"}

\* ht_set: expand if half full, even if the key is there; then set the entry.
\* A strdup that fails leaves the expanded table.
ht_set(k, v) ==
  UNION {IF s.ret = 0 THEN {s}
         ELSE {State(e, s.capacity, s.length + Cardinality(Used(e) \ Used(s.entries)), 1)
                 : e \in ht_set_entry(s.entries, s.capacity, Live(k, v))}
              \cup {[s EXCEPT !.ret = 0]
                      : i \in {j \in Probe(s.entries, s.capacity, Live(k, v)) :
                                 Faults /\ s.entries[j].mem = "none"}}
         : s \in Expanded}

-----------------------------------------------------------------------------
HtInit ==
  /\ table = "none"
  /\ capacity = InitialCapacity
  /\ length = 0
  /\ entries = [i \in 0..(InitialCapacity - 1) |-> Empty]
  /\ it = NoIterator
  /\ call = [op |-> "none"]

\* ht_create; NULL is returned when an allocation fails.
Create ==
  /\ table = "none"
  /\ table' = "live"
  /\ capacity' = InitialCapacity
  /\ length' = 0
  /\ entries' = [i \in 0..(InitialCapacity - 1) |-> Empty]
  /\ it' = NoIterator
  /\ call' = [op |-> "none"]

\* "Don't call ht_set during iteration": the iterator is given up.
Set(k, v) ==
  /\ table = "live"
  /\ \E s \in ht_set(k, v) :
       /\ entries' = s.entries
       /\ capacity' = s.capacity
       /\ length' = s.length
       /\ call' = [op |-> "set", key |-> k, val |-> v, ret |-> s.ret]
  /\ it' = NoIterator
  /\ UNCHANGED table

Get(k) ==
  /\ table = "live"
  /\ \E v \in ht_get(k) : call' = [op |-> "get", key |-> k, ret |-> v]
  /\ UNCHANGED <<table, capacity, length, entries, it>>

\* ht_remove frees the key's copy, and neither empties the slot nor counts down.
Remove(k) ==
  /\ table = "live"
  /\ \E i \in Probe(entries, capacity, Live(k, NULL)) :
       /\ entries[i].mem = "live" => Cardinality(Freed(entries)) < MaxFreed
       /\ table' = IF entries[i].mem = "freed" THEN "corrupt" ELSE "live"
       /\ entries' = IF entries[i].mem = "none" THEN entries
                     ELSE [entries EXCEPT ![i].mem = "freed"]
  /\ call' = [op |-> "remove", key |-> k, ret |-> 1]
  /\ UNCHANGED <<capacity, length, it>>

\* Mutant: the iteration ends after length slots.
ht_next_ByLength == {i \in Used(entries) : i >= it.index /\ i < length}

\* The occupied slots the iterator has not passed.
ht_next == {i \in Used(entries) : i >= it.index}

\* ht_next moves to the first of them, or to the end.
Next(n) ==
  /\ table = "live"
  /\ it.index < capacity
  /\ n = IF ht_next = {} THEN capacity ELSE CHOOSE i \in ht_next : \A j \in ht_next : i <= j
  /\ it' = [index |-> IF n = capacity THEN n ELSE n + 1,
            seen |-> IF n = capacity THEN it.seen ELSE it.seen \cup {entries[n].key}]
  /\ UNCHANGED <<table, capacity, length, entries, call>>

\* ht_iterator, for another iteration.
Iterate ==
  /\ table = "live"
  /\ it' = NoIterator
  /\ UNCHANGED <<table, capacity, length, entries, call>>

\* ht_destroy frees the key of every slot that has one.
Destroy ==
  /\ table = "live"
  /\ table' = IF Freed(entries) # {} THEN "corrupt" ELSE "none"
  /\ entries' = [i \in DOMAIN entries |-> Empty]
  /\ call' = [op |-> "none"]
  /\ length' = 0
  /\ it' = NoIterator
  /\ UNCHANGED capacity

HtNext ==
  \/ Create \/ Destroy \/ Iterate
  \/ \E n \in 0..capacity : Next(n)
  \/ \E k \in Keys : Get(k) \/ Remove(k) \/ \E v \in Vals : Set(k, v)

HtSpec == HtInit /\ [][HtNext]_htVars

-----------------------------------------------------------------------------
\* Nothing has been removed from the table.
Clean(e) == Freed(e) = {}

\* The types; the capacity stays a power of two, as the masking of hashes at
\* ht.c:86 needs, whatever expansions succeeded or failed.
HtTypeOK ==
  /\ table \in {"none", "live", "corrupt"}
  /\ \E n \in 1..MaxCapacity : capacity = 2^n
  /\ capacity <= MaxCapacity
  /\ length \in 0..capacity
  /\ entries \in [0..(capacity - 1) -> {Empty} \cup [key : Keys, value : Vals, mem : {"live", "freed"}]]
  /\ it.index \in 0..capacity /\ it.seen \subseteq Keys

\* length never undercounts the slots in use, and at most half of them are, after
\* any sequence of sets, failed expansions and removals (moving a freed key may
\* merge two slots): every probing loop of ht.c meets an empty slot and ends.
RoomToProbe ==
  /\ Cardinality(Used(entries)) <= length
  /\ length <= capacity \div 2

\* Whichever slots collisions, wrap-around and expansions put the keys in, a key
\* that is in the table is in one slot and probing finds that slot.
KeysAreFound ==
  Clean(entries) =>
    \A i \in Used(entries) : Probe(entries, capacity, Live(entries[i].key, NULL)) = {i}

\* An iteration that has come to its end has returned every key.
IterationIsComplete ==
  (it.index = capacity /\ table = "live") => it.seen = {entries[i].key : i \in Used(entries)}

\* The table as a map from keys to values.
MapOf(e) == [k \in Keys |-> IF \E i \in Used(e) : e[i].key = k
                            THEN e[CHOOSE i \in Used(e) : e[i].key = k].value ELSE NULL]

KV == INSTANCE KVStore WITH map <- MapOf(entries), Volatile <- TRUE

\* While nothing has been removed, every call does what the abstract map does:
\* ht_set that returns a key makes the value current, one that returns NULL
\* changes nothing though it may have moved every slot, and ht_get returns the
\* current value.
ActsAsMap ==
  [][(Clean(entries) /\ Clean(entries')) =>
        /\ KV!MapNext
        /\ call'.op = "get" => call'.ret = MapOf(entries)[call'.key]]_<<MapOf(entries), call>>

=============================================================================
