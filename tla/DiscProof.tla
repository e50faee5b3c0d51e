----------------------------- MODULE DiscProof -----------------------------
(***************************************************************************)
(* Theorems about DiscIndex for any keys, values and number of records,    *)
(* with and without faults.                                                *)
(*                                                                         *)
(* That a key has one record is not kept by itself: it rests on the map,   *)
(* which decides whether an add appends.  The invariant therefore ties the *)
(* map to the file (what the map does not know has no record, between the  *)
(* two steps of an add too) and to what was added.                         *)
(***************************************************************************)
EXTENDS DiscIndex, FiniteSetTheorems, SequenceTheorems, TLAPS

\* The records of a file, and the adds between their steps.
Recs == [key : Keys \cup {Junk}, val : Vals \cup {Junk}]
Adds == [key : Keys, val : Vals, at : Nat \ {0}]

\* The values of the variables.
DiscTypes ==
  /\ file \in Seq(Recs) /\ torn \in BOOLEAN /\ proc \in {"off", "on"}
  /\ idx_map \in [Keys -> Vals \cup {Junk, NULL}]
  /\ add \in Adds \cup {NoAdd}
  /\ got \in [key : Keys, val : Vals \cup {Junk, NULL}] \cup {NoAdd}
  /\ last \in [Keys -> Vals \cup {Junk, NULL}]
  /\ again \subseteq Keys /\ lost \in BOOLEAN /\ mixed \in BOOLEAN

\* An add between its steps: it will overwrite a record of its key or append one.
Pending ==
  add # NoAdd =>
    /\ proc = "on" /\ got = NoAdd
    /\ add.at <= Len(file) + 1
    /\ add.at <= Len(file) => file[add.at].key = add.key

\* A process that is off remembers no get and no repeated add.
Idle == proc = "off" => got = NoAdd /\ again = {}

\* While no entry of the map was lost, the map knows every key of the file.
MapKnowsFile ==
  /\ proc = "on" => \A k \in Keys : idx_map[k] = NULL => WithKey(k) = {}
  /\ add # NoAdd => /\ InMap(add.key)
                    /\ add.at > Len(file) => WithKey(add.key) = {}

\* It follows what was added, but for the key of the add between its steps.
MapIsCurrent ==
  /\ (proc = "on" /\ ~torn) =>
       \A k \in Keys : (k # add.key /\ last[k] # Junk) =>
         /\ (idx_map[k] = NULL) = (last[k] = NULL)
         /\ k \notin again => idx_map[k] = last[k]
  /\ (add # NoAdd /\ add.key \notin again) => idx_map[add.key] = add.val
  /\ got # NoAdd => got.val = idx_map[got.key]

\* The inductive invariant: once ht_set failed, or a record was made of two appends,
\* only the types and places remain.
DiscInv ==
  /\ DiscTypes /\ Pending /\ Idle
  /\ ~lost /\ ~mixed => OneRecordPerKey /\ FileIsDurable /\ MapKnowsFile /\ MapIsCurrent

-----------------------------------------------------------------------------
\* Minima and maxima.

\* A set of naturals that is not empty has a least member.
LEMMA LeastNat ==
  ASSUME NEW S \in SUBSET Nat, S # {}
  PROVE  \E m \in S : \A k \in S : m <= k
<1> DEFINE R == {ss \in Nat \X Nat : ss[1] < ss[2]}
<1>1. IsWellFoundedOn(R, Nat)
  BY NatLessThanWellFounded DEF OpToRel
<1>2. \E x \in S : \A y \in S : ~(<<y, x>> \in R)
  <2> HIDE DEF R
  <2> QED BY <1>1, WFMin
<1>3. \A x, y \in Nat : ~(<<y, x>> \in R) => x <= y
  OBVIOUS
<1> QED BY <1>2, <1>3

\* The least and the greatest member of a set of record numbers.
LEMMA MinIs ==
  ASSUME NEW n \in Nat, NEW S \in SUBSET (1..n), S # {}
  PROVE  Min(S) \in S /\ \A y \in S : Min(S) <= y
<1>1. S \in SUBSET Nat
  OBVIOUS
<1> QED BY <1>1, LeastNat DEF Min

LEMMA MaxIs ==
  ASSUME NEW n \in Nat, NEW S \in SUBSET (1..n), S # {}
  PROVE  Max(S) \in S /\ \A y \in S : Max(S) >= y
<1> DEFINE T == {m \in Nat : \E x \in S : m = n - x}
<1>1. PICK x \in S : TRUE
  OBVIOUS
<1>2. n - x \in T
  BY <1>1
<1>3. PICK m \in T : \A k \in T : m <= k
  <2>1. T \in SUBSET Nat /\ T # {}
    BY <1>2
  <2> HIDE DEF T
  <2> QED BY <2>1, LeastNat
<1>4. PICK z \in S : m = n - z
  BY <1>3
<1>5. \A y \in S : z >= y
  <2> TAKE y \in S
  <2>1. n - y \in T
    OBVIOUS
  <2>2. n - z <= n - y
    BY <2>1, <1>3, <1>4
  <2>3. y \in Int /\ z \in Int
    OBVIOUS
  <2> QED BY <2>2, <2>3
<1> QED BY <1>5 DEF Max

\* The greater of two.
LEMMA MaxOfTwo ==
  ASSUME NEW a \in Int, NEW b \in Int
  PROVE  Max({a, b}) = IF a >= b THEN a ELSE b
<1> DEFINE m == IF a >= b THEN a ELSE b
<1>1. m \in {a, b} /\ \A y \in {a, b} : m >= y
  OBVIOUS
<1>2. \A x \in {a, b} : (\A y \in {a, b} : x >= y) => x = m
  OBVIOUS
<1> QED BY <1>1, <1>2 DEF Max

-----------------------------------------------------------------------------
\* The file.

\* The records of the file and the places of a key's records.
LEMMA FileFacts ==
  ASSUME DiscTypes
  PROVE  /\ Len(file) \in Nat
         /\ \A i \in 1..Len(file) : file[i] \in Recs
         /\ \A k : WithKey(k) \in SUBSET (1..Len(file))
  BY ElementOfSeq, LenProperties DEF DiscTypes, WithKey

\* A record goes over another or to the end.
LEMMA PutIs ==
  ASSUME DiscTypes, NEW rec \in Recs, NEW n \in 1..(Len(file) + 1)
  PROVE  /\ Put(rec, n) \in Seq(Recs)
         /\ Len(Put(rec, n)) = (IF n > Len(file) THEN n ELSE Len(file))
         /\ Put(rec, n)[n] = rec
         /\ \A i \in 1..Len(file) : i # n => Put(rec, n)[i] = file[i]
<1> DEFINE m == IF n > Len(file) THEN n ELSE Len(file)
           f == [i \in 1..m |-> IF i = n THEN rec ELSE file[i]]
<1>1. Len(file) \in Nat /\ \A i \in 1..Len(file) : file[i] \in Recs
  BY FileFacts
<1>2. Max({Len(file), n}) = m
  BY <1>1, MaxOfTwo
<1>3. Put(rec, n) = f
  BY <1>2 DEF Put
<1>4. m \in Nat /\ \A i \in 1..m : i = n \/ i \in 1..Len(file)
  BY <1>1
<1>5. f \in [1..m -> Recs]
  BY <1>1, <1>4
<1>6. f \in Seq(Recs)
  BY <1>4, <1>5, SeqDef
<1>7. Len(f) = m
  BY <1>4, <1>6, LenProperties
<1>8. f[n] = rec /\ \A i \in 1..Len(file) : i # n => f[i] = file[i]
  BY <1>1
<1> HIDE DEF f, m
<1> QED BY <1>3, <1>6, <1>7, <1>8 DEF m

\* What is loaded for a key: nothing exactly when it has no record.
LEMMA LoadedIs ==
  ASSUME DiscTypes, NEW k \in Keys
  PROVE  /\ Loaded[k] = (IF WithKey(k) = {} THEN NULL ELSE file[Max(WithKey(k))].val)
         /\ Loaded[k] \in Vals \cup {Junk, NULL}
         /\ (Loaded[k] = NULL) = (WithKey(k) = {})
<1>1. Loaded[k] = (IF WithKey(k) = {} THEN NULL ELSE file[Max(WithKey(k))].val)
  BY DEF Loaded
<1>2. WithKey(k) # {} => file[Max(WithKey(k))] \in Recs
  BY FileFacts, MaxIs
<1> QED BY <1>1, <1>2, DiscAssumption DEF Recs

\* A record of its key is overwritten: no key loses or gains a record.
LEMMA Overwritten ==
  ASSUME DiscTypes, DiscTypes', Pending, add # NoAdd, add.at <= Len(file),
         NEW rec \in Recs, rec.key = add.key, file' = Put(rec, add.at)
  PROVE  /\ Len(file') = Len(file) /\ file'[add.at] = rec /\ add.at \in WithKey(add.key)
         /\ \A i \in 1..Len(file) : i # add.at => file'[i] = file[i]
         /\ \A k : WithKey(k)' = WithKey(k)
         /\ \A k \in Keys : Loaded'[k] = Loaded[k] \/ (k = add.key /\ Loaded'[k] = rec.val)
         /\ (\A n \in WithKey(add.key) : n = add.at) => Loaded'[add.key] = rec.val
<1>1. add \in Adds /\ Len(file) \in Nat /\ add.at \in 1..Len(file) /\ file[add.at].key = add.key
  BY FileFacts DEF DiscTypes, Pending, Adds
<1>2. /\ Len(file') = Len(file) /\ file'[add.at] = rec
      /\ \A i \in 1..Len(file) : i # add.at => file'[i] = file[i]
  BY <1>1, PutIs
<1>3. \A k : WithKey(k)' = WithKey(k)
  BY <1>1, <1>2 DEF WithKey
<1>4. ASSUME NEW k \in Keys
      PROVE  Loaded'[k] = Loaded[k] \/ (k = add.key /\ Loaded'[k] = rec.val)
  <2>1. Loaded'[k] = IF WithKey(k) = {} THEN NULL ELSE file'[Max(WithKey(k))].val
    BY <1>3 DEF Loaded
  <2>2. WithKey(k) # {} => Max(WithKey(k)) \in WithKey(k) /\ Max(WithKey(k)) \in 1..Len(file)
    BY FileFacts, MaxIs
  <2>3. CASE WithKey(k) # {} /\ Max(WithKey(k)) = add.at
    <3>1. k = add.key
      BY <2>2, <2>3, <1>1 DEF WithKey
    <3> QED BY <2>1, <2>3, <3>1, <1>2
  <2>4. CASE WithKey(k) = {} \/ Max(WithKey(k)) # add.at
    BY <2>1, <2>2, <2>4, <1>2, LoadedIs
  <2> QED BY <2>3, <2>4
<1>5. ASSUME \A n \in WithKey(add.key) : n = add.at PROVE Loaded'[add.key] = rec.val
  <2> PICK k \in Keys : k = add.key
    BY <1>1 DEF Adds
  <2>1. add.at \in WithKey(k)
    BY <1>1 DEF WithKey
  <2>2. WithKey(k) # {} /\ Max(WithKey(k)) = add.at
    BY <2>1, <1>5, FileFacts, MaxIs
  <2>3. Loaded'[k] = IF WithKey(k)' = {} THEN NULL ELSE file'[Max(WithKey(k)')].val
    BY DEF Loaded
  <2>4. WithKey(k)' = WithKey(k)
    BY <1>3
  <2> QED BY <2>2, <2>3, <2>4, <1>2
<1> QED BY <1>1, <1>2, <1>3, <1>4, <1>5 DEF WithKey

\* A record is appended: its key has one more, and it is the one that counts.
LEMMA Appended ==
  ASSUME DiscTypes, DiscTypes', Pending, add # NoAdd, add.at > Len(file),
         NEW rec \in Recs, file' = Put(rec, add.at)
  PROVE  /\ Len(file') = Len(file) + 1 /\ file'[add.at] = rec /\ add.at = Len(file) + 1
         /\ \A i \in 1..Len(file) : file'[i] = file[i]
         /\ \A k : WithKey(k)' = WithKey(k) \cup (IF k = rec.key THEN {add.at} ELSE {})
         /\ \A k \in Keys : Loaded'[k] = IF k = rec.key THEN rec.val ELSE Loaded[k]
<1>1. add \in Adds /\ Len(file) \in Nat /\ add.at = Len(file) + 1
  BY FileFacts DEF DiscTypes, Pending, Adds
<1>2. /\ Len(file') = Len(file) + 1 /\ file'[add.at] = rec
      /\ \A i \in 1..Len(file) : file'[i] = file[i]
  BY <1>1, PutIs
<1>3. \A k : WithKey(k)' = WithKey(k) \cup (IF k = rec.key THEN {add.at} ELSE {})
  BY <1>1, <1>2 DEF WithKey
<1>4. ASSUME NEW k, k = rec.key PROVE Max(WithKey(k)') = add.at
  <2>1. add.at \in WithKey(k)' /\ \A y \in WithKey(k)' : y \in Int /\ y <= add.at
    BY <1>1, <1>3, <1>4, FileFacts
  <2>2. \A x \in WithKey(k)' : (\A y \in WithKey(k)' : x >= y) => x = add.at
    BY <2>1
  <2>3. \A y \in WithKey(k)' : add.at >= y
    BY <2>1, <1>1
  <2> QED BY <2>1, <2>2, <2>3 DEF Max
<1>5. ASSUME NEW k \in Keys
      PROVE  Loaded'[k] = IF k = rec.key THEN rec.val ELSE Loaded[k]
  <2>1. Loaded'[k] = IF WithKey(k)' = {} THEN NULL ELSE file'[Max(WithKey(k)')].val
    BY DEF Loaded
  <2>2. CASE k = rec.key
    <3>1. Max(WithKey(k)') = add.at /\ WithKey(k)' # {}
      BY <2>2, <1>3, <1>4
    <3> QED BY <2>1, <2>2, <3>1, <1>2
  <2>3. CASE k # rec.key
    <3>1. WithKey(k)' = WithKey(k)
      BY <2>3, <1>3
    <3>2. WithKey(k) # {} => Max(WithKey(k)) \in 1..Len(file)
      BY FileFacts, MaxIs
    <3> QED BY <2>1, <2>3, <3>1, <3>2, <1>2, LoadedIs
  <2> QED BY <2>2, <2>3
<1> QED BY <1>1, <1>2, <1>3, <1>5

-----------------------------------------------------------------------------
\* The steps.

\* An empty file and no process.
LEMMA InvAtInit == DiscInit => DiscInv
<1> SUFFICES ASSUME DiscInit PROVE DiscInv
  OBVIOUS
<1>1. DiscTypes
  BY EmptySeq DEF DiscInit, DiscTypes
<1>2. \A k : WithKey(k) = {}
  BY DEF DiscInit, WithKey
<1>3. OneRecordPerKey /\ FileIsDurable
  BY <1>2 DEF DiscInit, OneRecordPerKey, FileIsDurable, Loaded
<1> QED BY <1>1, <1>2, <1>3 DEF DiscInit, DiscInv, Pending, Idle, MapKnowsFile, MapIsCurrent

\* idx_init makes the map what the file says, or an entry is lost.
LEMMA StartKeeps == DiscInv /\ Start => DiscInv'
<1> SUFFICES ASSUME DiscInv, Start PROVE DiscInv'
  OBVIOUS
<1>1. /\ DiscTypes /\ Pending /\ Idle
      /\ proc = "off" /\ proc' = "on" /\ idx_map' \in Loads /\ lost' = (lost \/ idx_map' # Loaded)
      /\ UNCHANGED <<file, torn, add, got, last, again, mixed>>
  BY DEF DiscInv, Start
<1>2. Loaded \in [Keys -> Vals \cup {Junk, NULL}]
  <2>1. Loaded = [k \in Keys |-> Loaded[k]]
    BY DEF Loaded
  <2> QED BY <2>1, <1>1, LoadedIs
<1>3. idx_map' \in [Keys -> Vals \cup {Junk, NULL}]
  <2>1. CASE idx_map' = Loaded
    BY <2>1, <1>2
  <2>2. CASE idx_map' # Loaded
    <3>1. PICK n \in [Keys -> 0..Len(file)] :
            /\ \A k \in Keys : n[k] \in {0} \cup WithKey(k)
            /\ idx_map' = [k \in Keys |-> IF n[k] = 0 THEN NULL ELSE file[n[k]].val]
      BY <1>1, <2>2 DEF Loads
    <3>2. \A k \in Keys : n[k] # 0 => file[n[k]] \in Recs
      BY <1>1, FileFacts
    <3> QED BY <3>1, <3>2 DEF Recs
  <2> QED BY <2>1, <2>2
<1>4. DiscTypes'
  BY <1>1, <1>3 DEF DiscTypes
<1>5. add = NoAdd /\ got = NoAdd /\ again = {}
  BY <1>1 DEF Pending, Idle
<1>6. ASSUME ~lost', ~mixed' PROVE (OneRecordPerKey /\ FileIsDurable /\ MapKnowsFile /\ MapIsCurrent)'
  <2>1. ~lost /\ ~mixed /\ idx_map' = Loaded /\ OneRecordPerKey /\ FileIsDurable
    BY <1>1, <1>6 DEF DiscInv, DiscTypes
  <2>2. Loaded' = Loaded /\ \A k : WithKey(k)' = WithKey(k)
    BY <1>1 DEF Loaded, WithKey
  <2>3. OneRecordPerKey' /\ FileIsDurable'
    BY <1>1, <1>6, <2>1, <2>2 DEF OneRecordPerKey, FileIsDurable
  <2>4. MapKnowsFile'
    BY <1>1, <1>5, <2>1, <2>2, LoadedIs DEF MapKnowsFile
  <2>5. MapIsCurrent'
    BY <1>1, <1>5, <2>1, <2>2, LoadedIs DEF MapIsCurrent, FileIsDurable
  <2> QED BY <2>3, <2>4, <2>5
<1> QED BY <1>1, <1>4, <1>5, <1>6 DEF DiscInv, Pending, Idle

\* Where the record of an add will go.
LEMMA PlaceIs ==
  ASSUME DiscTypes, NEW k \in Keys
  PROVE  /\ WriteAt(k) \in 1..(Len(file) + 1)
         /\ WriteAt(k) <= Len(file) => file[WriteAt(k)].key = k
         /\ WriteAt(k) > Len(file) /\ InMap(k) => WithKey(k) = {}
<1>1. Len(file) \in Nat /\ WithKey(k) \in SUBSET (1..Len(file))
  BY FileFacts
<1>2. WithKey(k) # {} => Min(WithKey(k)) \in WithKey(k)
  BY <1>1, MinIs
<1>3. CASE InMap(k) /\ WithKey(k) # {}
  <2>1. Min(WithKey(k)) \in 1..Len(file) /\ file[Min(WithKey(k))].key = k
    BY <1>1, <1>2, <1>3 DEF WithKey
  <2>2. WriteAt(k) = Min(WithKey(k))
    BY <2>1, <1>3 DEF WriteAt, idx_get_index_key
  <2> QED BY <2>1, <2>2, <1>1
<1>4. CASE ~(InMap(k) /\ WithKey(k) # {})
  <2>1. WriteAt(k) = Len(file) + 1
    BY <1>4 DEF WriteAt, idx_get_index_key
  <2> QED BY <2>1, <1>1, <1>4
<1> QED BY <1>3, <1>4

\* The first step of an add: the map knows the key before the file has its record.
LEMMA AddKeeps ==
  ASSUME DiscInv, NEW k \in Keys, NEW v \in Vals, Add(k, v)
  PROVE  DiscInv'
<1>1. /\ DiscTypes /\ Pending /\ Idle
      /\ proc = "on" /\ add = NoAdd /\ add' = [key |-> k, val |-> v, at |-> WriteAt(k)]
      /\ idx_map' \in NewMap(k, v) /\ lost' = (lost \/ idx_map'[k] = NULL)
      /\ again' = (IF InMap(k) THEN again \cup {k} ELSE again) /\ got' = NoAdd
      /\ UNCHANGED <<file, torn, proc, last, mixed>>
  BY DEF DiscInv, Add
<1>2. idx_map' \in [Keys -> Vals \cup {Junk, NULL}] /\ \A j \in Keys : j # k => idx_map'[j] = idx_map[j]
  BY <1>1 DEF NewMap, DiscTypes
<1>3. add' \in Adds /\ add' # NoAdd
  <2>1. WriteAt(k) \in Nat \ {0}
    BY <1>1, PlaceIs, FileFacts
  <2>2. add' \in Adds
    BY <1>1, <2>1 DEF Adds
  <2>3. add'.key # NULL /\ NoAdd.key = NULL
    BY <1>1, DiscAssumption DEF NoAdd
  <2> QED BY <2>2, <2>3
<1>4. DiscTypes'
  BY <1>1, <1>2, <1>3 DEF DiscTypes
<1>5. Pending'
  BY <1>1, PlaceIs, FileFacts DEF Pending
<1>6. Idle'
  BY <1>1 DEF Idle
<1>7. ASSUME ~lost', ~mixed' PROVE (OneRecordPerKey /\ FileIsDurable /\ MapKnowsFile /\ MapIsCurrent)'
  <2>1. ~lost /\ ~mixed /\ OneRecordPerKey /\ FileIsDurable /\ MapKnowsFile /\ MapIsCurrent
    BY <1>1, <1>7 DEF DiscInv, DiscTypes
  <2>2. Loaded' = Loaded /\ \A j : WithKey(j)' = WithKey(j)
    BY <1>1 DEF Loaded, WithKey
  <2>3. OneRecordPerKey' /\ FileIsDurable'
    BY <1>1, <1>7, <2>1, <2>2 DEF OneRecordPerKey, FileIsDurable
  <2>4. idx_map' = (IF InMap(k) THEN idx_map ELSE [idx_map EXCEPT ![k] = v]) /\ idx_map'[k] # NULL
    BY <1>1, <1>7 DEF NewMap, InMap, DiscTypes
  <2>5. add'.key = k /\ add'.at = WriteAt(k) /\ add'.val = v
    BY <1>1
  <2>6. ~InMap(k) => WithKey(k) = {}
    BY <1>1, <2>1 DEF MapKnowsFile, InMap
  <2>7. MapKnowsFile'
    <3>1. \A j \in Keys : idx_map'[j] = NULL => WithKey(j)' = {}
      BY <1>1, <1>2, <2>1, <2>2, <2>4 DEF MapKnowsFile
    <3>2. InMap(add.key)'
      BY <2>4, <2>5 DEF InMap
    <3>3. add'.at > Len(file') => WithKey(k)' = {}
      BY <1>1, <2>2, <2>5, <2>6, PlaceIs
    <3>4. WithKey(add.key)' = WithKey(k)'
      BY <2>5 DEF WithKey
    <3> QED BY <3>1, <3>2, <3>3, <3>4 DEF MapKnowsFile
  <2>8. MapIsCurrent'
    <3>1. k \notin again' => idx_map'[k] = v
      BY <1>1, <2>4 DEF DiscTypes
    <3>2. NoAdd.key = NULL /\ \A j \in Keys : j # NULL
      BY DiscAssumption DEF NoAdd
    <3> QED BY <1>1, <1>2, <2>1, <2>5, <3>1, <3>2 DEF MapIsCurrent
  <2> QED BY <2>3, <2>7, <2>8
<1> QED BY <1>4, <1>5, <1>6, <1>7 DEF DiscInv

\* A get remembers what the map says.
LEMMA GetKeeps ==
  ASSUME DiscInv, NEW k \in Keys, Get(k)
  PROVE  DiscInv'
<1>1. DiscTypes /\ Pending /\ Idle /\ proc = "on" /\ add = NoAdd /\ got' = [key |-> k, val |-> idx_map[k]]
      /\ UNCHANGED <<file, torn, proc, idx_map, add, last, again, lost, mixed>>
  BY DEF DiscInv, Get
<1>2. DiscTypes' /\ Pending' /\ Idle'
  BY <1>1 DEF DiscTypes, Pending, Idle
<1>3. Loaded' = Loaded /\ \A j : WithKey(j)' = WithKey(j)
  BY <1>1 DEF Loaded, WithKey
<1> QED BY <1>1, <1>2, <1>3
  DEF DiscInv, OneRecordPerKey, FileIsDurable, MapKnowsFile, MapIsCurrent

\* A record made of two appends is a record.
LEMMA CompleteIs == Complete => mixed' = TRUE /\ \E rec \in Recs : file' = Put(rec, add.at)
  BY DEF Complete, Mixed, Recs

\* A write leaves a file of records; what is torn stays so unless it was completed.
LEMMA WriteTypes ==
  ASSUME DiscTypes, Pending, add # NoAdd, Written \/ WrittenInPart \/ NotWritten
  PROVE  /\ file' \in Seq(Recs) /\ torn' \in BOOLEAN /\ mixed' \in BOOLEAN
         /\ (torn => torn' \/ mixed') /\ (mixed => mixed')
<1>1. /\ add \in Adds /\ file \in Seq(Recs) /\ torn \in BOOLEAN /\ mixed \in BOOLEAN
      /\ add.at \in 1..(Len(file) + 1)
  BY FileFacts DEF DiscTypes, Pending, Adds
<1>2. ASSUME NEW rec \in Recs PROVE Put(rec, add.at) \in Seq(Recs)
  BY <1>1, PutIs
<1>3. CASE Written
  <2>1. [key |-> add.key, val |-> add.val] \in Recs
    BY <1>1 DEF Recs, Adds
  <2> QED BY <1>1, <1>2, <1>3, <2>1, CompleteIs DEF Written
<1>4. CASE WrittenInPart
  <2>1. \A v \in {add.val, Junk} : [key |-> add.key, val |-> v] \in Recs
    BY <1>1 DEF Recs, Adds
  <2> QED BY <1>1, <1>2, <1>4, <2>1, CompleteIs DEF WrittenInPart
<1>5. CASE NotWritten
  BY <1>1, <1>5 DEF NotWritten
<1> QED BY <1>3, <1>4, <1>5

\* What the write of an add does to the file: nothing, a record of its key in place or
\* at the end, or a record of any key where a tail is completed.
LEMMA WriteIs ==
  ASSUME DiscTypes, Pending, add # NoAdd, Written \/ WrittenInPart \/ NotWritten
  PROVE  \/ UNCHANGED file /\ ~Written
         \/ /\ add.at <= Len(file)
            /\ \E rec \in Recs : /\ file' = Put(rec, add.at) /\ rec.key = add.key
                                 /\ rec.val \in {add.val, Junk}
                                 /\ Written => rec.val = add.val
         \/ /\ add.at > Len(file) /\ ~Behind /\ Written
            /\ file' = Put([key |-> add.key, val |-> add.val], add.at)
         \/ Behind /\ mixed' = TRUE /\ \E rec \in Recs : file' = Put(rec, add.at)
<1>1. add \in Adds /\ add.at \in 1..(Len(file) + 1) /\ Len(file) \in Nat
  BY FileFacts DEF DiscTypes, Pending, Adds
<1>2. \A v \in {add.val, Junk} : [key |-> add.key, val |-> v] \in Recs
  BY <1>1 DEF Recs, Adds
<1>3. CASE Written
  <2>1. CASE Behind
    BY <1>3, <2>1, CompleteIs DEF Written
  <2>2. CASE ~Behind
    <3>1. file' = Put([key |-> add.key, val |-> add.val], add.at)
      BY <1>3, <2>2 DEF Written
    <3>2. CASE add.at <= Len(file)
      <4> DEFINE rec == [key |-> add.key, val |-> add.val]
      <4>1. rec \in Recs /\ rec.key = add.key /\ rec.val = add.val
        BY <1>2
      <4> HIDE DEF rec
      <4>2. file' = Put(rec, add.at)
        BY <3>1 DEF rec
      <4> QED BY <3>2, <4>1, <4>2
    <3>3. CASE add.at > Len(file)
      BY <1>3, <2>2, <3>1, <3>3
    <3>4. add.at <= Len(file) \/ add.at > Len(file)
      BY <1>1
    <3> QED BY <3>2, <3>3, <3>4
  <2> QED BY <2>1, <2>2
<1>4. CASE WrittenInPart /\ ~Written
  <2>1. CASE add.at > Len(file)
    BY <1>1, <1>4, <2>1, CompleteIs DEF WrittenInPart
  <2>2. CASE ~(add.at > Len(file))
    <3>1. PICK v \in {add.val, Junk} : file' = Put([key |-> add.key, val |-> v], add.at)
      BY <1>4, <2>2 DEF WrittenInPart, Behind
    <3> DEFINE rec == [key |-> add.key, val |-> v]
    <3>2. rec \in Recs /\ rec.key = add.key /\ rec.val = v
      BY <1>2
    <3> HIDE DEF rec
    <3>3. file' = Put(rec, add.at)
      BY <3>1 DEF rec
    <3>4. add.at <= Len(file)
      BY <1>1, <2>2
    <3> QED BY <3>2, <3>3, <3>4, <1>4
  <2> QED BY <2>1, <2>2
<1>5. CASE NotWritten /\ ~Written
  BY <1>1, <1>5 DEF NotWritten
<1> QED BY <1>3, <1>4, <1>5

\* The second step of an add: the key has its one record, loaded as it was added.
LEMMA WriteKeeps == DiscInv /\ Write => DiscInv'
<1> SUFFICES ASSUME DiscInv, Write PROVE DiscInv'
  OBVIOUS
<1>0. PICK k \in Keys : k = add.key
  BY DEF DiscInv, DiscTypes, Write, Adds
<1>1. /\ DiscTypes /\ Pending /\ Idle /\ proc = "on" /\ add # NoAdd /\ got = NoAdd
      /\ \/ Written /\ last' = [last EXCEPT ![k] = IF Behind THEN Junk ELSE add.val]
         \/ (WrittenInPart \/ NotWritten) /\ last' = [last EXCEPT ![k] = Junk]
      /\ add' = NoAdd /\ UNCHANGED <<proc, idx_map, got, again, lost>>
  BY <1>0 DEF DiscInv, Write, Pending
<1>2. add \in Adds /\ k = add.key /\ add.val \in Vals
  BY <1>0, <1>1 DEF DiscTypes, Adds
<1>w. Written \/ WrittenInPart \/ NotWritten
  BY <1>1
<1>3. DiscTypes'
  <2>1. file' \in Seq(Recs) /\ torn' \in BOOLEAN /\ mixed' \in BOOLEAN
    BY <1>1, <1>w, WriteTypes
  <2>2. last' \in [Keys -> Vals \cup {Junk, NULL}]
    BY <1>1, <1>2 DEF DiscTypes
  <2> QED BY <1>1, <2>1, <2>2 DEF DiscTypes
<1>4. Pending' /\ Idle'
  BY <1>1 DEF Pending, Idle
<1>5. ASSUME ~lost, ~mixed' PROVE (OneRecordPerKey /\ FileIsDurable /\ MapKnowsFile /\ MapIsCurrent)'
  <2>0. ~mixed /\ mixed' # TRUE
    BY <1>1, <1>5, <1>w, WriteTypes
  <2>1. OneRecordPerKey /\ FileIsDurable /\ MapKnowsFile /\ MapIsCurrent
    BY <1>5, <2>0 DEF DiscInv
  <2>2. idx_map[k] # NULL /\ (add.at > Len(file) => WithKey(k) = {}) /\ (k \notin again => idx_map[k] = add.val)
    BY <1>1, <1>2, <2>1 DEF MapKnowsFile, MapIsCurrent, InMap
  <2>3. /\ \A j \in Keys : j # k => last'[j] = last[j]
        /\ last'[k] \in {Junk, add.val}
        /\ last'[k] = add.val => Written
    BY <1>1, <1>2, DiscAssumption DEF DiscTypes
  <2>4. /\ \A j \in Keys : j # k => WithKey(j)' = WithKey(j) /\ Loaded'[j] = Loaded[j]
        /\ \A m, n \in WithKey(k)' : m = n
        /\ Written => Loaded'[k] = add.val
    <3>1. CASE UNCHANGED file /\ ~Written
      <4>1. Loaded' = Loaded /\ \A j : WithKey(j)' = WithKey(j)
        BY <3>1 DEF Loaded, WithKey
      <4> QED BY <4>1, <3>1, <2>0, <2>1, <1>2, <1>5 DEF OneRecordPerKey
    <3>2. ASSUME add.at <= Len(file), NEW rec \in Recs, file' = Put(rec, add.at), rec.key = k,
                 Written => rec.val = add.val
          PROVE  /\ \A j \in Keys : j # k => WithKey(j)' = WithKey(j) /\ Loaded'[j] = Loaded[j]
                 /\ \A m, n \in WithKey(k)' : m = n
                 /\ Written => Loaded'[k] = add.val
      <4>1. /\ add.at \in WithKey(k) /\ \A j : WithKey(j)' = WithKey(j)
            /\ \A j \in Keys : Loaded'[j] = Loaded[j] \/ (j = k /\ Loaded'[j] = rec.val)
            /\ (\A n \in WithKey(k) : n = add.at) => Loaded'[k] = rec.val
        BY <3>2, <1>1, <1>2, <1>3, Overwritten
      <4>2. \A n \in WithKey(k) : n = add.at
        BY <4>1, <2>0, <2>1, <1>2, <1>5 DEF OneRecordPerKey
      <4>3. WithKey(k)' = WithKey(k)
        BY <4>1
      <4>4. \A j \in Keys : j # k => WithKey(j)' = WithKey(j) /\ Loaded'[j] = Loaded[j]
        BY <4>1
      <4>5. \A m, n \in WithKey(k)' : m = n
        BY <4>2, <4>3
      <4> QED BY <4>1, <4>2, <4>4, <4>5, <3>2
    <3>3. CASE /\ add.at > Len(file) /\ ~Behind /\ Written
               /\ file' = Put([key |-> k, val |-> add.val], add.at)
      <4> DEFINE rec == [key |-> k, val |-> add.val]
      <4>1. rec \in Recs /\ rec.key = k /\ rec.val = add.val
        BY <1>2 DEF Recs
      <4>2. /\ \A j : WithKey(j)' = WithKey(j) \cup (IF j = k THEN {add.at} ELSE {})
            /\ \A j \in Keys : Loaded'[j] = IF j = k THEN rec.val ELSE Loaded[j]
        <5> HIDE DEF rec
        <5> QED BY <3>3, <4>1, <1>1, <1>2, <1>3, Appended DEF rec
      <4> QED BY <4>1, <4>2, <3>3, <2>2, <1>2
    <3> QED BY <2>0, <3>1, <3>2, <3>3, <1>1, <1>2, <1>w, WriteIs
  <2>5. OneRecordPerKey'
    BY <2>0, <2>1, <2>4, <1>5 DEF OneRecordPerKey
  <2>6. FileIsDurable'
    BY <2>0, <2>1, <2>3, <2>4, <1>5 DEF FileIsDurable
  <2>7. MapKnowsFile'
    BY <1>1, <1>2, <2>1, <2>2, <2>4 DEF MapKnowsFile
  <2>8. MapIsCurrent'
    <3>1. torn => torn'
      BY <2>0, <1>1, <1>w, WriteTypes
    <3>2. add.val # NULL /\ \A j \in Keys : j # NULL
      BY <1>2, DiscAssumption
    <3> QED BY <1>1, <1>2, <2>1, <2>2, <2>3, <3>1, <3>2 DEF MapIsCurrent
  <2> QED BY <2>5, <2>6, <2>7, <2>8
<1> QED BY <1>1, <1>3, <1>4, <1>5 DEF DiscInv

\* The end of the process takes the map; the file has its records, one perhaps spoilt.
LEMMA CrashKeeps == DiscInv /\ Crash => DiscInv'
<1> SUFFICES ASSUME DiscInv, Crash PROVE DiscInv'
  OBVIOUS
<1> DEFINE k == add.key
<1>1. /\ DiscTypes /\ Pending /\ Idle /\ proc' = "off"
      /\ \/ NotWritten /\ UNCHANGED last
         \/ add # NoAdd /\ WrittenInPart /\ last' = [last EXCEPT ![k] = Junk]
      /\ idx_map' = [j \in Keys |-> NULL] /\ add' = NoAdd /\ got' = NoAdd /\ again' = {}
      /\ UNCHANGED lost
  BY DEF DiscInv, Crash
<1>2. CASE NotWritten /\ UNCHANGED last
  <2>1. DiscTypes' /\ Pending' /\ Idle'
    BY <1>1, <1>2 DEF DiscTypes, Pending, Idle, NotWritten
  <2>2. Loaded' = Loaded /\ \A j : WithKey(j)' = WithKey(j)
    BY <1>2 DEF Loaded, WithKey, NotWritten
  <2>3. UNCHANGED <<lost, mixed>>
    BY <1>1, <1>2 DEF NotWritten
  <2> QED BY <1>1, <1>2, <2>1, <2>2, <2>3 DEF DiscInv, OneRecordPerKey, FileIsDurable, MapKnowsFile, MapIsCurrent
<1>3. CASE add # NoAdd /\ WrittenInPart /\ last' = [last EXCEPT ![k] = Junk]
  <2>1. add \in Adds /\ k \in Keys /\ add.at \in Nat /\ Len(file) \in Nat
    BY <1>1, <1>3, FileFacts DEF DiscTypes, Adds
  <2>2. DiscTypes' /\ Pending' /\ Idle'
    <3>1. file' \in Seq(Recs) /\ torn' \in BOOLEAN /\ mixed' \in BOOLEAN
      <4>1. Written \/ WrittenInPart \/ NotWritten
        BY <1>3
      <4> QED BY <4>1, <1>1, <1>3, WriteTypes
    <3>2. last' \in [Keys -> Vals \cup {Junk, NULL}]
      BY <1>1, <1>3 DEF DiscTypes
    <3> QED BY <1>1, <3>1, <3>2 DEF DiscTypes, Pending, Idle
  <2>m. mixed => mixed'
    <3>1. Written \/ WrittenInPart \/ NotWritten
      BY <1>3
    <3> QED BY <3>1, <1>1, <1>3, WriteTypes
  <2>3. ~mixed' =>
        /\ \A j \in Keys : WithKey(j)' = WithKey(j)
        /\ \A j \in Keys : j # k => Loaded'[j] = Loaded[j]
    <3>1. CASE add.at > Len(file)
      <4>1. ~mixed' => UNCHANGED file
        BY <1>3, <2>1, <3>1, CompleteIs DEF WrittenInPart
      <4> QED BY <4>1 DEF Loaded, WithKey
    <3>2. CASE add.at <= Len(file)
      <4>0. PICK v \in {add.val, Junk} : file' = Put([key |-> k, val |-> v], add.at)
        BY <1>3, <2>1, <3>2 DEF WrittenInPart, Behind
      <4> DEFINE rec == [key |-> k, val |-> v]
      <4>1. rec \in Recs /\ rec.key = k /\ file' = Put(rec, add.at)
        BY <4>0, <2>1 DEF Recs, Adds
      <4> HIDE DEF rec
      <4> QED BY <4>1, <3>2, <1>1, <1>3, <2>2, Overwritten
    <3> QED BY <3>1, <3>2, <2>1
  <2>4. \A j \in Keys : last'[j] = IF j = k THEN Junk ELSE last[j]
    BY <1>1, <1>3 DEF DiscTypes
  <2> QED BY <1>1, <2>2, <2>m, <2>3, <2>4 DEF DiscInv, OneRecordPerKey, FileIsDurable, MapKnowsFile, MapIsCurrent
<1> QED BY <1>1, <1>2, <1>3

\* Every step keeps the invariant.
LEMMA StepKeeps == DiscInv /\ [DiscNext]_discVars => DiscInv'
<1> SUFFICES ASSUME DiscInv, [DiscNext]_discVars PROVE DiscInv'
  OBVIOUS
<1>1. CASE Start
  BY <1>1, StartKeeps
<1>2. CASE Write
  BY <1>2, WriteKeeps
<1>3. CASE Crash
  BY <1>3, CrashKeeps
<1>4. ASSUME NEW k \in Keys, Get(k) PROVE DiscInv'
  BY <1>4, GetKeeps
<1>5. ASSUME NEW k \in Keys, NEW v \in Vals, Add(k, v) PROVE DiscInv'
  BY <1>5, AddKeeps
<1>6. CASE UNCHANGED discVars
  <2>1. Loaded' = Loaded /\ \A j : WithKey(j)' = WithKey(j)
    BY <1>6 DEF discVars, Loaded, WithKey
  <2> QED BY <1>6, <2>1 DEF discVars, DiscInv, DiscTypes, Pending, Idle, OneRecordPerKey,
       FileIsDurable, MapKnowsFile, MapIsCurrent, InMap
<1> QED BY <1>1, <1>2, <1>3, <1>4, <1>5, <1>6 DEF DiscNext

\* The invariant holds in every state.
LEMMA Invariance == DiscSpec => []DiscInv
  BY InvAtInit, StepKeeps, PTL DEF DiscSpec

-----------------------------------------------------------------------------
\* The theorems.

\* Wherever the process ends and whatever is not written, a key has one record:
\* idx_add_key_position, which overwrites the first one it finds, and idx_init, which
\* lets the last one count, mean the same record, until ht_set failed or an append went
\* behind a torn record.
THEOREM KeysHaveOneRecord == DiscSpec => []OneRecordPerKey
<1>1. DiscInv => OneRecordPerKey
  BY DEF DiscInv, OneRecordPerKey
<1> QED BY <1>1, Invariance, PTL

\* What the fwrite of an add put into the file is what the next idx_init loads, until
\* ht_set failed or an append went behind a torn record.
THEOREM AddsAreDurable == DiscSpec => []FileIsDurable
<1>1. DiscInv => FileIsDurable
  BY DEF DiscInv, FileIsDurable
<1> QED BY <1>1, Invariance, PTL

\* Between calls the map of idx_get_key_pos and the file know the same keys, and a
\* get returns what was added last, but for a key that was added again.
THEOREM MapFollowsFile == DiscSpec => []MemoryFollows
<1>1. DiscInv => MemoryFollows
  <2> SUFFICES ASSUME DiscInv, ~lost, ~mixed, ~torn, proc = "on", add = NoAdd PROVE MemoryFollows
    BY DEF MemoryFollows
  <2>1. DiscTypes /\ MapIsCurrent
    BY DEF DiscInv
  <2>2. \A k \in Keys : k # add.key
    BY DiscAssumption DEF NoAdd
  <2>3. got # NoAdd => got.key \in Keys
    BY <2>1 DEF DiscTypes
  <2> QED BY <2>1, <2>2, <2>3 DEF MapIsCurrent, MemoryFollows
<1> QED BY <1>1, Invariance, PTL

\* Only the write of an add changes what the next idx_init loads, and only for its
\* key: to the value added or to a spoilt one.  Behind a torn record it changes it for
\* at most one key, whichever the bytes make.
THEOREM OnlyAddsChangeTheFile == DiscSpec => NothingComesBack
<1> DEFINE A == \A k \in Keys : Loaded'[k] # Loaded[k] =>
                   \/ add.key = k /\ Loaded'[k] \in {add.val, Junk}
                   \/ Behind /\ \A j \in Keys \ {k} : Loaded'[j] = Loaded[j]
<1>1. DiscInv /\ DiscInv' /\ [DiscNext]_discVars => [A]_discVars
  <2> SUFFICES ASSUME DiscInv, DiscInv', DiscNext PROVE A
    OBVIOUS
  <2>1. CASE UNCHANGED file
    BY <2>1 DEF Loaded, WithKey
  <2>2. CASE ~UNCHANGED file
    <3>1. Write \/ Crash
      BY <2>2 DEF DiscNext, Start, Get, Add
    <3>2. DiscTypes /\ DiscTypes' /\ Pending /\ add # NoAdd /\ (Written \/ WrittenInPart \/ NotWritten)
      BY <2>2, <3>1 DEF DiscInv, Write, Crash, NotWritten
    <3>3. add \in Adds
      BY <3>2 DEF DiscTypes
    <3>4. ASSUME add.at <= Len(file), NEW rec \in Recs, file' = Put(rec, add.at), rec.key = add.key,
                 rec.val \in {add.val, Junk}
          PROVE  A
      BY <3>2, <3>4, Overwritten
    <3>5. CASE /\ add.at > Len(file)
               /\ file' = Put([key |-> add.key, val |-> add.val], add.at)
      <4> DEFINE rec == [key |-> add.key, val |-> add.val]
      <4>1. rec \in Recs /\ rec.key = add.key /\ rec.val = add.val
        BY <3>3 DEF Recs, Adds
      <4>2. \A k \in Keys : Loaded'[k] = IF k = add.key THEN rec.val ELSE Loaded[k]
        <5> HIDE DEF rec
        <5> QED BY <3>2, <3>5, <4>1, Appended DEF rec
      <4> QED BY <4>1, <4>2
    <3>6. CASE Behind /\ \E rec \in Recs : file' = Put(rec, add.at)
      <4>1. PICK rec \in Recs : file' = Put(rec, add.at)
        BY <3>6
      <4>2. \A k \in Keys : Loaded'[k] = IF k = rec.key THEN rec.val ELSE Loaded[k]
        BY <3>2, <3>6, <4>1, Appended DEF Behind
      <4> QED BY <3>6, <4>2
    <3> QED BY <2>2, <3>2, <3>4, <3>5, <3>6, WriteIs
  <2> QED BY <2>1, <2>2
<1> QED BY <1>1, Invariance, PTL DEF DiscSpec, NothingComesBack
=============================================================================
