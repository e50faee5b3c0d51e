----------------------------- MODULE StoreProof -----------------------------
(***************************************************************************)
(* Theorems about Store for every set of keys and values, every kind of    *)
(* database file, with and without faults.                                 *)
(*                                                                         *)
(* The inductive invariant is the conjunction of the three parts below:    *)
(* the uniqueness of idx needs the UNIQUE check alone, but that an update  *)
(* changes no row needs to know that every idx is a TEXT, and that a map   *)
(* can be read off the table needs both.                                   *)
(***************************************************************************)
EXTENDS Store, TLAPS

\* A database without a file holds rows only while its handle is open.
VolatileIsEmpty == (Volatile /\ db # "open") => rows = {}

StoreInv == StoreTypeOK /\ UniqueIdx /\ KeyAndBlob /\ VolatileIsEmpty

\* The row an insert adds.
Row(k, v) == [idx |-> Text(k), data |-> Blob(v)]

\* Cells of different type differ, and equal texts hold equal bytes.
LEMMA CellFacts ==
  /\ \A a, b : Text(a) # Blob(b)
  /\ \A a, b : Text(a) = Text(b) => a = b
  /\ \A a : Text(a).bytes = a /\ Blob(a).bytes = a
  /\ \A k \in Keys : Text(k) \in Cells
  /\ \A v \in Vals : Blob(v) \in Cells
BY DEF Text, Blob, Cells

\* store_update's statement finds no row: a TEXT idx never equals a BLOB.
LEMMA UpdateChangesNothing ==
  ASSUME StoreTypeOK, KeyAndBlob, NEW k, NEW v
  PROVE  SqlUpdate(Text(k), Blob(v)) = rows
<1>1. \A r \in rows : r.idx # Blob(v)
  BY CellFacts DEF KeyAndBlob
<1>2. \A r \in rows : [r EXCEPT !.data = IF r.idx = Blob(v) THEN Text(k) ELSE @] = r
  <2>1. SUFFICES ASSUME NEW r \in rows
                 PROVE  [r EXCEPT !.data = IF r.idx = Blob(v) THEN Text(k) ELSE @] = r
    OBVIOUS
  <2>2. r \in [idx : Cells, data : Cells]
    BY DEF StoreTypeOK
  <2> QED BY <1>1, <2>2
<1> QED BY <1>2 DEF SqlUpdate

\* store_get returns NULL or the value of a row with that key.
LEMMA GetOutcome ==
  ASSUME StoreInv, NEW k \in Keys, NEW o \in store_get(k)
  PROVE  o = NULL \/ \E r \in rows : r.idx = Text(k) /\ o = r.data.bytes
BY DEF store_get, Stmt, Select

\* store_set either fails and changes nothing, or finds the key and changes
\* nothing, or adds the row of an absent key.
LEMMA SetOutcome ==
  ASSUME StoreInv, NEW k \in Keys, NEW v \in Vals, NEW o \in store_set(k, v)
  PROVE  \/ o = Result(rows, 0)
         \/ o = Result(rows, 1) /\ \E r \in rows : r.idx = Text(k)
         \/ o = Result(rows \cup {Row(k, v)}, 1) /\ UniqueHolds(k)
<1>1. CASE is_ok = 0
  BY <1>1 DEF store_set
<1>2. CASE is_ok # 0
  <2>1. PICK data \in store_get(k) :
          o \in IF data = NULL THEN store_insert(k, v) ELSE store_update(k, v)
    BY <1>2 DEF store_set
  <2>2. CASE data = NULL
    BY <1>2, <2>1, <2>2 DEF store_insert, Stmt, Row
  <2>3. CASE data # NULL
    <3>1. \E r \in rows : r.idx = Text(k)
      BY <2>3, GetOutcome
    <3>2. o = Result(SqlUpdate(Text(k), Blob(v)), 1) \/ o = Result(rows, 0)
      BY <1>2, <2>1, <2>3 DEF store_update, Stmt
    <3> QED BY <3>1, <3>2, UpdateChangesNothing DEF StoreInv
  <2> QED BY <2>2, <2>3
<1> QED BY <1>1, <1>2

\* store_remove fails and changes nothing, or leaves the rows of other keys.
LEMMA RemoveOutcome ==
  ASSUME NEW k, NEW o \in store_remove(k)
  PROVE  \/ o = Result(rows, 0)
         \/ o = Result({r \in rows : r.idx # Text(k)}, 1)
BY DEF store_remove, Stmt

\* Every table a step can leave satisfies the part of the invariant on rows.
LEMMA RowsStep ==
  ASSUME StoreInv, StoreNext
  PROVE  \/ rows' = rows
         \/ rows' \subseteq rows
         \/ \E k \in Keys, v \in Vals : rows' = rows \cup {Row(k, v)} /\ UniqueHolds(k)
<1>1. CASE Open
  BY <1>1 DEF Open
<1>2. ASSUME NEW k \in Keys, Get(k)
      PROVE  rows' = rows
  BY <1>2 DEF Get
<1>3. ASSUME NEW k \in Keys, Remove(k)
      PROVE  rows' \subseteq rows
  BY <1>3, RemoveOutcome DEF Remove, Result
<1>4. ASSUME NEW k \in Keys, NEW v \in Vals, Set(k, v)
      PROVE  \/ rows' = rows
             \/ rows' = rows \cup {Row(k, v)} /\ UniqueHolds(k)
  BY <1>4, SetOutcome DEF Set, Result
<1>5. CASE Close \/ Crash
  BY <1>5 DEF Close, Crash, EndOfConnection
<1> QED BY <1>1, <1>2, <1>3, <1>4, <1>5 DEF StoreNext

LEMMA ControlStep ==
  ASSUME StoreTypeOK, StoreNext
  PROVE  /\ proc' \in {"off", "on"}
         /\ db' \in {"null", "open", "sick", "closed"}
         /\ is_ok' \in {0, 1}
         /\ table' \in {"absent", "created"}
<1>1. CASE Open
  <2>1. PICK o \in store_init : db' = o.db /\ is_ok' = o.is_ok /\ table' = o.table
    BY <1>1 DEF Open
  <2>2. /\ o.db \in {"closed", "sick", "open"}
        /\ o.is_ok \in {0, 1}
        /\ o.table \in {"absent", "created"}
    BY DEF StoreTypeOK, store_init
  <2> QED BY <1>1, <2>1, <2>2 DEF Open
<1>2. ASSUME NEW k \in Keys, Get(k) \/ Remove(k) \/ \E v \in Vals : Set(k, v)
      PROVE  UNCHANGED <<proc, db, is_ok, table>>
  BY <1>2 DEF Get, Remove, Set
<1>3. CASE Close
  BY <1>3 DEF StoreTypeOK, Close, EndOfConnection
<1>4. CASE Crash
  BY <1>4 DEF StoreTypeOK, Crash, EndOfConnection
<1> QED BY <1>1, <1>2, <1>3, <1>4 DEF StoreNext, StoreTypeOK

LEMMA InvInit == StoreInit => StoreInv
BY DEF StoreInit, StoreInv, StoreTypeOK, UniqueIdx, KeyAndBlob, VolatileIsEmpty

\* Rows appear only on an open handle, and a volatile table goes with it.
LEMMA VolatileStep ==
  ASSUME StoreInv, StoreNext
  PROVE  VolatileIsEmpty'
<1> USE DEF StoreInv, VolatileIsEmpty
<1>1. CASE Open
  BY <1>1 DEF Open, store_init, Volatile
<1>2. ASSUME NEW k \in Keys, Get(k)
      PROVE  VolatileIsEmpty'
  BY <1>2 DEF Get, Volatile
<1>3. ASSUME NEW k \in Keys, Remove(k)
      PROVE  VolatileIsEmpty'
  BY <1>3, RemoveOutcome DEF Remove, Result, Volatile
<1>4. ASSUME NEW k \in Keys, NEW v \in Vals, Set(k, v)
      PROVE  VolatileIsEmpty'
  <2>1. PICK o \in store_set(k, v) : rows' = o.rows
    BY <1>4 DEF Set
  <2>2. CASE db = "open"
    BY <1>4, <2>2 DEF Set
  <2>3. CASE db # "open"
    <3>1. o = Result(rows, 0)
      BY <2>3, <2>1 DEF store_set, store_get, store_insert, store_update, Stmt, StmtMayRun
    <3> QED BY <1>4, <2>1, <3>1 DEF Set, Result, Volatile
  <2> QED BY <2>2, <2>3
<1>5. CASE Close \/ Crash
  BY <1>5 DEF Close, Crash, EndOfConnection, Volatile
<1> QED BY <1>1, <1>2, <1>3, <1>4, <1>5 DEF StoreNext

LEMMA InvNext == StoreInv /\ [StoreNext]_storeVars => StoreInv'
<1> SUFFICES ASSUME StoreInv, [StoreNext]_storeVars
             PROVE  StoreInv'
  OBVIOUS
<1> USE DEF StoreInv
<1>1. CASE UNCHANGED storeVars
  BY <1>1 DEF storeVars, StoreTypeOK, UniqueIdx, KeyAndBlob, VolatileIsEmpty, Volatile,
              Text, Blob, Cells
<1>2. CASE StoreNext
  <2>1. CASE rows' = rows \/ rows' \subseteq rows
    <3>1. StoreTypeOK'
      BY <1>2, <2>1, ControlStep DEF StoreTypeOK, Cells
    <3>2. UniqueIdx'
      BY <2>1 DEF UniqueIdx
    <3>3. KeyAndBlob'
      BY <2>1 DEF KeyAndBlob, Text, Blob
    <3> QED BY <1>2, <3>1, <3>2, <3>3, VolatileStep
  <2>2. ASSUME NEW k \in Keys, NEW v \in Vals,
               rows' = rows \cup {Row(k, v)}, UniqueHolds(k)
        PROVE  StoreInv'
    <3>1. StoreTypeOK'
      BY <1>2, <2>2, ControlStep, CellFacts DEF StoreTypeOK, Row, Cells
    <3>2. UniqueIdx'
      BY <2>2 DEF UniqueIdx, UniqueHolds, Row
    <3>3. KeyAndBlob'
      BY <2>2 DEF KeyAndBlob, Row, Text, Blob
    <3> QED BY <1>2, <3>1, <3>2, <3>3, VolatileStep
  <2> QED BY <1>2, <2>1, <2>2, RowsStep
<1> QED BY <1>1, <1>2

\* The type invariant of store.c's state holds in every reachable state.
THEOREM TypeCorrect == StoreSpec => []StoreTypeOK
<1>1. StoreInv => StoreTypeOK
  BY DEF StoreInv
<1> QED BY InvInit, InvNext, <1>1, PTL DEF StoreSpec

\* No key ever has two rows, with every SQLite call free to fail.
THEOREM KeysAreUnique == StoreSpec => []UniqueIdx
<1>1. StoreInv => UniqueIdx
  BY DEF StoreInv
<1> QED BY InvInit, InvNext, <1>1, PTL DEF StoreSpec

\* A row always maps a TEXT key to a BLOB value that some set stored.
THEOREM RowsAreKeyAndBlob == StoreSpec => []KeyAndBlob
<1>1. StoreInv => KeyAndBlob
  BY DEF StoreInv
<1> QED BY InvInit, InvNext, <1>1, PTL DEF StoreSpec

-----------------------------------------------------------------------------
(***************************************************************************)
(* Store implements the write-once map.  MapOf reads the table as a map;   *)
(* each step of Store is one step of KVStore, or leaves map and call as    *)
(* they are.                                                               *)
(***************************************************************************)

AbsCall == IF call.op \in {"init", "close"} THEN [op |-> "none"] ELSE call

\* The value of a present key is the data of its row, whichever is chosen.
LEMMA MapOfPresent ==
  ASSUME NEW R, NEW r \in R, NEW k \in Keys, r.idx = Text(k),
         \A x, y \in R : x.idx = y.idx => x = y
  PROVE  MapOf(R)[k] = r.data.bytes
<1>1. (CHOOSE x \in R : x.idx = Text(k)) = r
  OBVIOUS
<1> QED BY <1>1 DEF MapOf

LEMMA MapOfAbsent ==
  ASSUME NEW R, NEW k \in Keys, \A x \in R : x.idx # Text(k)
  PROVE  MapOf(R)[k] = NULL
BY DEF MapOf

\* Adding the row of an absent key sets that key and no other.
LEMMA MapOfInsert ==
  ASSUME UniqueIdx, NEW k \in Keys, NEW v \in Vals, UniqueHolds(k)
  PROVE  MapOf(rows \cup {Row(k, v)}) = [MapOf(rows) EXCEPT ![k] = IF @ = NULL THEN v ELSE @]
<1> DEFINE S == rows \cup {Row(k, v)}
<1>1. \A x, y \in S : x.idx = y.idx => x = y
  BY DEF UniqueIdx, UniqueHolds, Row
<1>2. Row(k, v).idx = Text(k) /\ Row(k, v).data.bytes = v
  BY CellFacts DEF Row
<1>3. MapOf(S)[k] = v /\ MapOf(rows)[k] = NULL
  BY <1>1, <1>2, MapOfPresent, MapOfAbsent DEF UniqueHolds
<1>4. ASSUME NEW j \in Keys, j # k
      PROVE  MapOf(S)[j] = MapOf(rows)[j]
  <2>1. Row(k, v).idx # Text(j)
    BY <1>2, <1>4, CellFacts
  <2>2. CASE \E r \in rows : r.idx = Text(j)
    <3>1. PICK r \in rows : r.idx = Text(j)
      BY <2>2
    <3>2. MapOf(S)[j] = r.data.bytes
      BY <1>1, <3>1, MapOfPresent
    <3>3. MapOf(rows)[j] = r.data.bytes
      BY <3>1, MapOfPresent DEF UniqueIdx
    <3> QED BY <3>2, <3>3
  <2>3. CASE \A r \in rows : r.idx # Text(j)
    BY <2>1, <2>3, MapOfAbsent
  <2> QED BY <2>2, <2>3
<1> HIDE DEF S
<1>5. MapOf(S) = [j \in Keys |-> MapOf(S)[j]] /\ MapOf(rows) = [j \in Keys |-> MapOf(rows)[j]]
  BY DEF MapOf
<1>6. MapOf(S) = [MapOf(rows) EXCEPT ![k] = IF @ = NULL THEN v ELSE @]
  BY <1>3, <1>4, <1>5
<1> QED BY <1>6 DEF S

\* Deleting the rows with one idx clears that key and no other.
LEMMA MapOfRemove ==
  ASSUME UniqueIdx, NEW k \in Keys
  PROVE  MapOf({r \in rows : r.idx # Text(k)}) = [MapOf(rows) EXCEPT ![k] = NULL]
<1> DEFINE S == {r \in rows : r.idx # Text(k)}
<1>1. \A x, y \in S : x.idx = y.idx => x = y
  BY DEF UniqueIdx
<1>2. MapOf(S)[k] = NULL
  BY MapOfAbsent
<1>3. ASSUME NEW j \in Keys, j # k
      PROVE  MapOf(S)[j] = MapOf(rows)[j]
  <2>1. Text(j) # Text(k)
    BY <1>3, CellFacts
  <2>2. CASE \E r \in rows : r.idx = Text(j)
    <3>1. PICK r \in rows : r.idx = Text(j)
      BY <2>2
    <3>2. r \in S
      BY <2>1, <3>1
    <3>3. MapOf(S)[j] = r.data.bytes
      BY <1>1, <3>1, <3>2, MapOfPresent
    <3>4. MapOf(rows)[j] = r.data.bytes
      BY <3>1, MapOfPresent DEF UniqueIdx
    <3> QED BY <3>3, <3>4
  <2>3. CASE \A r \in rows : r.idx # Text(j)
    BY <2>3, MapOfAbsent
  <2> QED BY <2>2, <2>3
<1> HIDE DEF S
<1>4. MapOf(S) = [j \in Keys |-> MapOf(S)[j]] /\ MapOf(rows) = [j \in Keys |-> MapOf(rows)[j]]
  BY DEF MapOf
<1>5. MapOf(S) = [MapOf(rows) EXCEPT ![k] = NULL]
  BY <1>2, <1>3, <1>4
<1> QED BY <1>5 DEF S

\* A present key keeps its value under KeepFirst, since no stored value is NULL.
LEMMA MapOfKeep ==
  ASSUME UniqueIdx, KeyAndBlob, NEW k \in Keys, NEW v, NEW r \in rows, r.idx = Text(k)
  PROVE  MapOf(rows) = [MapOf(rows) EXCEPT ![k] = IF @ = NULL THEN v ELSE @]
<1>1. MapOf(rows)[k] = r.data.bytes
  BY MapOfPresent DEF UniqueIdx
<1>2. r.data.bytes \in Vals
  BY CellFacts DEF KeyAndBlob
<1>3. MapOf(rows) = [j \in Keys |-> MapOf(rows)[j]]
  BY DEF MapOf
<1> QED BY <1>1, <1>2, <1>3, NULLAssumption

LEMMA RefineInit == StoreInit => KV!Init
BY DEF StoreInit, KV!Init, MapOf

\* store_get's result is what the map holds, or NULL.
LEMMA RefineGet ==
  ASSUME StoreInv, NEW k \in Keys, Get(k)
  PROVE  KV!Get(k)
<1>1. PICK o \in store_get(k) : call' = [op |-> "get", key |-> k, ret |-> o]
  BY DEF Get
<1>2. o \in {MapOf(rows)[k], NULL}
  <2>1. CASE o = NULL
    BY <2>1
  <2>2. ASSUME NEW r \in rows, r.idx = Text(k), o = r.data.bytes
        PROVE  o = MapOf(rows)[k]
    BY <2>2, MapOfPresent DEF StoreInv, UniqueIdx
  <2> QED BY <2>1, <2>2, GetOutcome
<1>3. AbsCall' = [op |-> "get", key |-> k, ret |-> o]
  BY <1>1 DEF AbsCall
<1>4. MapOf(rows)' = MapOf(rows)
  BY DEF Get, MapOf, Text
<1> QED BY <1>2, <1>3, <1>4 DEF KV!Get, AbsCall

LEMMA RefineSet ==
  ASSUME StoreInv, NEW k \in Keys, NEW v \in Vals, Set(k, v)
  PROVE  KV!KeepFirst(k, v) \/ KV!SetFails(k, v)
<1>1. PICK o \in store_set(k, v) :
        /\ rows' = o.rows
        /\ call' = [op |-> "set", key |-> k, val |-> v, ret |-> o.ret]
  BY DEF Set
<1>2. AbsCall' = [op |-> "set", key |-> k, val |-> v, ret |-> o.ret]
  BY <1>1 DEF AbsCall
<1>3. MapOf(rows)' = MapOf(o.rows)
  BY <1>1 DEF MapOf, Text
<1>4. CASE o = Result(rows, 0)
  BY <1>2, <1>3, <1>4 DEF KV!SetFails, AbsCall, Result
<1>5. CASE o = Result(rows, 1) /\ \E r \in rows : r.idx = Text(k)
  BY <1>2, <1>3, <1>5, MapOfKeep DEF KV!KeepFirst, AbsCall, Result, StoreInv
<1>6. CASE o = Result(rows \cup {Row(k, v)}, 1) /\ UniqueHolds(k)
  BY <1>2, <1>3, <1>6, MapOfInsert DEF KV!KeepFirst, AbsCall, Result, StoreInv
<1> QED BY <1>4, <1>5, <1>6, SetOutcome

LEMMA RefineRemove ==
  ASSUME StoreInv, NEW k \in Keys, Remove(k)
  PROVE  KV!Remove(k) \/ KV!RemoveFails(k)
<1>1. PICK o \in store_remove(k) :
        /\ rows' = o.rows
        /\ call' = [op |-> "remove", key |-> k, ret |-> o.ret]
  BY DEF Remove
<1>2. AbsCall' = [op |-> "remove", key |-> k, ret |-> o.ret]
  BY <1>1 DEF AbsCall
<1>3. MapOf(rows)' = MapOf(o.rows)
  BY <1>1 DEF MapOf, Text
<1>4. CASE o = Result(rows, 0)
  BY <1>2, <1>3, <1>4 DEF KV!RemoveFails, AbsCall, Result
<1>5. CASE o = Result({r \in rows : r.idx # Text(k)}, 1)
  BY <1>2, <1>3, <1>5, MapOfRemove DEF KV!Remove, AbsCall, Result, StoreInv
<1> QED BY <1>4, <1>5, RemoveOutcome

\* Ending the connection, by a close or with the process, is the map's Restart.
LEMMA RefineRestart ==
  ASSUME Close \/ Crash
  PROVE  KV!Restart
<1>1. AbsCall' = [op |-> "none"]
  BY DEF Close, Crash, AbsCall
<1>2. rows' = IF Volatile THEN {} ELSE rows
  BY DEF Close, Crash, EndOfConnection
<1>3. MapOf(rows)' = IF Volatile THEN [k \in Keys |-> NULL] ELSE MapOf(rows)
  BY <1>2 DEF MapOf, Text
<1> QED BY <1>1, <1>3 DEF KV!Restart, AbsCall

\* A new connection finds what the last one left.
LEMMA RefineOpen ==
  ASSUME StoreInv, Open
  PROVE  KV!Restart
<1>1. AbsCall' = [op |-> "none"]
  BY DEF Open, AbsCall
<1>2. MapOf(rows)' = MapOf(rows)
  BY DEF Open, MapOf, Text
<1>3. Volatile => MapOf(rows) = [k \in Keys |-> NULL]
  BY DEF Open, StoreInv, VolatileIsEmpty, MapOf
<1> QED BY <1>1, <1>2, <1>3 DEF KV!Restart, AbsCall

\* Each step of store.c is a step of the write-once map.
LEMMA RefineNext ==
  ASSUME StoreInv, [StoreNext]_storeVars
  PROVE  [KV!WriteOnceNext]_KV!kvVars
<1>1. CASE UNCHANGED storeVars
  BY <1>1 DEF storeVars, KV!kvVars, MapOf, Text
<1>2. CASE Open \/ Close \/ Crash
  BY <1>2, RefineOpen, RefineRestart DEF KV!WriteOnceNext
<1>3. ASSUME NEW k \in Keys, Get(k)
      PROVE  KV!WriteOnceNext
  BY <1>3, RefineGet DEF KV!WriteOnceNext, KV!Common
<1>4. ASSUME NEW k \in Keys, Remove(k)
      PROVE  KV!WriteOnceNext
  BY <1>4, RefineRemove DEF KV!WriteOnceNext, KV!Common
<1>5. ASSUME NEW k \in Keys, NEW v \in Vals, Set(k, v)
      PROVE  KV!WriteOnceNext
  BY <1>5, RefineSet DEF KV!WriteOnceNext
<1> QED BY <1>1, <1>2, <1>3, <1>4, <1>5 DEF StoreNext

\* store.c implements the write-once map of KVStore, whatever fails.
THEOREM StoreImplementsWriteOnce == StoreSpec => ImplementsWriteOnce
BY InvInit, InvNext, RefineInit, RefineNext, PTL
   DEF StoreSpec, ImplementsWriteOnce, KV!WriteOnceSpec

=============================================================================
