------------------------------- MODULE Store -------------------------------
(***************************************************************************)
(* store.c: the key-value store over one SQLite table                      *)
(*                                                                         *)
(*   data_tbl1 (idx TEXT NOT NULL UNIQUE, data BLOB, PRIMARY KEY (idx))    *)
(*                                                                         *)
(* A cell is a typed value, because SQLite compares values of different    *)
(* storage classes as different: a TEXT never equals a BLOB with the same  *)
(* bytes.  Every statement may fail (SQLITE_BUSY, SQLITE_FULL, an I/O      *)
(* error) when Faults is TRUE, and always fails on a handle that is not an *)
(* open database.  A call of store.c is the set of its possible outcomes;  *)
(* the actions choose one.                                                 *)
(***************************************************************************)
EXTENDS TLC

CONSTANTS Keys,    \* the C strings used as keys
          Vals,    \* the C strings used as values
          NULL,    \* the NULL pointer
          DbFile,  \* config->db_file: "null", "empty" (the shipped ini) or "path"
          Faults   \* whether an SQLite call may fail

ASSUME NULLAssumption == NULL \notin Vals

VARIABLES proc,   \* "off" before store_init of this process, then "on"
          db,     \* the handle: "null", "open", "sick" (a failed open), "closed" (freed)
          is_ok,  \* the flag of the same name
          table,  \* data_tbl1 in the database: "absent" or "created"
          rows,   \* its rows: a set of [idx, data] of typed cells
          call    \* the last call with its arguments and return value

storeVars == <<proc, db, is_ok, table, rows, call>>

-----------------------------------------------------------------------------
\* SQLite, as far as store.c uses it (external).

Text(s) == [type |-> "text", bytes |-> s]
Blob(s) == [type |-> "blob", bytes |-> s]

\* A database without a file ends with its connection.
Volatile == DbFile # "path"

\* SQLITE_OK from prepare, then SQLITE_DONE or SQLITE_ROW from step, is possible.
StmtMayRun == db = "open" /\ table = "created"

\* prepare or step may return an error code.
StmtMayFail == Faults \/ ~StmtMayRun

\* Some outcome of a statement: what it does if it runs, what is left if not.
Stmt(ran, failed) ==
  (IF StmtMayRun THEN ran ELSE {}) \cup (IF StmtMayFail THEN failed ELSE {})

\* UPDATE data_tbl1 SET data = newData WHERE idx = whereIdx
SqlUpdate(newData, whereIdx) ==
  {[r EXCEPT !.data = IF r.idx = whereIdx THEN newData ELSE @] : r \in rows}

-----------------------------------------------------------------------------
\* The functions of store.c.

Result(newRows, ret) == [rows |-> newRows, ret |-> ret]

\* The column data of the row with this idx: SELECT data ... WHERE idx = ?
Select(key) == {r.data.bytes : r \in {x \in rows : x.idx = Text(key)}}

\* store_get: an error and an absent key both return NULL.
store_get(key) ==
  IF is_ok = 0 THEN {NULL}
  ELSE Stmt(IF Select(key) = {} THEN {NULL} ELSE Select(key), {NULL})

\* Mutant: the table is created without its UNIQUE constraint.
UniqueHolds_NoConstraint(key) == TRUE

\* The UNIQUE constraint of the table refuses a second row with the same idx.
UniqueHolds(key) == \A r \in rows : r.idx # Text(key)

\* Mutant: the value is never bound, so the cell is an SQL NULL.
store_insert_Unbound(key, val) ==
  Stmt({Result(rows \cup {[idx |-> Text(key), data |-> NULL]}, 1)}, {Result(rows, 0)})

store_insert(key, val) ==
  IF is_ok = 0 THEN {Result(rows, 0)}
  ELSE Stmt(IF UniqueHolds(key)
            THEN {Result(rows \cup {[idx |-> Text(key), data |-> Blob(val)]}, 1)}
            ELSE {Result(rows, 0)},
            {Result(rows, 0)})

\* Mutant: the key is bound to both parameters.
store_update_KeyTwice(key, val) ==
  Stmt({Result(SqlUpdate(Text(key), Text(key)), 1)}, {Result(rows, 0)})

\* store_update binds the key, as TEXT, to the first parameter (SET data = ?)
\* and the value, as a BLOB, to the second (WHERE idx = ?).  A statement that
\* changes no row still ends with SQLITE_DONE, and the function returns 1.
store_update(key, val) ==
  IF is_ok = 0 THEN {Result(rows, 0)}
  ELSE Stmt({Result(SqlUpdate(Text(key), Blob(val)), 1)}, {Result(rows, 0)})

store_set(key, val) ==
  IF is_ok = 0 THEN {Result(rows, 0)}
  ELSE UNION {IF data = NULL THEN store_insert(key, val)
                             ELSE store_update(key, val) : data \in store_get(key)}

\* Mutant: a DELETE without its WHERE clause.
store_remove_NoWhere(key) == Stmt({Result({}, 1)}, {Result(rows, 0)})

store_remove(key) ==
  IF is_ok = 0 THEN {Result(rows, 0)}
  ELSE Stmt({Result({r \in rows : r.idx # Text(key)}, 1)}, {Result(rows, 0)})

\* What store_init leaves in db, is_ok and table, and what it returns.  Both
\* sqlite3_open calls put their result in an inner rc that shadows the one
\* tested below them, so a failed open is not seen there.  The CREATE TABLE on
\* the sick handle fails, the handle is closed and is_ok keeps its value.
store_init ==
  LET Opened(h, ok, t, r) == [db |-> h, is_ok |-> ok, table |-> t, ret |-> r]
      failed == IF is_ok = 1 THEN Opened("closed", is_ok, table, 0)
                             ELSE Opened("sick", 1, table, 1)
      opened == Opened("open", 1, IF is_ok = 1 THEN "created" ELSE table, 1)
  IN  {opened} \cup (IF Faults THEN {failed} ELSE {})

-----------------------------------------------------------------------------
\* The static initialisers, before main calls store_init.
StoreInit ==
  /\ proc = "off"
  /\ db = "null"
  /\ is_ok = 1
  /\ table = "absent"
  /\ rows = {}
  /\ call = [op |-> "none"]

\* store_init, by main, or again after a close or a failed one.
Open ==
  /\ db \in {"null", "closed"}
  /\ proc' = "on"
  /\ \E o \in store_init :
       /\ db' = o.db
       /\ is_ok' = o.is_ok
       /\ table' = o.table
       /\ call' = [op |-> "init", ret |-> o.ret]
  /\ UNCHANGED rows

Set(key, val) ==
  /\ proc = "on"
  /\ \E o \in store_set(key, val) :
       /\ rows' = o.rows
       /\ call' = [op |-> "set", key |-> key, val |-> val, ret |-> o.ret]
  /\ UNCHANGED <<proc, db, is_ok, table>>

Get(key) ==
  /\ proc = "on"
  /\ \E o \in store_get(key) : call' = [op |-> "get", key |-> key, ret |-> o]
  /\ UNCHANGED <<proc, db, is_ok, table, rows>>

Remove(key) ==
  /\ proc = "on"
  /\ \E o \in store_remove(key) :
       /\ rows' = o.rows
       /\ call' = [op |-> "remove", key |-> key, ret |-> o.ret]
  /\ UNCHANGED <<proc, db, is_ok, table>>

\* The end of the connection empties a volatile database.
EndOfConnection ==
  /\ rows' = IF Volatile THEN {} ELSE rows
  /\ table' = IF Volatile THEN "absent" ELSE table

\* store_close, on an open database: db is not set to NULL.
Close ==
  /\ proc = "on"
  /\ db = "open"
  /\ db' = "closed"
  /\ is_ok' = 0
  /\ call' = [op |-> "close", ret |-> 1]
  /\ EndOfConnection
  /\ UNCHANGED proc

\* The process ends, without store_close (app_finish aborts), and the next one
\* starts.  A call on a freed handle may also end it.
Crash ==
  /\ proc = "on"
  /\ proc' = "off"
  /\ db' = "null"
  /\ is_ok' = 1
  /\ call' = [op |-> "none"]
  /\ EndOfConnection

StoreNext ==
  \/ Open
  \/ \E k \in Keys : Get(k) \/ Remove(k) \/ \E v \in Vals : Set(k, v)
  \/ Close
  \/ Crash

StoreSpec == StoreInit /\ [][StoreNext]_storeVars

-----------------------------------------------------------------------------
Cells == [type : {"text", "blob"}, bytes : Keys \cup Vals]

StoreTypeOK ==
  /\ proc \in {"off", "on"}
  /\ db \in {"null", "open", "sick", "closed"}
  /\ is_ok \in {0, 1}
  /\ table \in {"absent", "created"}
  /\ rows \subseteq [idx : Cells, data : Cells]

\* No two rows have the same key.  The lookup before the insert cannot promise
\* this, since a failed lookup reads as an absent key.
UniqueIdx == \A r, s \in rows : r.idx = s.idx => r = s

\* A row holds a key as TEXT and a value as BLOB: what an insert wrote is never
\* replaced by a value of another type or by a key, whatever an update binds.
KeyAndBlob ==
  \A r \in rows : /\ \E k \in Keys : r.idx = Text(k)
                  /\ \E v \in Vals : r.data = Blob(v)

\* What the table says as a map, and the call as the abstract store sees it.
MapOf(R) == [k \in Keys |-> IF \E r \in R : r.idx = Text(k)
                            THEN (CHOOSE r \in R : r.idx = Text(k)).data.bytes
                            ELSE NULL]

KV == INSTANCE KVStore WITH
        map <- MapOf(rows),
        call <- IF call.op \in {"init", "close"} THEN [op |-> "none"] ELSE call

\* store.c implements a write-once map: a set that returns 1 stores the value
\* of an absent key and leaves a present key as it is; a failed call changes
\* nothing; a get returns the stored value or NULL; and a file-backed store
\* keeps its contents when the process ends.
ImplementsWriteOnce == KV!WriteOnceSpec

\* The promise of README.md ("write a value"): a set that returns 1 makes the
\* value the current one.  store_update's bindings break it.
ImplementsMap == KV!MapSpec

=============================================================================
