# Verification of CcCv-store

CcCv-store is a small key-value server in C. A client sends `1|key|value|`
(set), `2|key|` (get) or `3|key|` (delete) over TCP; a libuv event loop reads
what has arrived into a buffer, the router parses that as one request, calls the
store (one SQLite table) and sends a reply string back. This directory holds TLA+ models of those
parts, of the library code beside it (configuration file, hash table, disk index,
thread-safe queue) and of the libuv code that schedules it, the TLC runs that check
them and TLAPS proofs.

## 1. The system

| part | state | operations | talks to |
|---|---|---|---|
| `store.c` | static `db`, `is_ok`; the table in the database | `store_init`, `store_get`, `store_set` (`store_insert` / `store_update`), `store_remove`, `store_close`, `store_is_ok` | SQLite |
| `msg_parser.c`, `str_slice` of `add_lib.c` | none | cut command, key and data out of the read buffer | called by the router |
| `router.c` | none | `router`: parse, dispatch to `route_set/get/delete`, build the reply | parser, store |
| `server.c` | one `uv_tcp_t` per client, one `write_req_t` per reply | `on_new_connection`, `alloc_buffer`, `on_read_cb`, `on_write_cb`, `on_close`, `sig_handler` | router, libuv callbacks |
| libuv `stream.c` (vendored) | per stream: `write_queue`, `write_completed_queue`, `write_queue_size` | `uv_write2`, `uv__write`, `uv__write_callbacks`, `uv__stream_io`, `uv_close`, `uv__stream_destroy` | socket, server callbacks, the loop |
| libuv `core.c`, `epoll.c` (vendored) | the watcher table, `watcher_queue`, `pending_queue`, `closing_handles`; per watcher `pevents` and `events` | `uv_run`, `uv__io_poll`, `uv__io_start/stop/feed/close` | epoll, stream callbacks |
| `config.c`, `ini.c` | the configuration record | parse `CcCvStore.ini` | read by `main` |
| `ht.c` | open-addressing table | set, get, remove, expand, iterate | used by `disc_data` |
| `disc_data/` | index and data files, an `ht` in memory | add, look up, load | `ht.c`, files |
| `sts_queue.c` | linked list and a mutex | create, push, pop, destroy | threads |
| `client.js` | one socket, the promises not resolved | `setData`, `removeData`, `getData`, the data event | server, by TCP |
| `task.c`, `list.c`, `th.c`, `client.c`, tests | | | |

The server has one thread. Concurrency comes from the clients, the network and
the loop's scheduling of callbacks between them; failure from SQLite calls, the
end of the process (SIGINT aborts without `store_close`; SIGPIPE is not
handled), partial writes, resets, and memory that is reused without being
cleared. The data race and lock questions are all in parts the shipped server
does not use (`sts_queue.c`).

What makes each part correct:

* store: keys are unique; a call that fails changes nothing; a set that reports
  success is visible to later gets, across restarts when there is a file;
  `is_ok` says whether the database can be used;
* parser: exactly the key and the value the client sent, whatever the buffer
  held before;
* router: a read touches the key it names and no other, rows come from sets and go
  with deletes, and the reply names the key;
* server and libuv: every reply is written whole and in order or given up, its
  memory is released exactly once, no handle is freed while something still
  refers to it, and neither a reply nor a dead connection waits for ever;
* the loop: no callback of a closed handle, what a watcher wants is what epoll
  knows, no sleep while something is due, and no descriptor starves;
* configuration: the handler gets the settings of the file, in order, each under
  its section, and the first bad line is reported;
* hash table and disk index: every key that was put in is found; the file has one
  record per key, and what was written survives a crash anywhere, as far as the code
  provides for it;
* queue: the calls of any threads are those of a FIFO queue, every element is
  freed once, and none stays for ever.

The hazards, each at its line, are in `PROJECT.json`.

## 2. Modules

| module | models | composes |
|---|---|---|
| `KVStore` | the abstract promise: a map (`MapSpec`) and the weaker write-once map (`WriteOnceSpec`) | |
| `Store` | `store.c` on a small SQLite | instantiates `KVStore` |
| `StoreProof` | theorems about `Store` | extends `Store` |
| `MsgParser` | `msg_parser.c`, `str_slice`, as operators on byte sequences | |
| `ParserProof` | theorems about `MsgParser` and `Ini` | extends `MCParsers` |
| `Router` | `router.c`, `alloc_buffer`'s reused block, the streams that `on_read_cb` reads | extends `Store`, instantiates `MsgParser` |
| `RouterProof` | theorems about `Router` | extends `Router` |
| `HashTable` | `ht.c` | instantiates `KVStore` |
| `HtProof` | theorems about `HashTable` | extends `HashTable` |
| `System` | clients of client.js, their promises and the replies' way back | extends `Router` |
| `Ini` | `ini.c` and the handler of `config.c`, as operators on character sequences | |
| `Server` | `server.c` and libuv's write path | |
| `ServerProof` | theorems about `Server` | extends `Server` |
| `EventLoop` | `uv_run`, `uv__io_poll` and the watchers | |
| `LoopProof` | theorems about `EventLoop` | extends `EventLoop` |
| `DiscIndex` | `disc_data/`: memory map, file, crash | |
| `DiscProof` | theorems about `DiscIndex` | extends `DiscIndex` |
| `FifoQueue` | the abstract promise of the queue | |
| `StsQueue` | `sts_queue.c`, in steps of one or a few accesses to shared memory | instantiates `FifoQueue` |
| `StsProof` | theorems about `StsQueue` | extends `StsQueue` |
| `MCStore`, `MCParsers` (`MsgParser` and `Ini`), `MCRouter`, `MCSystem`, `MCHashTable`, `MCServer`, `MCEventLoop`, `MCDiscIndex`, `MCStsQueue` | instances for TLC | |

### Store

`rows` is the table, a set of records of typed cells. Types matter: SQLite never
finds a BLOB equal to a TEXT, and that decides what `store_update` does, since it
binds the key to `SET data = ?` and the value, as a BLOB, to `WHERE idx = ?`. A C
function is an operator that returns the set of its outcomes (new rows and return
value); the action of the same name chooses one. `Stmt` says when a statement may
run and when it may fail; with `Faults` every prepare or step may. `db` is
`"sick"` after an `sqlite3_open` that failed (its result is put in an inner `rc`
that hides the tested one) and `"closed"` when the pointer dangles. A call on a
dangling handle has no defined result: in the model its statements fail, or the
process ends (`Crash` is always possible). `DbFile` is what the configuration
says: the shipped file has an empty name, which is a temporary database.

### MsgParser and Router

A buffer is a sequence of bytes; the parser's operators follow the C functions one
by one. `buf->len` is the size of the block, not of what was read, so all bytes of
the block take part, and no code ends them with a NUL. `Buffers` is what the block may
hold behind the bytes read: NULs, what the block held before, or other data of the
allocator (`Junk`).

What a client sends is a stream (`up`). `Send` adds a request to it, and `Read` is
`on_read_cb` on any non-empty beginning of it that fits the buffer: TCP keeps no
boundaries, so a read may be a request, a part of one or several. `router` takes each
read for one request. `Send` does not wait for a reply, as `client.js` does not. `Leave` is a
reset, with which the unread bytes are gone. Connections share the block, so that the residue
in it may be another client's.

`SliceStrings` is the C string that the block of a key or a value is read as; a block of a
size in `NoSlack` has no byte left for a terminator and runs on into its neighbour.
`DataStrings` is the same for the copy `store_get` returns. `Snprintf` cuts at its length
argument. `router` is one action: parse, route, call the store, make the reply, free the
buffer. An empty key is a NULL pointer whose `strlen` ends the process (`NullKey`); the
first two bytes of a request, read alone, have an empty key. `Bytes` is the alphabet, used
only to say what residue and requests are made of.

The properties speak of what was read (`req`), since that is all the server can go by: the
digit, the key up to its bar (`KeyRead`) and what is behind it (`RestRead`). Where the bar was
read (`Closed`) and the key's block has room for a terminator (`NamesKey`), the read touches that
key only. Where it was not, the key runs on into residue, and all that holds is that
the key of the row begins with what was read (`RowsFollowReads`). Of a
request that arrives in two reads nothing better can be said: the second one begins with
whatever the cut left.

### HashTable

The slots are a function from 0 to `capacity - 1`. The three probing loops of
`ht.c` are one operator, `Probe`: the set of slots where the loop may stop, an empty
one or one whose key compares equal. `ht_remove` frees the key's copy but keeps the
pointer, so such a slot is `"freed"`: a comparison with it, or its hash when an
expansion moves it, may give any answer, and freeing it again (`ht_remove`,
`ht_destroy`) leaves the table `"corrupt"`, where the model stops. Hence
`ht_get`, `ht_set_entry` and `ht_set` are sets of outcomes; without freed slots
each has one, or two when an allocation may fail. Tables that have lost no key to
`ht_remove` must act as `KVStore`'s map; for the others only what still
holds is claimed: probing ends (`RoomToProbe`). `ht_length` returns the field.

### Server

One record per connection holds the stream, the socket and the client. Each
function of libuv's write path is an operator on that record with the function's
own name; `uv__write` returns the set of outcomes of its `write(2)` (all, a part,
EAGAIN, an error, or no return at all when SIGPIPE is raised). An action is one
callback of the event loop with all it calls: the loop runs one at a time. Write
requests are numbered in order of creation, `mem` is the state of the malloced
block of each, and `write_queue_size` is kept itemised, per request, so that
"the sum is right" can be stated without a sum. `wake` stands for the reasons
why the loop will call `uv__stream_io` to write: POLLOUT is watched, or the
watcher is in the pending queue. Clients connect, send, read, half-close and
reset at any time. The reply is only a length here; its content is Router's.

### System

`Router`'s streams and server with clients of `client.js`, and a stream `down` for the
replies. `Call` sends a request and adds its promise; `Answer` is `Read` with the reply
put on its way; `Data` is a data event on any beginning of the replies, which every
listener looks at as one reply. `getData` is left out: it never sends.

### Ini

`ini_parse_stream` is a function over the number of pieces `fgets` returns; the
record it carries along is the C function's locals (`section`, `prev_name`,
`lineno`, `error`) and the calls of the handler so far. `LineLen` and `NameLen`
stand for the sizes of the buffers (199 and 49 characters), made small so that lines
and names that do not fit are reached. `handler` is what `config.c` makes of the
calls. The reference definitions in `MCParsers` describe the file as a whole (where
the pieces start, which section a line stands under, which name a continuation
belongs to) and never go through it line by line as the code does.

### EventLoop

`Server` takes for granted that a callback that is due runs in the end. `EventLoop`
is the code that has to see to it. The record `loop` holds libuv's queues, its
table of watchers, and the kernel's part: the epoll set (`interest`), what each socket is
`ready` for and the order in which ready descriptors wait. The C functions are
operators on that record; callbacks return the set of their outcomes. A turn goes
through the phases of `uv_run`: pending callbacks one by one, registration and
`epoll_wait`, the events one by one, closing handles. Descriptors and handles are
reused as soon as the code allows it, which is in the middle of a batch of events.
The replies are a number here; their content and memory are `Server`'s. Taking elements
out of a queue is written out (`Only`), since the provers cannot expand the library's
`SelectSeq`.

### DiscIndex

`file` is the sequence of whole records and `torn` says that a part of one follows
them. `Add` is `idx_add_key_position` up to the write, `Write` the `fwrite` and `fflush`;
`Crash` may come between and, for the machine, inside. The record position that `Add`
computes is kept from the first step to the second, as the file position is.

An append behind a torn record (`Behind`) supplies the bytes that are missing
(disc_index.c:63 seeks to the end, line 78 writes): there is then a record made of two
appends (`Complete`), with the torn key and whatever stands where the value should be or,
torn inside the key, with another key, which may be one that has a record already (`Mixed`);
the rest of the append is the new tail. An append that is itself written in part may
complete the record or not, and may end with it exactly.

The auxiliary `last` remembers what was last written for a key (`Junk` after a write that
failed or went behind a torn record), `again` the keys whose map entry is known to be older,
`lost` a failed `ht_set` and `mixed` a record made of two appends. After either of these two
the code keeps neither one record per key nor what was added, and the properties do not
claim it; `NothingComesBack` also says of an append behind a torn record that it changes what
is loaded for one key at most.

### StsQueue

The accesses to the shared list are steps, so that the mutex, and not the
model, has to exclude. A few are merged: `Push` fills the new element, which no other
thread sees yet; `IsEmpty` reads `head` and, for the other branch, `tail`; `Rewire` reads
`head->next` and writes `head`; `Take` reads the value and frees the element. Between the two
halves of a merged step another thread could act only without the mutex, where
nothing is claimed. Addresses are reused at once. What `pthread_mutex_lock`
makes of the uninitialised mutex is a choice in `StsInit`: unlocked (zeroed memory,
which is a valid mutex on Linux), locked for ever, or invalid, after which nothing
is claimed (`Excludes`). `chain`, the list of addresses in order, is auxiliary.

## 3. Runs

| run | expectation | what it shows |
|---|---|---|
| `store` | pass | types, unique keys, cell types, refinement of the write-once map, with three keys, two values, faults, close and restarts |
| `store_map` | violation | a second set returns 1 and changes nothing: not the map README.md describes |
| `parsers` | pass | `str_slice`, key and data of every request buffer up to six bytes over four symbols, and calls, error line and final settings of every file of up to four pieces after six beginnings, against reference definitions |
| `router` | pass | a read that holds a key and its bar touches that key only and is confirmed under it; rows come from reads like sets and go with reads like deletes; over all cuts of two clients' streams, residues, faults and restarts |
| `router_delete` | violation | client.js's delete, which has no bar, is read whole after a set and removes another key through residue |
| `system_stream` | violation | a call of client.js whose bytes arrive in two reads gets two replies "0", and its promise is never resolved |
| `hash_table` | pass | probing ends, every key is found, iteration is complete and the table acts as a map, over collisions, expansions, failed allocations and removals |
| `disc_index` | pass | until `ht_set` failed or something was appended behind a torn record: one record per key, what was written is what the next start loads, and when a look-up may be stale; always: an add changes what is loaded for one key at most |
| `sts_queue` | pass | no freed element is touched, the list is whole, nothing leaks, refinement of the FIFO queue; liveness of what was pushed |
| `server` | pass | ownership, wake-ups, byte count, order, nothing outlives its handle; liveness of replies and of handles |
| `server_pipe` | violation | a client sends a request, closes and resets; the write of the reply finds EPIPE, and SIGPIPE ends the server |
| `event_loop` | pass | no callback of a closed handle, epoll knows what watchers want, no sleep with work left; liveness: readable, writable and closed handles are served |

Every violation run states what a comment, a document or a client of the
repository says of the program; the finding in `PROJECT.json` quotes it.

More facts can be read off the definitions, without a run of their own: after a failed `sqlite3_open`
`store_is_ok` still returns 1 (store.c:27 hides the `rc` that store.c:30 tests);
the documented request `1|mykey|myvalue|` stores the closing bar with the value, and
residue of the buffer behind it (`KeyAndDataAreTheRest` says so of the parser);
the reply to a get is six characters short (router.c:59); two requests of one client in one
read get one reply, made for the first; the first two bytes of a get or a delete, read
alone into a fresh block, end the server (`NullKey`); and `ht_remove` does not take a key out
of the table as ht.h:19 says, since its slot stays in use and compares as it may. A write
error that libuv has already reported also raises SIGPIPE at the next write.

Bounds and why they are enough:

* `store`: three keys, so that a set, a remove and a bystander can differ; two
  values, so that an overwrite is visible. All calls are independent of other
  keys, and `StoreProof` covers the rest.
* `parsers`: a command, a bar, a one-byte key, a bar, a value byte and one more
  are six bytes; negative and positive indexes go one beyond both ends. For files,
  lines of up to six characters and names of two are kept whole; four pieces after a
  beginning give a section, a value, a comment or blank line and a continuation,
  or a line of two or three times the buffer. `ParserProof` covers requests and files of
  any length.
* `system_stream`: one set is enough to be split.
* `disc_index`: two keys and two values, so that an update is visible and another
  key is there to be harmed; three records, one more than the keys need, so that a
  second record of a key has room.
* `sts_queue`: two pushers, a popper and a destroyer meet in every pair; three
  elements give a list with a first, a middle and a last, and fewer addresses than
  pushes so that each is used again; four pushes (`MaxPushes`). `StsProof` covers any number
  of all of them. `PushedIsPopped` rests on this bound: the popper competes for the mutex with
  finitely many pushes, and with unbounded ones the weak fairness assumed would not give it
  its turn.
* `event_loop`: two connections and the listening socket on three descriptors, an
  array of two events, so that it can be full with one descriptor waiting (1024 in
  the code), and two polls in a turn (48 in the code). A connection has one reply
  queued at a time (`MaxWrites` = 1), which is a thin bound: what it leaves out, replies queued behind
  one another, is `Server`'s, and for the loop differs only in when the last write is done.
  `LoopProof` covers any number, but not the three liveness properties.
* `router`: two clients and two requests, in any of their parts: enough for a whole or split
  request to stand behind the residue of the other client's. An eight-byte buffer is filled by
  the longest request and one byte more of the next; keys are prefixes of each
  other so that residue can turn one into another; the longest key fills its block. The
  clients are symmetric. `RouterProof` covers any number and any lengths. `router_delete` has
  one client and a buffer with room behind its requests.
* `hash_table`: three keys, which collide at every capacity, two of them in the last
  slot of the largest, so that probing wraps around; `INITIAL_CAPACITY` is 2 in
  place of 16, so that a table is expanded twice on its way to 8 slots; at most one
  slot is freed at a time (`MaxFreed`), which is enough for a freed key to merge
  with, hide or be hidden by a live one.
* `server`: four requests let two replies be queued behind a partly written one
  while a third is completed; replies of 0, 2 and 3 bytes against a socket buffer
  of 2 give the empty, the exactly fitting and the partial write. Connections share
  only the process, so one is enough; `ServerProof` covers any number.

Where a property has a theorem, the run is only the first check of it: the bounds above
matter for the liveness properties and for the violations.

`CHECK_DEADLOCK FALSE` is used for `Server`, where the process may end, for the
hash table and the queue, which are unusable once the heap is corrupt (and the queue
when its mutex is locked for ever), and for the parsers, whose input is finite. The
event loop is checked for deadlock.

Fairness (`FairServerSpec`): weak fairness of each callback that is due, which is
what `uv_run` gives: it polls all descriptors, runs the pending queue and the
closing handles in every iteration. `PeerRead` is also fair, which is an
assumption about clients: one that stays connected reads what it is sent. Without
it a reply to a silent client stays queued for ever, and rightly so. No fairness
is assumed of connecting, sending, closing or of signals, and both liveness
properties allow the process to end.

`FairElSpec` assumes only that the one thread goes on (`WF` of the next step of the
turn); that no callback starves is then shown and not assumed, down to the kernel:
`epoll_wait` returns ready descriptors in turn. It is what justifies the fairness of
`Server`'s callbacks. `FairStsSpec` assumes that a thread inside `push` or `pop` goes on
when it can, weakly, so nothing about who gets the mutex next, and that
`task_manager` (test_queue.c) calls `pop` again and again.

## 4. Proofs

`StoreProof` proves for all sets `Keys` and `Vals`, every `DbFile` and with or
without faults:

* `TypeCorrect`, `KeysAreUnique`, `RowsAreKeyAndBlob`;
* `StoreImplementsWriteOnce`: the refinement of `KVStore!WriteOnceSpec` under the
  mapping that reads the table as a function.

The only assumption is `NULL \notin Vals`. The inductive invariant is `StoreInv`.
Uniqueness follows from the UNIQUE check alone, but that an update changes no row
needs to know that every `idx` is a TEXT, and the map that the table stands for is
well defined only because keys are unique. That a restart of a volatile store is a
`Restart` of the abstract one with an empty map needs `VolatileIsEmpty`. The step
proof classifies the outcomes of each call (`SetOutcome`: nothing, nothing because
the key is there, or one new row) and maps each to an abstract step.

`ServerProof` proves for any connections, any bound on requests, any reply lengths
and any buffer size: `TypesHold`, `RepliesHaveOneOwner`, `WakeupsAreNotLost`,
`QueueSizeIsExact`, `HandlesAreFreedLast`, `RepliesComeInOrder`. The assumptions are that the constants
are natural numbers and that the socket buffer is not empty. The key to the
inductive invariant `ConnInv` is `OneOwner`: the completed queue followed by the
write queue is the run of consecutive request numbers up to the newest, so that
the queues are disjoint and membership becomes an interval test (`Ranges`). Each
operator of libuv has a lemma for the fields it changes and a lemma that it
preserves `Good`; `WriteGood` adds that the stream is left with a reason to come
back. This answers the comment at stream.c:929 for this server: after a failed
write POLLOUT is stopped while later requests may be queued, but the failed one
was just fed to the pending queue, which leads to `uv__stream_io` again.
That replies come whole and in order needs more (`OrderInv`, on top of `ServerInv`): what
left the queue without failing is written, nothing is written behind the first request
of the queue or behind a failed one (`Ordered`), and after a failed write nothing more
is written at all (`Over`).

`StsProof` proves for any threads, values and addresses, and whatever the mutex was
made of: `QueueTypesHold`, `QueueIsSafe`, `QueueIsAList`, `QueueDoesNotLeak`, and
`QueueIsFifo`, the refinement of `FifoQueue`. The assumptions are that `NULL` is no
value and no address and that a thread is not mistaken for a state of the mutex. The
inductive invariant `StsInv` adds to the properties that whoever is inside holds the
mutex (`Exclusion`), what a thread knows at each place (`Places`: `tail` is the last
element when `set_next` writes through it), and that the elements in the hands of
threads differ from each other and from those in the list (`Apart`): a push has its
element before it has the mutex, so this is what keeps a reused address from being
in the list twice. In the refinement `set_head` and `set_next` are the push, `rewire`
the pop and a `read_head` that finds `NULL` the pop of nothing; the order of the calls
is the order in which they hold the mutex.

`DiscProof` proves for any keys, values and number of records, with and without
faults: `KeysHaveOneRecord`, `AddsAreDurable`, `MapFollowsFile` and
`OnlyAddsChangeTheFile`. The assumption is that `NULL` and `Junk` differ and are neither keys
nor values. One record per key is not kept by itself: whether an add appends is decided by
the map in memory. So the inductive invariant `DiscInv` ties the map to the file, also
between the computing of a position and the write (`Pending`, `MapKnowsFile`), and both
to what was added (`MapIsCurrent`). Once `ht_set` failed or a record was made of two appends
only types and places remain, which is what the properties say as well; that an append
behind a torn record changes what is loaded for one key needs no more than these, since it
adds one record.

`HtProof` proves for any keys, values, hash function, number of removals and capacities
that are powers of two: `CapacityIsPowerOfTwo`, `ThereIsRoomToProbe`, `EveryKeyIsFound`,
`EveryKeyIsVisited`, `EveryLoopEnds` and the refinement `TableIsAMap`. The assumption
says that the initial capacity is a power of two, as `INITIAL_CAPACITY` is, and not above
the bound for the doubling; hashes are natural numbers. A probing loop is described by the set of
indexes where it may stop (`Stops` when no slot was freed). The inductive invariant
`HtInv` counts the slots in use, freed ones too: never more than `length`, which is
never more than half, so an empty slot is met. While nothing was removed, every used
slot is where the loop for its key stops (`Found`). Filling the slot where a loop
stops keeps that for all others, because no loop passes an empty slot; moving to a
larger array is filling, one slot after the other (`Moved`).

`ParserProof` proves for any alphabet and requests of any length that `str_slice` returns
the part of the C string between its indexes of either sign (`SlicesAreSelections`), and
that key and data are the parts between and behind the bars (`RequestsAreCutRight`). The
assumption is that `NULL` is no sequence of bytes. The argument is about the C string of a
sequence, the part before its first NUL, and the least position where a bar stands.

For the configuration file it proves, for files of any length and buffers of any size,
that `error` is the number of the first bad line (`ErrorsAreFirstBadLines`) and that the
handler gets the settings of the file, in order, each under its section, the last of a
name counting (`CallsAreTheSettings`). Here the assumptions are that the buffer of `fgets`
holds a character at least, that the size of a name is a natural number, and that the parts
a file is put together from are sequences of characters. The argument is that `Reached`
holds before every piece: `section`, `prev_name`, `lineno`, `error` and the calls so far are what the
pieces before it make of them by the reference definitions. Every turn of the loop keeps it
(`TurnIs`), with a lemma each for what the next piece makes of the section
(`SectionNext`), of the first bad line (`FirstBadNext`) and of the name that a continuation
belongs to (`OwnerNext`). The reference definitions know nothing of the loop, so where
pieces begin in a line longer than the buffer, and which of them count as lines, is
arithmetic of its own (`Multiples`, `NextStart`).

`RouterProof` proves for any clients, bytes, buffer length, requests, cuts of the streams,
residue and memory next to a block: `EveryReadIsAnswered`, `RowsAreFollowed`,
`RepliesNameTheKey` and `NoOtherKeyIsTouched`. The assumptions (`RouterAssumption`) are that
a key has no bar and no NUL and a value no NUL, which the protocol of the repository's README.md
and C strings imply; that a request ends with or without a bar, as its writers send it; that
`NULL` is no sequence of bytes; and that residue is bytes. Nothing is assumed of how long a
request is or how it arrives, and nothing of a NUL behind it. The inductive invariant
`RouterInv` says that a block is `BufLen` bytes, that what is unread has no NUL, and that every
row is a text and a blob, which is what keeps `store_update` from changing any. The rest is what the
parser finds in a buffer of which only the beginning is known (`TaskIs`): the key that was read
where its bar was read, and otherwise one that begins with it; and what a route does with it
(`ReadDoes`).

`LoopProof` proves for any number of connections and descriptors, any size of the event
array and any limits: `ClosedHandlesAreForgotten`, `EpollKnowsWhatIsWanted`,
`EventsFindTheirWatcher` and `NothingIsDueInSleep`. The assumptions are that the server's handle is none of the
connections', that `NULL` is neither a handle nor a set of events, and that the limits are
positive. The inductive invariant `LoopInv` is one predicate of the loop, `Good`, and two facts
about the kernel's queue: what waits there is known to epoll (`OrderIs`), and what is ready
waits there (`ReadyIs`). `Good` is kept by every function that a callback calls, each of
which has its lemma, and not only by a turn: an open handle is the watcher of its descriptor
and always wants to read, epoll has of it what `events` remembers, and that is what it
wants unless a change is queued (`OpenIs`); nothing is left of any other handle
(`ClosedIs`). `uv__io_start` compares with `events`, which may be older than what is
wanted; that is why the property alone is not inductive. That the loop never sleeps with
work left is safety, and needs `IdleInv` on top: once `epoll_wait` is called without a
timeout, the queues are empty, and a batch of no events leaves them so.

Induction. The library's induction theorems cannot be used with these provers. Where
a proof needs one (the moves of an expansion, the powers of two, the first position of a
byte) it takes the least element of a set of naturals instead (`LeastNat`, from
`NatLessThanWellFounded`). The same gives the recursive definitions their solution
(`Recursion`, `MovedIs`), and induction over a set of naturals for the files (`NatInd`).

Only model-checked: the liveness properties (the prover has no fairness) and the
violations. Every invariant, action property and refinement that a passing run checks is
stated by a theorem.

## 5. Not modelled, and the plan

Not modelled: the start-up of `main`, SQLite's internals, malloc failure in the
server, `lib_append` and `check_task` (no caller), the examples `list.c` and `th.c`,
the terminal client `client.c`, the test programs.

Most of the repository by lines is third-party code that takes no part in what
the server does: SQLite's shell and headers (`shell.c`, `sqlite3.h`, `sqlite3ext.h`) and
libuv with its Windows and other Unix back ends, its files, pipes, terminals, UDP,
processes, threads and resolver. Of libuv, what the server reaches is the TCP stream,
the loop and the epoll back end, and these are modelled as far as the server
uses them. Nothing of the repository's own code that changes state is left out but
the start-up and unused functions named above; a larger share of the lines could only
come from models of code that never runs here.

Still worth doing:

1. Proofs: the order of the loop's queues (a pending watcher is queued once), and that
   `System`'s server answers each request it reads with one reply.
2. A run of `Server` under `EventLoop`, in place of the fairness that links them.
