------------------------------- MODULE Router -------------------------------
(***************************************************************************)
(* router.c on top of msg_parser.c and store.c: one read of the server,    *)
(* one call of the store, one reply string.                                *)
(*                                                                         *)
(* What a client sends is a stream of bytes.  on_read_cb is given any part *)
(* of what has arrived, at most a buffer, and hands it to router as one    *)
(* request: it may be a request, the beginning or the rest of one, or      *)
(* several.                                                                *)
(*                                                                         *)
(* alloc_buffer mallocs a block for each read and on_read_cb frees it, so  *)
(* the bytes after those read are what the block held before: NULs when    *)
(* the block is new, the end of an earlier read when it is reused, or the  *)
(* allocator's own data.  A block that is read as a C string without being *)
(* terminated continues with bytes of its neighbour.  Both are choices of  *)
(* the model.  One read is handled at a time: the event loop has one       *)
(* thread and router never waits.                                          *)
(***************************************************************************)
EXTENDS Store, Integers, Sequences

CONSTANTS Clients,   \* the client connections
          Bytes,     \* what a byte may be
          BufLen,    \* suggested_size of alloc_buffer: bytes in a read buffer
          Requests,  \* the requests clients may send
          NoSlack,   \* block sizes that malloc does not round up (24, 40, ... bytes)
          Junk,      \* non-empty byte sequences that may lie next to a block
          MaxSends   \* bound on the requests sent

INSTANCE MsgParser

VARIABLES up,     \* the bytes of each client that the server has not read
          sent,   \* how many requests were sent
          block,  \* what the next read buffer will be allocated on
          req,    \* what the last read returned
          reply   \* and the reply string made for it

routerVars == <<storeVars, up, sent, block, req, reply>>

-----------------------------------------------------------------------------
\* The clients: the requests README.md documents end in a bar; client.js sends
\* a set and a delete without it.
Encode(r) ==
  CASE r.cmd = CMD_SET    -> <<"1", BAR>> \o r.key \o <<BAR>> \o r.val \o r.end
    [] r.cmd = CMD_GET    -> <<"2", BAR>> \o r.key \o r.end
    [] r.cmd = CMD_DELETE -> <<"3", BAR>> \o r.key \o r.end

\* A key has no bar, and no request a NUL.
ASSUME RouterAssumption ==
  /\ {NUL, BAR, "0", "1", "2", "3"} \subseteq Bytes /\ BufLen \in Nat \ {0}
  /\ NULL \notin Seq(Bytes) /\ MaxSends \in Nat
  /\ \A r \in Requests :
       r \in [cmd : {CMD_SET, CMD_GET, CMD_DELETE}, key : Seq(Bytes \ {NUL, BAR}),
              val : Seq(Bytes \ {NUL}), end : {<<>>, <<BAR>>}]
  /\ \A j \in Junk : j \in Seq(Bytes)

Beginning(s, n) == SubSeq(s, 1, n)
Rest(s, n) == SubSeq(s, n + 1, Len(s))

\* No client has anything on its way.
NoBytes == [c \in Clients |-> <<>>]

-----------------------------------------------------------------------------
\* Memory.

Zeros(n) == [i \in 1..n |-> NUL]

\* The buffer after a read of msg: alloc_buffer leaves the block as it is, and
\* nothing ends the bytes that were read.  In a block without any NUL, the strlen of
\* str_slice runs on behind it; no slice does.
Buffers(msg) ==
  LET n == BufLen - Len(msg)
  IN  {msg \o t : t \in {Zeros(n), Rest(block, Len(msg))}
                        \cup {j \o Zeros(n - Len(j)) : j \in {x \in Junk : Len(x) <= n}}}

\* What reading a block of str_slice as a C string yields.  A slice fills its block
\* completely; the NUL after it is there only if the block is larger than the slice.
SliceStrings(b) ==
  IF strlen(b) = Len(b) /\ Len(b) \in NoSlack THEN {b \o j : j \in Junk} ELSE {CStr(b)}

\* store_get copies a value to a malloced block of its size, with no terminator.
DataStrings(v) == {v} \cup {v \o j : j \in Junk}

\* snprintf(msg, n, ...): the first n - 1 characters.  For n = 0 nothing is
\* written, and the string is what malloc(0) returned.
Snprintf(n, text) ==
  IF n = 0 THEN {<<>>} \cup Junk
  ELSE {SubSeq(text, 1, IF n - 1 < Len(text) THEN n - 1 ELSE Len(text))}

-----------------------------------------------------------------------------
\* Mutant: room for the key and the bars, none for the terminator.
route_delete_NoRoom(task, key) ==
  /\ task.cmd = CMD_DELETE
  /\ Remove(key)
  /\ reply' \in Snprintf(Len(key) + 3, <<"3", BAR>> \o key \o <<BAR>>)

\* The result of store_remove is not looked at.
route_delete(task, key) ==
  /\ task.cmd = CMD_DELETE
  /\ Remove(key)
  /\ reply' \in Snprintf(Len(key) + 4, <<"3", BAR>> \o key \o <<BAR>>)

\* Mutant: a set that finds the key again as its value.
route_set_KeyAsData(task, key) ==
  /\ task.cmd = CMD_SET
  /\ task.data # NULL
  /\ Set(key, key)
  /\ reply' \in Snprintf(Len(key) + 4, <<"1", BAR>> \o key \o <<BAR>>)

\* The result of store_set is not looked at.
route_set(task, key) ==
  /\ task.cmd = CMD_SET
  /\ task.data # NULL
  /\ \E data \in SliceStrings(task.data) : Set(key, data)
  /\ reply' \in Snprintf(Len(key) + 4, <<"1", BAR>> \o key \o <<BAR>>)

\* Six characters too few are asked for, with or without a value.
route_get(task, key) ==
  /\ task.cmd = CMD_GET
  /\ Get(key)
  /\ \/ /\ call'.ret = NULL
        /\ reply' \in Snprintf(Len(key) - 1, <<"2", BAR>> \o key \o <<BAR>>)
     \/ /\ call'.ret # NULL
        /\ \E p_data \in DataStrings(call'.ret) :
             reply' \in Snprintf(Len(key) + Len(p_data) - 2,
                                 <<"2", BAR>> \o key \o <<BAR>> \o p_data)

\* No route made a response: an unknown command, or a set without data.
NoRoute(task) ==
  /\ task.cmd = 0 \/ (task.cmd = CMD_SET /\ task.data = NULL)
  /\ reply' = <<"0">>
  /\ UNCHANGED storeVars

\* Mutant: the NULL key makes a NULL reply, with which the server goes on.
NullKey_Survives(task) ==
  /\ task.key = NULL
  /\ task.cmd \in {CMD_GET, CMD_DELETE} \/ (task.cmd = CMD_SET /\ task.data # NULL)
  /\ UNCHANGED storeVars
  /\ reply' = NULL

\* Every route takes the strlen of the key, which is NULL for an empty one.
NullKey(task) ==
  /\ task.key = NULL
  /\ task.cmd \in {CMD_GET, CMD_DELETE} \/ (task.cmd = CMD_SET /\ task.data # NULL)
  /\ Crash
  /\ reply' = NULL

\* router(buf): then on_read_cb frees the buffer.
router(msg) ==
  /\ proc = "on"
  /\ \E buf \in Buffers(msg) :
       LET task == parse_client_msg(buf)
       IN  \/ /\ \/ NoRoute(task)
                 \/ /\ task.key # NULL
                    /\ \E key \in SliceStrings(task.key) :
                         route_set(task, key) \/ route_get(task, key) \/ route_delete(task, key)
              /\ block' = buf
           \/ NullKey(task) /\ block' = Zeros(BufLen)

RouterInit ==
  /\ StoreInit
  /\ up = NoBytes /\ sent = 0
  /\ block = Zeros(BufLen)
  /\ req = NULL
  /\ reply = NULL

\* main calls store_init before it serves.
Start ==
  /\ proc = "off"
  /\ Open
  /\ req' = NULL
  /\ reply' = NULL
  /\ UNCHANGED <<up, sent, block>>

\* A client writes a request, without waiting for the reply to the one before.
Send(c, r) ==
  /\ proc = "on" /\ sent < MaxSends
  /\ up' = [up EXCEPT ![c] = @ \o Encode(r)]
  /\ sent' = sent + 1
  /\ UNCHANGED <<storeVars, block, req, reply>>

\* on_read_cb: with the process, its connections end.
Read(c) ==
  \E n \in 1..Len(up[c]) :
    /\ n <= BufLen
    /\ router(Beginning(up[c], n))
    /\ req' = Beginning(up[c], n)
    /\ up' = IF proc' = "on" THEN [up EXCEPT ![c] = Rest(@, n)] ELSE NoBytes
    /\ UNCHANGED sent

\* A client resets its connection; another may take its place.
Leave(c) ==
  /\ up[c] # <<>>
  /\ up' = [up EXCEPT ![c] = <<>>]
  /\ UNCHANGED <<storeVars, sent, block, req, reply>>

\* The process ends between two reads.
Stop ==
  /\ Crash
  /\ up' = NoBytes
  /\ block' = Zeros(BufLen)
  /\ req' = NULL
  /\ reply' = NULL
  /\ UNCHANGED sent

RouterNext ==
  \/ Start \/ Stop
  \/ \E c \in Clients : Read(c) \/ Leave(c) \/ \E r \in Requests : Send(c, r)

RouterSpec == RouterInit /\ [][RouterNext]_routerVars

-----------------------------------------------------------------------------
\* What a read holds, as the parser cuts it: the key up to the first bar from the
\* third byte on, if that bar was read, and what is behind it, of which a full
\* buffer loses its last byte (msg_parser.c:75).
ClosingBars(m) == {i \in 3..Len(m) : m[i] = BAR}
Closed(m) == ClosingBars(m) # {}
KeyRead(m) == IF Closed(m) THEN SubSeq(m, 3, First(ClosingBars(m)) - 1) ELSE SubSeq(m, 3, Len(m))
RestRead(m) ==
  SubSeq(m, First(ClosingBars(m)) + 1, IF Len(m) < BufLen THEN Len(m) ELSE BufLen - 1)

IsStart(s, t) == Len(s) <= Len(t) /\ SubSeq(t, 1, Len(s)) = s

\* A key whose block has room for the terminator.
Terminated(k) == Len(k) \notin NoSlack

\* The read tells the parser where its key ends.
NamesKey(m) == Closed(m) /\ Terminated(KeyRead(m))

Reads == Seq(Bytes \ {NUL})

\* Every read ends in a reply string or with the process, and store_init has left
\* the store usable as far as its flag can tell.
RouterTypeOK ==
  /\ up \in [Clients -> Reads] /\ sent \in 0..MaxSends
  /\ block \in [1..BufLen -> Bytes]
  /\ req # NULL => req \in Reads \ {<<>>}
  /\ reply # NULL => reply \in Seq(Bytes)
  /\ reply = NULL => (req = NULL \/ proc = "off")
  /\ is_ok = 1

\* A read that holds a key and its closing bar touches no other key, whatever the
\* buffer held before it and whatever else was read with it: the rest of the request,
\* more requests, or a part of one.
OnlyItsKey ==
  [][(req' # NULL /\ proc = "on" /\ proc' = "on" /\ NamesKey(req'))
       => \A x \in rows \cup rows' :
            x.idx # Text(KeyRead(req')) => x \in rows /\ x \in rows']_routerVars

\* A row is made by a read that begins like a set and by nothing else: its key is the
\* key that was read, or begins with it where residue or the memory behind the key's
\* block was taken for more of it, and its value begins with what was read behind the
\* bar.  A row goes with a read that begins like a delete of its key or of a beginning
\* of it, or with the process.
RowsFollowReads ==
  [][/\ \A x \in rows' \ rows :
          /\ req' # NULL /\ req'[1] = "1"
          /\ x.idx.type = "text" /\ IsStart(KeyRead(req'), x.idx.bytes)
          /\ NamesKey(req') => x.idx = Text(KeyRead(req'))
          /\ x.data.type = "blob"
          /\ Closed(req') => IsStart(RestRead(req'), x.data.bytes)
     /\ \A x \in rows \ rows' :
          proc' = "on" => /\ req' # NULL /\ req'[1] = "3"
                          /\ IsStart(KeyRead(req'), x.idx.bytes)]_routerVars

\* The reply to a read that names its key names it too, as the client needs to match
\* it: "3|mykey|" to a delete, "1|mykey|" to a set with something behind the bar.
ReplyNamesKey ==
  (req # NULL /\ reply # NULL /\ NamesKey(req)) =>
    \A d \in {"1", "3"} :
      (req[1] = d /\ (d = "1" => RestRead(req) # <<>>))
        => reply = <<d, BAR>> \o KeyRead(req) \o <<BAR>>

\* client.js: removeData(key) removes key; where its request is read as it was sent,
\* no other key changes.
ClientDeleteTouchesItsKey ==
  [][\A r \in Requests :
       (proc' = "on" /\ r.cmd = CMD_DELETE /\ req' = Encode(r))
         => \A x \in rows \ rows' : x.idx = Text(r.key)]_routerVars

=============================================================================
