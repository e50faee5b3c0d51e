------------------------------- MODULE Server -------------------------------
(***************************************************************************)
(* server.c on libuv's stream code (libuv/src/unix/stream.c and core.c):   *)
(* connections, the reply queue of each, and who owns a reply's memory.    *)
(*                                                                         *)
(* on_read_cb answers a read with one malloced write_req_t, given to       *)
(* uv_write; on_write_cb frees it.  Between the two the request sits in    *)
(* write_queue and then in write_completed_queue, and three independent    *)
(* paths take it out: the write made at once, the loop's calls of          *)
(* uv__stream_io, and the cancellation of everything when the handle is    *)
(* closed.  A function of libuv is an operator on the record of one        *)
(* stream; uv__write, whose effect depends on the socket, is the set of    *)
(* its outcomes.                                                           *)
(*                                                                         *)
(* The reply itself is Router's business; here it is a length.             *)
(***************************************************************************)
EXTENDS Integers, Sequences, Functions

CONSTANTS Conns,      \* the client connections
          MaxReqs,    \* bound on the requests sent on a connection
          ReplyLens,  \* lengths of reply strings, zero among them
          SockBuf     \* bytes the socket's send buffer can hold

ASSUME ServerAssumption ==
  /\ MaxReqs \in Nat
  /\ ReplyLens \subseteq Nat
  /\ SockBuf \in Nat \ {0}

VARIABLES conn,  \* the stream, the socket and the client of each connection
          proc   \* "up", or how the process ended: "SIGINT", "SIGPIPE"

serverVars == <<conn, proc>>

ReqIds == 1..MaxReqs

Least(a, b) == IF a < b THEN a ELSE b

\* Before a client connects.  The fields of a connection are
\*   handle     uv_tcp_t: "none", "open", "closing" (uv_close called), "freed";
\*              "refused" when the connection could not be accepted
\*   peer       "none", "up", "eof" (it sent FIN), "reset" (it sent RST, and the
\*              socket has the error to report), "broken" (a write is EPIPE)
\*   asked      requests the client has sent
\*   inbox      those of them still unread in the socket
\*   room       free bytes in the socket's send buffer
\*   nreq       write requests made so far; they are numbered 1, 2, ...
\*   len, left  the length of each reply, and what is not written of it yet
\*   mem        its write_req_t: "none", "live", "freed", "double" (freed twice)
\*   queue      write_queue,  completed  write_completed_queue
\*   failed     the requests whose error field is set (bufs is not NULL)
\*   size       write_queue_size, as what each request contributes to it
\*   wake       why uv__stream_io will be called to write: "POLLOUT" is watched,
\*              the watcher is "pending"
NoConn ==
  [handle |-> "none", peer |-> "none", asked |-> 0, inbox |-> 0, room |-> SockBuf,
   nreq |-> 0, len |-> [i \in ReqIds |-> 0], left |-> [i \in ReqIds |-> 0],
   mem |-> [i \in ReqIds |-> "none"], queue |-> <<>>, completed |-> <<>>,
   failed |-> {}, size |-> [i \in ReqIds |-> 0], wake |-> {}]

-----------------------------------------------------------------------------
\* libuv.  In each operator s is the record of a stream.

\* Mutant: the watcher is not fed, so that nothing calls the callbacks.
uv__write_req_finish_NoFeed(s) ==
  [s EXCEPT !.queue = Tail(@), !.completed = Append(@, Head(s.queue))]

\* uv__write_req_finish: from one queue to the other, and the watcher is fed.
uv__write_req_finish(s) ==
  [s EXCEPT !.queue = Tail(@),
            !.completed = Append(@, Head(s.queue)),
            !.wake = @ \cup {"pending"}]

\* Mutant: one byte more than was written is taken off the request.
uv__write_req_update_OffByOne(s, n) ==
  [s EXCEPT !.left[Head(s.queue)] = @ - n - 1, !.size[Head(s.queue)] = @ - n, !.room = @ - n]

\* uv__write_req_update: n more bytes of the first request are written.
uv__write_req_update(s, n) ==
  [s EXCEPT !.left[Head(s.queue)] = @ - n,
            !.size[Head(s.queue)] = @ - n,
            !.room = @ - n]

\* uv__write: one write(2) for the first request in the queue.  It takes as
\* much as there is room for, returns EAGAIN when there is none, and fails when
\* the client has reset the connection.  From a write that raises SIGPIPE it
\* does not return.
uv__write(s) ==
  IF s.queue = <<>> THEN {s}
  ELSE IF s.peer = "broken" THEN {}
  ELSE IF s.peer = "reset"
       THEN {[uv__write_req_finish([s EXCEPT !.failed = @ \cup {Head(s.queue)}])
                EXCEPT !.wake = @ \ {"POLLOUT"}, !.peer = "broken"]}
  ELSE LET n == Least(s.left[Head(s.queue)], s.room)
           t == uv__write_req_update(s, n)
       IN  {IF n = s.left[Head(s.queue)] THEN uv__write_req_finish(t)
            ELSE [t EXCEPT !.wake = @ \cup {"POLLOUT"}]}

\* on_write_cb and free_write_req: the request and its string are freed.
on_write_cb(m) == IF m = "live" THEN "freed" ELSE "double"

\* Every completed request has its callback.
Callbacks(s) ==
  [i \in ReqIds |-> IF i \in Range(s.completed) THEN on_write_cb(s.mem[i]) ELSE s.mem[i]]

\* Mutant: what an errored request left unwritten stays in write_queue_size.
uv__write_callbacks_SizeKept(s) == [s EXCEPT !.mem = Callbacks(s), !.completed = <<>>]

\* uv__write_callbacks: every completed request leaves its queue and has its
\* callback.  One that failed has its unwritten bytes in write_queue_size until
\* now.
uv__write_callbacks(s) ==
  [s EXCEPT !.mem = Callbacks(s),
            !.size = [i \in ReqIds |-> IF i \in Range(s.completed) \cap s.failed
                                       THEN s.size[i] - s.left[i] ELSE s.size[i]],
            !.completed = <<>>]

\* uv__drain: with an empty queue, POLLOUT is no longer watched.
uv__drain(s) == IF s.queue = <<>> THEN [s EXCEPT !.wake = @ \ {"POLLOUT"}] ELSE s

\* Mutant: the new request goes to the front.
Enqueue_Front(s, n) ==
  LET id == s.nreq + 1
  IN  [s EXCEPT !.nreq = id, !.len[id] = n, !.left[id] = n, !.mem[id] = "live",
                !.queue = <<id>> \o @, !.size[id] = @ + n]

\* The part of uv_write2 that initialises the request and queues it.
Enqueue(s, n) ==
  LET id == s.nreq + 1
  IN  [s EXCEPT !.nreq = id, !.len[id] = n, !.left[id] = n, !.mem[id] = "live",
                !.queue = Append(@, id), !.size[id] = @ + n]

\* stream->write_queue_size == 0
SizeIsZero(s) == \A i \in ReqIds : s.size[i] = 0

\* uv_write2: written at once if write_queue_size was 0, else when the socket
\* is writable.
uv_write2(s, n) ==
  IF SizeIsZero(s) THEN uv__write(Enqueue(s, n))
  ELSE {[Enqueue(s, n) EXCEPT !.wake = @ \cup {"POLLOUT"}]}

\* Mutant: a close also frees what the queue held.
uv_close_FreesQueue(s) ==
  [s EXCEPT !.handle = "closing", !.wake = {},
            !.mem = [i \in ReqIds |-> IF i \in Range(s.queue) THEN on_write_cb(@[i]) ELSE @[i]]]

\* uv_close on a TCP handle: the socket is closed, nothing is watched or pending.
uv_close(s) == [s EXCEPT !.handle = "closing", !.wake = {}]

\* uv__stream_flush_write_queue: all that is queued completes with ECANCELED.
uv__stream_flush_write_queue(s) ==
  [s EXCEPT !.completed = @ \o s.queue,
            !.failed = @ \cup Range(s.queue),
            !.queue = <<>>]

\* Mutant: the handle goes without the callbacks of what it had queued.
uv__stream_destroy_NoFlush(s) == uv__write_callbacks(s)

uv__stream_destroy(s) == uv__write_callbacks(uv__stream_flush_write_queue(s))

-----------------------------------------------------------------------------
\* The clients and the network (external).

PeerStep(c, t) == conn' = [conn EXCEPT ![c] = t] /\ UNCHANGED proc

PeerConnect(c) ==
  /\ conn[c].peer = "none"
  /\ PeerStep(c, [conn[c] EXCEPT !.peer = "up"])

PeerSend(c) ==
  /\ conn[c].peer = "up"
  /\ conn[c].asked < MaxReqs
  /\ PeerStep(c, [conn[c] EXCEPT !.asked = @ + 1, !.inbox = @ + 1])

\* The client reads: its window opens and the send buffer empties.
PeerRead(c) ==
  /\ conn[c].peer \in {"up", "eof"}
  /\ conn[c].room < SockBuf
  /\ PeerStep(c, [conn[c] EXCEPT !.room = SockBuf])

PeerClose(c) ==
  /\ conn[c].peer = "up"
  /\ PeerStep(c, [conn[c] EXCEPT !.peer = "eof"])

\* The client is gone, or closed with replies unread: what it has sent before
\* can still be read, nothing more can be written.  The error the socket keeps
\* is ECONNRESET, or EPIPE after a FIN.
PeerReset(c) ==
  /\ conn[c].peer \in {"up", "eof"}
  /\ PeerStep(c, [conn[c] EXCEPT !.peer = IF @ = "up" THEN "reset" ELSE "broken"])

-----------------------------------------------------------------------------
\* The event loop.  A step is one callback, with all it calls.

Step(c, t) ==
  /\ conn' = [conn EXCEPT ![c] = t]
  /\ UNCHANGED proc

\* write(2) that finds EPIPE raises SIGPIPE, which nothing in the program
\* ignores or catches.
SigPipe(s) ==
  /\ s.peer = "broken"
  /\ s.queue # <<>>
  /\ proc' = "SIGPIPE"
  /\ UNCHANGED conn

\* uv__server_io: on_new_connection accepts the connection and starts reading.
on_new_connection(c) ==
  /\ proc = "up"
  /\ conn[c].handle = "none"
  /\ conn[c].peer # "none"
  /\ Step(c, [conn[c] EXCEPT !.handle = "open"])

\* uv__server_io when there is no descriptor left: the connection is dropped
\* and on_new_connection, if it is called, only reports the error.
AcceptFails(c) ==
  /\ proc = "up"
  /\ conn[c].handle = "none"
  /\ conn[c].peer # "none"
  /\ Step(c, [conn[c] EXCEPT !.handle = "refused", !.peer = "reset", !.inbox = 0])

\* on_read_cb with data.  One read returns one or more of the requests that
\* have arrived; router makes one reply of them.
on_read_cb_data(c) ==
  /\ proc = "up"
  /\ conn[c].handle = "open"
  /\ \E k \in 1..conn[c].inbox, n \in ReplyLens :
       LET s == [conn[c] EXCEPT !.inbox = @ - k]
       IN  \/ \E t \in uv_write2(s, n) : Step(c, t)
           \/ SizeIsZero(s) /\ SigPipe(Enqueue(s, n))

\* Mutant: only a read error closes the connection, an end of file does not.
on_read_cb_end_NotOnEof(c) ==
  /\ proc = "up"
  /\ conn[c].handle = "open"
  /\ conn[c].inbox = 0
  /\ conn[c].peer \in {"reset", "broken"}
  /\ Step(c, uv_close(conn[c]))

\* on_read_cb with UV_EOF or an error: uv_close.
on_read_cb_end(c) ==
  /\ proc = "up"
  /\ conn[c].handle = "open"
  /\ conn[c].inbox = 0
  /\ conn[c].peer \in {"eof", "reset", "broken"}
  /\ Step(c, uv_close(conn[c]))

\* Mutant: the pending queue is not run.
Writable_NotPending(s) == "POLLOUT" \in s.wake /\ s.peer \in {"up", "eof"} /\ s.room > 0

\* Whether the loop calls uv__stream_io for writing: the socket is writable and
\* watched, or the watcher is in the pending queue (which it then leaves).  An
\* epoll event for a reset connection reads first, and that closes it.
Writable(s) ==
  \/ "pending" \in s.wake
  \/ "POLLOUT" \in s.wake /\ s.peer \in {"up", "eof"} /\ s.room > 0

uv__stream_io(c) ==
  /\ proc = "up"
  /\ conn[c].handle = "open"
  /\ Writable(conn[c])
  /\ LET s == [conn[c] EXCEPT !.wake = @ \ {"pending"}]
     IN  \/ \E t \in uv__write(s) : Step(c, uv__drain(uv__write_callbacks(t)))
         \/ SigPipe(s)

\* uv__run_closing_handles and uv__finish_close: the queue is cancelled, then
\* on_close frees the handle.
on_close(c) ==
  /\ proc = "up"
  /\ conn[c].handle = "closing"
  /\ Step(c, [uv__stream_destroy(conn[c]) EXCEPT !.handle = "freed"])

\* sig_handler: app_finish aborts the process.
sig_handler ==
  /\ proc = "up"
  /\ proc' = "SIGINT"
  /\ UNCHANGED conn

ServerInit ==
  /\ conn = [c \in Conns |-> NoConn]
  /\ proc = "up"

LoopStep(c) ==
  \/ on_new_connection(c)
  \/ AcceptFails(c)
  \/ on_read_cb_data(c)
  \/ on_read_cb_end(c)
  \/ uv__stream_io(c)
  \/ on_close(c)

PeerNext(c) == PeerConnect(c) \/ PeerSend(c) \/ PeerRead(c) \/ PeerClose(c) \/ PeerReset(c)

ServerNext == sig_handler \/ \E c \in Conns : LoopStep(c) \/ PeerNext(c)

ServerSpec == ServerInit /\ [][ServerNext]_serverVars

\* The loop runs every callback that is due, and a client reads its replies.
FairServerSpec ==
  /\ ServerSpec
  /\ \A c \in Conns : /\ WF_serverVars(on_read_cb_data(c))
                      /\ WF_serverVars(on_read_cb_end(c))
                      /\ WF_serverVars(uv__stream_io(c))
                      /\ WF_serverVars(on_close(c))
                      /\ WF_serverVars(PeerRead(c))

-----------------------------------------------------------------------------
ConnType ==
  [handle : {"none", "refused", "open", "closing", "freed"},
   peer : {"none", "up", "eof", "reset", "broken"},
   asked : 0..MaxReqs, inbox : 0..MaxReqs, room : 0..SockBuf, nreq : 0..MaxReqs,
   len : [ReqIds -> Nat], left : [ReqIds -> Nat],
   mem : [ReqIds -> {"none", "live", "freed", "double"}],
   queue : Seq(ReqIds), completed : Seq(ReqIds), failed : SUBSET ReqIds,
   size : [ReqIds -> Int], wake : SUBSET {"POLLOUT", "pending"}]

ServerTypeOK ==
  /\ conn \in [Conns -> ConnType]
  /\ proc \in {"up", "SIGINT", "SIGPIPE"}

\* The requests before these have been freed.
FirstOwned(s) == s.nreq - Len(s.queue) - Len(s.completed) + 1

\* One owner for every reply: the two queues together hold the newest requests,
\* in the order they were made, each exactly once; those are the live blocks.
\* All older ones were freed exactly once by on_write_cb.
OneOwner(s) ==
  /\ FirstOwned(s) >= 1
  /\ \A k \in 1..Len(s.completed) : s.completed[k] = FirstOwned(s) + k - 1
  /\ \A k \in 1..Len(s.queue) : s.queue[k] = FirstOwned(s) + Len(s.completed) + k - 1
  /\ \A i \in ReqIds : s.mem[i] = IF i > s.nreq THEN "none"
                                  ELSE IF i >= FirstOwned(s) THEN "live" ELSE "freed"

NoLeakNoDoubleFree == \A c \in Conns : OneOwner(conn[c])

\* While a connection is open and a reply is queued or has its callback due,
\* the loop has a reason to come back to it (stream.c:929 doubts this after a
\* failed write).
Awake(s) ==
  s.handle = "open" => /\ s.queue # <<>> => s.wake # {}
                       /\ s.completed # <<>> => "pending" \in s.wake

NoLostWakeup == \A c \in Conns : Awake(conn[c])

\* write_queue_size counts exactly the unwritten bytes of the queued and of the
\* failed requests, so that the assertion in uv__stream_destroy holds.
Counted(s) ==
  \A i \in ReqIds :
    s.size[i] = IF i \in Range(s.queue) \cup (Range(s.completed) \cap s.failed)
                THEN s.left[i] ELSE 0

SizeIsExact ==
  \A c \in Conns : /\ Counted(conn[c])
                   /\ conn[c].handle = "freed" => SizeIsZero(conn[c])

\* What the client receives is whole replies in the order of the requests: no
\* byte of a reply is written before the last byte of every earlier one.
RepliesInOrder ==
  \A c \in Conns :
    \A i, j \in 1..conn[c].nreq :
      (i < j /\ conn[c].left[j] < conn[c].len[j]) => conn[c].left[i] = 0

\* A freed handle has nothing left: no request that a callback would still
\* reach it by.
NothingOutlivesHandle ==
  \A c \in Conns :
    conn[c].handle = "freed" =>
      /\ conn[c].wake = {}
      /\ \A i \in ReqIds : conn[c].mem[i] # "live"

\* Every reply is written or given up, and freed, while the client reads.
RepliesAreReleased ==
  \A c \in Conns : \A i \in ReqIds :
    conn[c].mem[i] = "live" ~> (conn[c].mem[i] = "freed" \/ proc # "up")

\* A connection whose client is gone is closed and its handle freed.
GoneClientsAreFreed ==
  \A c \in Conns :
    (conn[c].handle = "open" /\ conn[c].peer \in {"eof", "reset", "broken"})
      ~> (conn[c].handle = "freed" \/ proc # "up")

\* server.c: on_write_cb reports "Write error" and the server goes on.
WriteErrorIsReported == proc # "SIGPIPE"

=============================================================================
