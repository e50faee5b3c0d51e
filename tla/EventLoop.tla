----------------------------- MODULE EventLoop -----------------------------
(***************************************************************************)
(* The turns of libuv's loop under the server: uv_run and uv__run_pending  *)
(* (core.c), uv__io_poll (epoll.c), and the watchers that uv__io_start,    *)
(* uv__io_stop, uv__io_feed and uv__io_close change while their callbacks  *)
(* run.  Server.tla takes for granted that a callback that is due runs     *)
(* in the end; here the loop has to see to it.                             *)
(*                                                                         *)
(* The handles are the listening socket and the connections.  The loop's   *)
(* queues, its table of watchers and the kernel's side (sockets and the    *)
(* epoll set) are the record loop; a C function is an operator on it.      *)
(* There is no other kind of handle in the server: idle, prepare, check    *)
(* and timer lists are empty, the loop's own watchers for threads and      *)
(* signals never have an event, and SIGINT does not go through libuv.  An  *)
(* end of file, a hang-up and an error make a socket readable.             *)
(***************************************************************************)
EXTENDS Integers, Sequences, SequencesExt, FiniteSetsExt

CONSTANTS Conns,      \* the connection handles the server may have at a time
          SERVER,     \* the listening handle
          NULL,
          MaxFd,      \* the descriptors of connections are 1 to MaxFd
          MaxEvents,  \* the size of the events array, 1024 in the code
          MaxPolls,   \* uv__io_poll's count, 48 in the code
          MaxWrites   \* bound on the replies queued on a connection

ASSUME LoopAssumption ==
  /\ SERVER \notin Conns /\ NULL \notin Conns \cup {SERVER}
  /\ \A S \in SUBSET {"POLLIN", "POLLOUT"} : NULL # S
  /\ MaxFd \in Nat \ {0} /\ MaxEvents \in Nat \ {0} /\ MaxPolls \in Nat \ {0} /\ MaxWrites \in Nat \ {0}

VARIABLES loop,     \* the uv_loop_t, its watchers and the kernel
          phase,    \* "pending", "wait" (in epoll_wait), "events", "closing"
          timeout,  \* of the next epoll_wait: 0, or -1 to wait for ever
          count,    \* how often uv__io_poll may still poll
          full,     \* epoll_wait filled the array
          nevents   \* whether a callback was called for the events

elVars == <<loop, phase, timeout, count, full, nevents>>

Handles == Conns \cup {SERVER}
Fds == 0..MaxFd

POLLIN == "POLLIN"
POLLOUT == "POLLOUT"

\* The fields of loop: per handle st ("none", "open", "closing"), fd, pevents and
\* events, and the replies in its write_queue; per descriptor the watcher, the
\* epoll interest (NULL when it is not in the set), and what the socket is ready
\* for; the queues; the events of the last epoll_wait not yet handled.
LoopInit ==
  [st |-> [h \in Handles |-> IF h = SERVER THEN "open" ELSE "none"],
   fd |-> [h \in Handles |-> IF h = SERVER THEN 0 ELSE -1],
   pevents |-> [h \in Handles |-> IF h = SERVER THEN {POLLIN} ELSE {}],
   events |-> [h \in Handles |-> {}],
   writes |-> [h \in Conns |-> 0],
   watchers |-> [f \in Fds |-> IF f = 0 THEN SERVER ELSE NULL],
   nfds |-> 1,
   watcher_queue |-> {SERVER},
   pending_queue |-> <<>>, pq |-> <<>>,
   closing |-> {},
   interest |-> [f \in Fds |-> NULL],
   ready |-> [f \in Fds |-> {}],
   order |-> <<>>,
   batch |-> <<>>]

-----------------------------------------------------------------------------
\* Watchers.

\* Mutant: the watcher is queued only when it is new in the table.
uv__io_start_OnlyNew(l, h, ev) ==
  LET f == l.fd[h]
      new == l.watchers[f] = NULL
      t == [l EXCEPT !.pevents[h] = @ \cup ev]
  IN  IF new
      THEN [t EXCEPT !.watcher_queue = @ \cup {h}, !.watchers[f] = h, !.nfds = @ + 1]
      ELSE t

\* uv__io_start: nothing more to do when epoll has this interest already.
uv__io_start(l, h, ev) ==
  LET f == l.fd[h]
      new == l.watchers[f] = NULL
      t == [l EXCEPT !.pevents[h] = @ \cup ev]
  IN  IF t.events[h] = t.pevents[h] THEN t
      ELSE [t EXCEPT !.watcher_queue = @ \cup {h},
                     !.watchers[f] = IF new THEN h ELSE @,
                     !.nfds = IF new THEN @ + 1 ELSE @]

\* uv__io_stop: a change of interest is queued; a watcher without any leaves.
uv__io_stop(l, h, ev) ==
  LET f == l.fd[h]
      t == [l EXCEPT !.pevents[h] = @ \ ev]
      mine == l.watchers[f] = h
  IN  IF f = -1 THEN l
      ELSE IF t.pevents[h] # {} THEN [t EXCEPT !.watcher_queue = @ \cup {h}]
      ELSE [t EXCEPT !.watcher_queue = @ \ {h}, !.events[h] = {},
                     !.watchers[f] = IF mine THEN NULL ELSE @,
                     !.nfds = IF mine THEN @ - 1 ELSE @]

IsFed(l, h) == Contains(l.pending_queue \o l.pq, h)

\* uv__io_feed: once, whichever of the two queues it is in.
uv__io_feed(l, h) ==
  IF IsFed(l, h) THEN l ELSE [l EXCEPT !.pending_queue = Append(@, h)]

\* The members of q that are in S, in their order.
Only(q, S) ==
  LET upTo[n \in 0..Len(q)] ==
        IF n = 0 THEN <<>> ELSE IF q[n] \in S THEN Append(upTo[n - 1], q[n]) ELSE upTo[n - 1]
  IN  upTo[Len(q)]

\* uv__platform_invalidate_fd: its events are skipped, and epoll forgets it.
uv__platform_invalidate_fd(l, f) ==
  [l EXCEPT !.batch = Only(@, {e \in Range(@) : e.fd # f}), !.interest[f] = NULL]

Without(q, h) == Only(q, Handles \ {h})

\* Mutant: the watcher stays in the pending queue.
uv__io_close_StillPending(l, h) ==
  uv__platform_invalidate_fd(uv__io_stop(l, h, {POLLIN, POLLOUT}), l.fd[h])

uv__io_close(l, h) ==
  uv__platform_invalidate_fd(
    [uv__io_stop(l, h, {POLLIN, POLLOUT}) EXCEPT !.pending_queue = Without(@, h), !.pq = Without(@, h)],
    l.fd[h])

\* uv_close of a connection, down to uv__stream_close: its descriptor is free for
\* the next accept, the handle waits for the end of the turn.
uv_close(l, h) ==
  [uv__io_close(l, h) EXCEPT !.st[h] = "closing", !.closing = @ \cup {h},
                             !.ready[l.fd[h]] = {}, !.fd[h] = -1]

-----------------------------------------------------------------------------
\* The callbacks, as sets of outcomes.

\* uv__write: the first reply is written, or in part and the socket is full, or the
\* write fails.  The server's stream is not in error mode, or it is and has been fed.
uv__write(l, c) ==
  LET done == uv__io_feed([l EXCEPT !.writes[c] = @ - 1], c)
  IN  IF l.writes[c] = 0 THEN {l}
      ELSE {done, uv__io_start([l EXCEPT !.ready[l.fd[c]] = @ \ {POLLOUT}], c, {POLLOUT}),
            uv__io_stop(done, c, {POLLOUT})}

\* uv_write2 of on_read_cb: written at once when write_queue_size is zero, which is
\* so also with empty replies queued, and not so while a failed one is completed.
uv_write2(l, c) ==
  LET t == [l EXCEPT !.writes[c] = @ + 1]
  IN  (IF l.writes[c] > 0 \/ IsFed(l, c) THEN {uv__io_start(t, c, {POLLOUT})} ELSE {})
        \cup uv__write(t, c)

\* uv__read: a request, with on_read_cb's reply, or the end.
uv__read(l, c) ==
  {uv_close(l, c)} \cup
  (IF l.writes[c] < MaxWrites THEN uv_write2([l EXCEPT !.ready[l.fd[c]] = @ \ {POLLIN}], c) ELSE {})

uv__drain(l, c) == IF l.writes[c] = 0 THEN uv__io_stop(l, c, {POLLOUT}) ELSE l

uv__stream_io(l, c, ev) ==
  LET R == IF POLLIN \in ev THEN uv__read(l, c) ELSE {l}
      open == {t \in R : t.st[c] = "open"}
  IN  (R \ open) \cup
      UNION {IF POLLOUT \in ev THEN {uv__drain(u, c) : u \in uv__write(t, c)} ELSE {t} : t \in open}

Free(l) == {f \in Fds \ {0} : \A h \in Handles : l.fd[h] # f}

\* uv_accept and uv_read_start.  The descriptor is the lowest that is free.
Accepted(l, c) ==
  LET f == Min(Free(l))
  IN  uv__io_start([l EXCEPT !.st[c] = "open", !.fd[c] = f, !.ready[f] = {POLLOUT}], c, {POLLIN})

\* uv__server_io accepts until no connection waits; some were aborted, or there is
\* no descriptor for them.
uv__server_io(l) ==
  LET t == uv__io_start([l EXCEPT !.ready[0] = {}], SERVER, {POLLIN})
      after[n \in 0..MaxFd] ==
        IF n = 0 THEN {t}
        ELSE after[n - 1] \cup
             UNION {{Accepted(u, c) : c \in {d \in Conns : u.st[d] = "none" /\ Free(u) # {}}} :
                    u \in after[n - 1]}
  IN  after[MaxFd]

\* A watcher's cb.
Callback(l, h, ev) == IF h = SERVER THEN uv__server_io(l) ELSE uv__stream_io(l, h, ev)

-----------------------------------------------------------------------------
\* The kernel (external).  Descriptors that are ready wait in a queue; epoll_wait
\* takes from its head and, while they are ready, puts them back at its end.  Those
\* that become ready together come in some order.

IsReady(l, f) == l.interest[f] # NULL /\ l.interest[f] \cap l.ready[f] # {}

Settled(l) ==
  LET R == {f \in Fds : IsReady(l, f)}
  IN  [l EXCEPT !.order = Only(@, R) \o SetToSeq(R \ Range(@))]

Batch(l) == SubSeq(l.order, 1, Min({MaxEvents, Len(l.order)}))

\* A client connects, sends, ends or resets the connection, or reads replies.  Only
\* epoll_wait looks at what a socket is ready for, so it is enough that this happens
\* just before.
Client ==
  /\ phase = "wait"
  /\ \E f \in Fds, e \in {POLLIN, POLLOUT} :
       /\ e \notin loop.ready[f]
       /\ f = 0 => e = POLLIN
       /\ f # 0 => \E c \in Conns : loop.fd[c] = f
       /\ loop' = Settled([loop EXCEPT !.ready[f] = @ \cup {e}])
  /\ UNCHANGED <<phase, timeout, count, full, nevents>>

-----------------------------------------------------------------------------
\* uv__run_pending: the first of the queue as it was when the turn began.
RunPending ==
  /\ phase = "pending" /\ loop.pq # <<>>
  /\ \E t \in Callback([loop EXCEPT !.pq = Tail(@)], Head(loop.pq), {POLLOUT}) : loop' = Settled(t)
  /\ UNCHANGED <<phase, timeout, count, full, nevents>>

\* Mutant: the loop goes to sleep with completed writes in the pending queue.
uv__backend_timeout_NotPending(l) == IF l.closing = {} THEN -1 ELSE 0

uv__backend_timeout(l) == IF l.pending_queue = <<>> /\ l.closing = {} THEN -1 ELSE 0

\* The first loop of uv__io_poll: epoll learns every queued change.
Registered(l) ==
  [l EXCEPT !.interest = [f \in Fds |-> IF l.watchers[f] \in l.watcher_queue
                                        THEN l.pevents[l.watchers[f]] ELSE l.interest[f]],
            !.events = [h \in Handles |-> IF h \in l.watcher_queue THEN l.pevents[h] ELSE l.events[h]],
            !.watcher_queue = {}]

\* From the pending queue to epoll_wait.
Poll ==
  /\ phase = "pending" /\ loop.pq = <<>>
  /\ timeout' = uv__backend_timeout(loop)
  /\ loop' = Settled(Registered(loop))
  /\ count' = MaxPolls
  /\ phase' = "wait"
  /\ UNCHANGED <<full, nevents>>

\* epoll_wait returns events, or nothing at once when it must not wait.
Wait ==
  /\ phase = "wait"
  /\ \/ /\ loop.order # <<>>
        /\ LET B == Batch(loop)
               ev(f) == loop.interest[f] \cap loop.ready[f]
           IN  /\ loop' = [loop EXCEPT !.batch = [i \in 1..Len(B) |-> [fd |-> B[i], ev |-> ev(B[i])]],
                                       !.order = SubSeq(@, Len(B) + 1, Len(@)) \o B]
               /\ full' = (Len(B) = MaxEvents)
        /\ phase' = "events"
        /\ UNCHANGED <<timeout, count>>
     \/ /\ loop.order = <<>> /\ timeout = 0
        /\ phase' = "closing"
        /\ count' = MaxPolls
        /\ UNCHANGED <<loop, timeout, full>>
  /\ UNCHANGED nevents

\* One event: the watcher of its descriptor, if there is one, and what it wants.
Dispatch ==
  /\ phase = "events" /\ loop.batch # <<>>
  /\ LET e == Head(loop.batch)
         l == [loop EXCEPT !.batch = Tail(@)]
         h == l.watchers[e.fd]
         ev == e.ev \cap l.pevents[h]
     IN  /\ \E t \in IF h = NULL THEN {[l EXCEPT !.interest[e.fd] = NULL]}
                     ELSE IF ev = {} THEN {l}
                     ELSE Callback(l, h, ev) : loop' = Settled(t)
         /\ nevents' = (nevents \/ (h # NULL /\ ev # {}))
  /\ UNCHANGED <<phase, timeout, count, full>>

\* Mutant: the polls are not counted.
Decremented_Never(k) == k

Decremented(k) == k - 1

\* A full array may not have been all; the number of polls is limited.
PollsAgain == full /\ Decremented(count) # 0

\* The events are handled.  uv__io_poll polls once more without waiting, or waits on
\* when there was nothing to call, or returns: its locals are gone.
EndOfEvents ==
  /\ phase = "events" /\ loop.batch = <<>>
  /\ LET again == IF nevents THEN PollsAgain ELSE timeout = -1
     IN  /\ phase' = IF again THEN "wait" ELSE "closing"
         /\ timeout' = IF again /\ ~nevents THEN -1 ELSE 0
         /\ count' = IF ~again THEN MaxPolls ELSE IF nevents THEN Decremented(count) ELSE count
  /\ full' = FALSE /\ nevents' = FALSE
  /\ UNCHANGED loop

\* uv__run_closing_handles: the replies still queued are cancelled and on_close frees
\* each handle.  A new turn begins.
Closing ==
  /\ phase = "closing"
  /\ loop' = [loop EXCEPT !.st = [h \in Handles |-> IF h \in loop.closing THEN "none" ELSE @[h]],
                          !.writes = [c \in Conns |-> IF c \in loop.closing THEN 0 ELSE @[c]],
                          !.closing = {},
                          !.pq = loop.pending_queue, !.pending_queue = <<>>]
  /\ phase' = "pending"
  /\ UNCHANGED <<timeout, count, full, nevents>>

ElInit ==
  /\ loop = LoopInit
  /\ phase = "pending"
  /\ timeout = 0 /\ count = MaxPolls /\ full = FALSE /\ nevents = FALSE

Turn == RunPending \/ Poll \/ Wait \/ Dispatch \/ EndOfEvents \/ Closing

ElSpec == ElInit /\ [][Turn \/ Client]_elVars

\* One thread runs the loop, and epoll_wait returns when something is ready.
FairElSpec == ElSpec /\ WF_elVars(Turn)

-----------------------------------------------------------------------------
\* The table, its count and the queues refer to open handles only, under their own
\* descriptor, although a descriptor is used again before the handle that had it is
\* freed: no callback is ever called for a closed handle.
OnlyOpenHandles ==
  /\ \A f \in Fds : LET h == loop.watchers[f]
                    IN  h # NULL => loop.st[h] = "open" /\ loop.fd[h] = f /\ loop.pevents[h] # {}
  /\ loop.nfds = Cardinality({f \in Fds : loop.watchers[f] # NULL})
  /\ \A h \in loop.watcher_queue : loop.fd[h] # -1 /\ loop.watchers[loop.fd[h]] = h
  /\ \A h \in Range(loop.pending_queue \o loop.pq) : loop.st[h] = "open"

\* What a handle wants is what epoll was told, or the change is queued; and epoll
\* has nothing on a descriptor that no open handle has.  So the epoll_ctl calls of
\* uv__io_poll, a failure of which aborts the process, modify only what is there,
\* and no event of a closed handle is left for the one that reuses its descriptor.
InterestIsKnown ==
  /\ \A h \in Handles : loop.st[h] = "open" =>
       /\ h \in loop.watcher_queue \/ loop.interest[loop.fd[h]] = loop.pevents[h]
       /\ loop.events[h] # {} => loop.interest[loop.fd[h]] # NULL
  /\ \A f \in Free(loop) : loop.interest[f] = NULL
  /\ \A e \in Range(loop.batch) : loop.interest[e.fd] # NULL

\* Every readable socket is read, whatever the others do: neither callbacks that
\* keep the event array full nor pending callbacks keep the loop from a descriptor
\* that came later.
ReadableIsServed == \A f \in Fds : POLLIN \in loop.ready[f] ~> POLLIN \notin loop.ready[f]

\* A connection with queued replies gets to write when its socket is writable.
WritableIsServed ==
  \A c \in Conns :
    (loop.st[c] = "open" /\ loop.writes[c] > 0 /\ POLLOUT \in loop.ready[loop.fd[c]])
      ~> (loop.st[c] # "open" \/ loop.writes[c] = 0 \/ POLLOUT \notin loop.ready[loop.fd[c]])

\* What only the loop's own queues know of is done: a completed write is finished
\* from the pending queue, in the next turn, and a closed handle is freed.  The loop does not go to sleep
\* on them, nor poll for ever while the others are busy.
QueuedWorkIsDone ==
  \A c \in Conns : /\ loop.st[c] = "closing" ~> loop.st[c] = "none"
                   /\ Contains(loop.pending_queue, c) ~> ~Contains(loop.pending_queue, c)
=============================================================================
