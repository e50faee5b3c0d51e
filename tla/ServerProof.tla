---------------------------- MODULE ServerProof ----------------------------
(***************************************************************************)
(* Theorems about Server for any number of connections, requests, reply    *)
(* lengths and any size of the socket buffer.                              *)
(*                                                                         *)
(* The safety properties of one stream are not inductive alone: that the   *)
(* callbacks free each reply once (OneOwner) needs the two queues to be    *)
(* consecutive runs of request numbers, that the byte count is right       *)
(* (Counted) needs the queues to be disjoint, which those runs give, and   *)
(* that a freed handle leaves nothing behind needs both queues empty there *)
(* and the watcher stopped since uv_close.  ConnInv is that conjunction.   *)
(* Good is the part that does not look at the handle; each operator of     *)
(* libuv has a lemma that says which fields it changes and a lemma that it *)
(* preserves Good.  Streams only meet in proc, so that a step of the       *)
(* server is a step of one stream.                                         *)
(*                                                                         *)
(* The order of replies needs an invariant of its own on top of that one   *)
(* (OrderInv, in the last part): which replies are written, by where they  *)
(* are in the queue, and that nothing is written after an error.           *)
(***************************************************************************)
EXTENDS Server, TLAPS

\* The state of a stream's queues, whatever its handle is.
Good(s) == s \in ConnType /\ OneOwner(s) /\ Counted(s)

\* Fields no operator of the write path changes.
SameRest(t, s) ==
  /\ t.handle = s.handle /\ t.peer = s.peer /\ t.asked = s.asked
  /\ t.inbox = s.inbox /\ t.nreq = s.nreq

-----------------------------------------------------------------------------
\* The types of the fields of a stream.
LEMMA TypeFacts ==
  ASSUME NEW s \in ConnType
  PROVE  /\ s.nreq \in 0..MaxReqs /\ s.room \in 0..SockBuf
         /\ s.inbox \in 0..MaxReqs /\ s.asked \in 0..MaxReqs
         /\ s.len \in [ReqIds -> Nat] /\ s.left \in [ReqIds -> Nat]
         /\ s.mem \in [ReqIds -> {"none", "live", "freed", "double"}]
         /\ s.queue \in Seq(ReqIds) /\ s.completed \in Seq(ReqIds)
         /\ s.failed \subseteq ReqIds /\ s.size \in [ReqIds -> Int]
         /\ s.wake \subseteq {"POLLOUT", "pending"}
BY DEF ConnType

\* The elements of a sequence of consecutive numbers.
LEMMA RangeOfRun ==
  ASSUME NEW q \in Seq(ReqIds), NEW f \in Int,
         \A k \in 1..Len(q) : q[k] = f + k - 1,
         NEW i \in Int
  PROVE  i \in Range(q) <=> (f <= i /\ i < f + Len(q))
<1>1. Len(q) \in Nat /\ DOMAIN q = 1..Len(q)
  OBVIOUS
<1>2. i \in Range(q) <=> \E k \in 1..Len(q) : i = f + k - 1
  BY <1>1 DEF Range
<1>3. ASSUME f <= i, i < f + Len(q)
      PROVE  \E k \in 1..Len(q) : i = f + k - 1
  <2>1. i - f + 1 \in 1..Len(q) /\ i = f + (i - f + 1) - 1
    BY <1>1, <1>3
  <2> QED BY <2>1
<1>4. ASSUME NEW k \in 1..Len(q), i = f + k - 1
      PROVE  f <= i /\ i < f + Len(q)
  BY <1>1, <1>4
<1> QED BY <1>2, <1>3, <1>4

\* The first owned request as an integer.
LEMMA Sizes ==
  ASSUME NEW s \in ConnType
  PROVE  /\ s.nreq \in Nat /\ Len(s.queue) \in Nat /\ Len(s.completed) \in Nat
         /\ FirstOwned(s) \in Int
         /\ FirstOwned(s) = s.nreq + 1 - Len(s.queue) - Len(s.completed)
<1>1. s.nreq \in Nat /\ Len(s.queue) \in Nat /\ Len(s.completed) \in Nat
  BY TypeFacts, ServerAssumption
<1>2. \A a, b, c \in Nat : a - b - c + 1 \in Int /\ a - b - c + 1 = a + 1 - b - c
  OBVIOUS
<1> QED BY <1>1, <1>2 DEF FirstOwned

\* Under OneOwner the two queues are adjacent runs of request numbers.
LEMMA Ranges ==
  ASSUME NEW s \in ConnType, OneOwner(s), NEW i \in ReqIds
  PROVE  /\ i \in Range(s.completed) <=>
              (FirstOwned(s) <= i /\ i < FirstOwned(s) + Len(s.completed))
         /\ i \in Range(s.queue) <=>
              (FirstOwned(s) + Len(s.completed) <= i /\ i <= s.nreq)
<1>1. i \in Int
  BY DEF ReqIds
<1>2. s.completed \in Seq(ReqIds) /\ s.queue \in Seq(ReqIds)
  BY TypeFacts
<1> DEFINE f == FirstOwned(s)
           g == f + Len(s.completed)
<1>3. f \in Int /\ g \in Int /\ g + Len(s.queue) = s.nreq + 1 /\ s.nreq \in Nat /\ Len(s.queue) \in Nat
  <2>1. \A a, b, c \in Nat, d \in Int : d = a + 1 - b - c => d + c \in Int /\ d + c + b = a + 1
    OBVIOUS
  <2>2. /\ s.nreq \in Nat /\ Len(s.queue) \in Nat /\ Len(s.completed) \in Nat /\ f \in Int
        /\ f = s.nreq + 1 - Len(s.queue) - Len(s.completed)
    BY Sizes
  <2> HIDE DEF f
  <2> QED BY <2>1, <2>2
<1>4. \A k \in 1..Len(s.completed) : s.completed[k] = f + k - 1
  BY DEF OneOwner
<1>5. \A k \in 1..Len(s.queue) : s.queue[k] = g + k - 1
  BY Zenon DEF OneOwner
<1> HIDE DEF f, g
<1>6. i \in Range(s.completed) <=> (f <= i /\ i < f + Len(s.completed))
  BY <1>1, <1>2, <1>3, <1>4, RangeOfRun
<1>7. i \in Range(s.queue) <=> (g <= i /\ i < g + Len(s.queue))
  BY <1>1, <1>2, <1>3, <1>5, RangeOfRun
<1>8. (i < g + Len(s.queue)) <=> i <= s.nreq
  BY <1>1, <1>3
<1> QED BY <1>6, <1>7, <1>8 DEF f, g

-----------------------------------------------------------------------------
\* What uv__write_req_finish changes.
LEMMA FinishFields ==
  ASSUME NEW s \in ConnType, s.queue # <<>>
  PROVE  LET t == uv__write_req_finish(s)
         IN  /\ t \in ConnType
             /\ SameRest(t, s)
             /\ t.queue = Tail(s.queue)
             /\ t.completed = Append(s.completed, Head(s.queue))
             /\ t.wake = s.wake \cup {"pending"}
             /\ t.mem = s.mem /\ t.left = s.left /\ t.size = s.size /\ t.failed = s.failed
<1>1. s.queue \in Seq(ReqIds) /\ s.completed \in Seq(ReqIds) BY TypeFacts
<1>2. Tail(s.queue) \in Seq(ReqIds) /\ Head(s.queue) \in ReqIds BY <1>1
<1>3. Append(s.completed, Head(s.queue)) \in Seq(ReqIds) BY <1>1, <1>2
<1>4. s.wake \cup {"pending"} \in SUBSET {"POLLOUT", "pending"} BY TypeFacts
<1> QED BY <1>2, <1>3, <1>4 DEF ConnType, uv__write_req_finish, SameRest

\* What uv__write_req_update changes.
LEMMA UpdateFields ==
  ASSUME NEW s \in ConnType, s.queue # <<>>, NEW n \in Nat,
         n <= s.left[Head(s.queue)], n <= s.room
  PROVE  LET t == uv__write_req_update(s, n)
             h == Head(s.queue)
         IN  /\ t \in ConnType
             /\ SameRest(t, s)
             /\ t.queue = s.queue /\ t.completed = s.completed /\ t.wake = s.wake
             /\ t.mem = s.mem /\ t.failed = s.failed
             /\ t.left = [s.left EXCEPT ![h] = s.left[h] - n]
             /\ t.size = [s.size EXCEPT ![h] = s.size[h] - n]
<1> DEFINE h == Head(s.queue)
<1>1. h \in ReqIds BY TypeFacts
<1>2. [s.left EXCEPT ![h] = s.left[h] - n] \in [ReqIds -> Nat] BY <1>1, TypeFacts
<1>3. [s.size EXCEPT ![h] = s.size[h] - n] \in [ReqIds -> Int] BY <1>1, TypeFacts
<1>4. s.room - n \in 0..SockBuf BY TypeFacts, ServerAssumption
<1> QED BY <1>1, <1>2, <1>3, <1>4 DEF ConnType, uv__write_req_update, SameRest

\* What the queueing part of uv_write2 changes.
LEMMA EnqueueFields ==
  ASSUME NEW s \in ConnType, NEW n \in Nat, s.nreq < MaxReqs
  PROVE  LET t == Enqueue(s, n)
             id == s.nreq + 1
         IN  /\ t \in ConnType
             /\ id \in ReqIds
             /\ t.nreq = id
             /\ t.handle = s.handle /\ t.peer = s.peer /\ t.asked = s.asked /\ t.inbox = s.inbox
             /\ t.queue = Append(s.queue, id) /\ t.completed = s.completed /\ t.wake = s.wake
             /\ t.failed = s.failed
             /\ t.mem = [s.mem EXCEPT ![id] = "live"]
             /\ t.left = [s.left EXCEPT ![id] = n]
             /\ t.size = [s.size EXCEPT ![id] = s.size[id] + n]
<1> DEFINE id == s.nreq + 1
<1>1. id \in ReqIds /\ id \in 0..MaxReqs BY TypeFacts, ServerAssumption DEF ReqIds
<1>2. Append(s.queue, id) \in Seq(ReqIds) BY <1>1, TypeFacts
<1>3. [s.mem EXCEPT ![id] = "live"] \in [ReqIds -> {"none", "live", "freed", "double"}] BY <1>1, TypeFacts
<1>4. [s.left EXCEPT ![id] = n] \in [ReqIds -> Nat] BY <1>1, TypeFacts
<1>5. [s.len EXCEPT ![id] = n] \in [ReqIds -> Nat] BY <1>1, TypeFacts
<1>6. [s.size EXCEPT ![id] = s.size[id] + n] \in [ReqIds -> Int] BY <1>1, TypeFacts
<1> QED BY <1>1, <1>2, <1>3, <1>4, <1>5, <1>6 DEF ConnType, Enqueue

\* What uv__write_callbacks changes.
LEMMA CallbackFields ==
  ASSUME NEW s \in ConnType
  PROVE  LET t == uv__write_callbacks(s)
         IN  /\ t \in ConnType
             /\ SameRest(t, s)
             /\ t.queue = s.queue /\ t.completed = <<>> /\ t.wake = s.wake
             /\ t.failed = s.failed /\ t.left = s.left
             /\ t.mem = Callbacks(s)
             /\ t.size = [i \in ReqIds |-> IF i \in Range(s.completed) \cap s.failed
                                           THEN s.size[i] - s.left[i] ELSE s.size[i]]
<1> DEFINE z == [i \in ReqIds |-> IF i \in Range(s.completed) \cap s.failed
                                           THEN s.size[i] - s.left[i] ELSE s.size[i]]
<1>1. Callbacks(s) \in [ReqIds -> {"none", "live", "freed", "double"}]
  BY TypeFacts DEF Callbacks, on_write_cb
<1>2. z \in [ReqIds -> Int] BY TypeFacts
<1>3. <<>> \in Seq(ReqIds) OBVIOUS
<1>4. uv__write_callbacks(s) = [s EXCEPT !.mem = Callbacks(s), !.size = z, !.completed = <<>>]
  BY DEF uv__write_callbacks
<1> HIDE DEF z
<1>5. uv__write_callbacks(s).size = z BY <1>4 DEF ConnType
<1>6. /\ uv__write_callbacks(s) \in ConnType
      /\ SameRest(uv__write_callbacks(s), s)
      /\ LET t == uv__write_callbacks(s)
         IN  /\ t.queue = s.queue /\ t.completed = <<>> /\ t.wake = s.wake
             /\ t.failed = s.failed /\ t.left = s.left
             /\ t.mem = Callbacks(s)
  <2> HIDE DEF uv__write_callbacks
  <2> DEFINE cb == Callbacks(s)
  <2> HIDE DEF cb
  <2>1. cb = Callbacks(s) BY DEF cb
  <2>2. uv__write_callbacks(s) = [s EXCEPT !.mem = cb, !.size = z, !.completed = <<>>]
    BY <1>4, <2>1
  <2>3. cb \in [ReqIds -> {"none", "live", "freed", "double"}]
    BY <1>1, <2>1
  <2>4. [s EXCEPT !.mem = cb, !.size = z, !.completed = <<>>] \in ConnType
    BY <2>3, <1>2, <1>3 DEF ConnType
  <2>5. LET t == [s EXCEPT !.mem = cb, !.size = z, !.completed = <<>>]
        IN  /\ t.queue = s.queue /\ t.completed = <<>> /\ t.wake = s.wake
            /\ t.failed = s.failed /\ t.left = s.left /\ t.mem = cb /\ SameRest(t, s)
    BY DEF ConnType, SameRest
  <2> QED BY <2>1, <2>2, <2>4, <2>5
<1> QED BY <1>5, <1>6 DEF z

\* What uv__stream_flush_write_queue changes.
LEMMA FlushFields ==
  ASSUME NEW s \in ConnType
  PROVE  LET t == uv__stream_flush_write_queue(s)
         IN  /\ t \in ConnType
             /\ SameRest(t, s)
             /\ t.queue = <<>> /\ t.completed = s.completed \o s.queue /\ t.wake = s.wake
             /\ t.failed = s.failed \cup Range(s.queue) /\ t.left = s.left
             /\ t.mem = s.mem /\ t.size = s.size
<1>1. s.completed \o s.queue \in Seq(ReqIds) BY TypeFacts
<1>2. Range(s.queue) \subseteq ReqIds
  <2>1. DOMAIN s.queue = 1..Len(s.queue) /\ \A k \in 1..Len(s.queue) : s.queue[k] \in ReqIds BY TypeFacts
  <2> QED BY <2>1 DEF Range
<1>3. s.failed \cup Range(s.queue) \in SUBSET ReqIds BY <1>2, TypeFacts
<1>4. <<>> \in Seq(ReqIds) OBVIOUS
<1> QED BY <1>1, <1>3, <1>4 DEF ConnType, uv__stream_flush_write_queue, SameRest

-----------------------------------------------------------------------------
\* A request that is written, or failed, may move to the completed queue.
LEMMA FinishGood ==
  ASSUME NEW s, Good(s), s.queue # <<>>,
         s.left[Head(s.queue)] = 0 \/ Head(s.queue) \in s.failed
  PROVE  Good(uv__write_req_finish(s))
<1> DEFINE t == uv__write_req_finish(s)
           h == Head(s.queue)
           f == FirstOwned(s)
           q == Len(s.queue)
           c == Len(s.completed)
<1>0. s \in ConnType /\ OneOwner(s) /\ Counted(s)
  BY DEF Good
<1>1. /\ t \in ConnType /\ t.nreq = s.nreq
      /\ t.queue = Tail(s.queue) /\ t.completed = Append(s.completed, h)
      /\ t.mem = s.mem /\ t.left = s.left /\ t.size = s.size /\ t.failed = s.failed
  BY <1>0, FinishFields DEF SameRest
<1> HIDE DEF t
<1>2. /\ s.queue \in Seq(ReqIds) /\ s.completed \in Seq(ReqIds)
      /\ q \in Nat /\ c \in Nat /\ s.nreq \in Nat /\ f \in Int /\ f = s.nreq + 1 - q - c
  BY <1>0, TypeFacts, Sizes
<1>3. q >= 1 /\ h = s.queue[1] /\ h \in ReqIds
  BY <1>2
<1>4. Len(t.queue) = q - 1 /\ Len(t.completed) = c + 1
  BY <1>1, <1>2, <1>3
<1>5. FirstOwned(t) = f
  <2>1. \A a, b, d \in Int : a - (b - 1) - (d + 1) + 1 = a + 1 - b - d
    OBVIOUS
  <2> HIDE DEF f, q, c
  <2>2. FirstOwned(t) = s.nreq - (q - 1) - (c + 1) + 1
    BY <1>1, <1>4 DEF FirstOwned
  <2> QED BY <2>1, <2>2, <1>2
<1>6. h = f + c
  <2>0. 1 \in 1..q
    BY <1>2, <1>3
  <2>1. h = f + c + 1 - 1
    BY <1>0, <1>3, <2>0 DEF OneOwner
  <2> HIDE DEF h, f, c, q
  <2> QED BY <2>1, <1>2
<1>7. OneOwner(t)
  <2>1. f >= 1
    BY <1>0 DEF OneOwner
  <2>2. ASSUME NEW k \in 1..(c + 1)
        PROVE  t.completed[k] = f + k - 1
    <3>1. CASE k = c + 1
      <4>1. t.completed[k] = h
        BY <3>1, <1>1, <1>2
      <4> HIDE DEF h, f, c
      <4> QED BY <4>1, <3>1, <1>6, <1>2
    <3>2. CASE k # c + 1
      <4>1. k \in 1..c
        BY <3>2, <1>2
      <4>2. t.completed[k] = s.completed[k]
        BY <4>1, <1>1, <1>2
      <4> QED BY <4>1, <4>2, <1>0 DEF OneOwner
    <3> QED BY <3>1, <3>2
  <2>3. ASSUME NEW k \in 1..(q - 1)
        PROVE  t.queue[k] = f + (c + 1) + k - 1
    <3>1. k + 1 \in 1..q
      BY <1>2
    <3>2. t.queue[k] = s.queue[k + 1]
      BY <3>1, <1>1, <1>2, <1>3
    <3>3. s.queue[k + 1] = f + c + (k + 1) - 1
      BY <3>1, <1>0 DEF OneOwner
    <3> HIDE DEF f, c, q
    <3> QED BY <3>2, <3>3, <1>2
  <2> HIDE DEF f
  <2> QED BY <2>1, <2>2, <2>3, <1>0, <1>1, <1>4, <1>5 DEF OneOwner, f
<1>8. ASSUME NEW i \in ReqIds
      PROVE  t.size[i] = IF i \in Range(t.queue) \cup (Range(t.completed) \cap t.failed)
                         THEN t.left[i] ELSE 0
  <2>1. s.size[i] = IF i \in Range(s.queue) \cup (Range(s.completed) \cap s.failed)
                         THEN s.left[i] ELSE 0
    BY <1>0 DEF Counted
  <2>2. i \in Range(s.completed) <=> (f <= i /\ i < f + c)
    BY <1>0, Ranges
  <2>3. i \in Range(s.queue) <=> (f + c <= i /\ i <= s.nreq)
    BY <1>0, Ranges
  <2>4. i \in Range(t.completed) <=> (f <= i /\ i < f + (c + 1))
    BY <1>1, <1>4, <1>5, <1>7, Ranges
  <2>5. i \in Range(t.queue) <=> (f + (c + 1) <= i /\ i <= s.nreq)
    BY <1>1, <1>4, <1>5, <1>7, Ranges
  <2> HIDE DEF f, c, q, h
  <2>6. i \in Int
    BY DEF ReqIds
  <2>7. CASE i = h
    <3>1. i \in Range(s.queue)
      BY <2>7, <2>3, <1>2, <1>3, <1>6, <2>6
    <3>2. i \notin Range(t.queue) /\ i \in Range(t.completed)
      BY <2>7, <2>4, <2>5, <1>2, <1>3, <1>6, <2>6
    <3>3. s.left[i] = 0 \/ i \in s.failed
      BY <2>7 DEF h
    <3> QED BY <3>1, <3>2, <3>3, <2>1, <1>1
  <2>8. CASE i # h
    <3>0. (f + (c + 1) <= i <=> f + c <= i) /\ (i < f + (c + 1) <=> i < f + c)
      BY <2>8, <1>2, <1>6, <2>6
    <3>1. i \in Range(t.queue) <=> i \in Range(s.queue)
      BY <3>0, <2>3, <2>5
    <3>2. i \in Range(t.completed) <=> i \in Range(s.completed)
      BY <3>0, <2>2, <2>4
    <3> QED BY <3>1, <3>2, <2>1, <1>1
  <2> QED BY <2>7, <2>8
<1> QED BY <1>1, <1>7, <1>8 DEF Good, Counted, t

\* Fields the queues' invariants depend on.
SameQueues(t, s) ==
  /\ t.nreq = s.nreq /\ t.queue = s.queue /\ t.completed = s.completed
  /\ t.mem = s.mem /\ t.left = s.left /\ t.size = s.size /\ t.failed = s.failed

\* Good depends on the queues' fields only.
LEMMA Frame ==
  ASSUME NEW s, NEW t \in ConnType, Good(s), SameQueues(t, s)
  PROVE  Good(t)
<1>1. FirstOwned(t) = FirstOwned(s)
  BY DEF SameQueues, FirstOwned
<1>2. OneOwner(t)
  BY <1>1 DEF Good, OneOwner, SameQueues
<1>3. Counted(t)
  BY DEF Good, Counted, SameQueues
<1> QED BY <1>2, <1>3 DEF Good

\* Setting the error of the first request keeps Good.
LEMMA FailGood ==
  ASSUME NEW s, Good(s), s.queue # <<>>
  PROVE  LET t == [s EXCEPT !.failed = @ \cup {Head(s.queue)}]
         IN  /\ Good(t) /\ SameRest(t, s) /\ t.queue = s.queue /\ t.completed = s.completed
             /\ t.wake = s.wake /\ Head(s.queue) \in t.failed
<1> DEFINE h == Head(s.queue)
           t == [s EXCEPT !.failed = @ \cup {h}]
<1>0. s \in ConnType /\ OneOwner(s) /\ Counted(s)
  BY DEF Good
<1>1. s.queue \in Seq(ReqIds) /\ h \in ReqIds /\ h = s.queue[1] /\ 1 \in DOMAIN s.queue
  BY <1>0, TypeFacts
<1>2. h \in Range(s.queue)
  BY <1>1 DEF Range
<1>3. s.failed \cup {h} \in SUBSET ReqIds
  BY <1>0, <1>1, TypeFacts
<1> HIDE DEF h
<1>4. /\ t \in ConnType /\ SameRest(t, s) /\ t.failed = s.failed \cup {h}
      /\ t.queue = s.queue /\ t.completed = s.completed /\ t.wake = s.wake
      /\ t.mem = s.mem /\ t.left = s.left /\ t.size = s.size
  BY <1>0, <1>3 DEF ConnType, SameRest
<1> HIDE DEF t
<1>5. FirstOwned(t) = FirstOwned(s)
  BY <1>4 DEF FirstOwned, SameRest
<1>6. OneOwner(t)
  BY <1>0, <1>4, <1>5 DEF OneOwner, SameRest
<1>7. Counted(t)
  BY <1>0, <1>2, <1>4 DEF Counted
<1>8. Good(t)
  BY <1>4, <1>6, <1>7 DEF Good
<1> QED BY <1>4, <1>8 DEF t, h

\* Writing a part of the first request keeps Good.
LEMMA UpdateGood ==
  ASSUME NEW s, Good(s), s.queue # <<>>, NEW n \in Nat,
         n <= s.left[Head(s.queue)], n <= s.room
  PROVE  Good(uv__write_req_update(s, n))
<1> DEFINE t == uv__write_req_update(s, n)
           h == Head(s.queue)
<1>0. s \in ConnType /\ OneOwner(s) /\ Counted(s)
  BY DEF Good
<1>1. /\ t \in ConnType /\ t.nreq = s.nreq
      /\ t.queue = s.queue /\ t.completed = s.completed
      /\ t.mem = s.mem /\ t.failed = s.failed
      /\ t.left = [s.left EXCEPT ![h] = s.left[h] - n]
      /\ t.size = [s.size EXCEPT ![h] = s.size[h] - n]
  BY <1>0, UpdateFields DEF SameRest
<1> HIDE DEF t
<1>2. s.queue \in Seq(ReqIds) /\ h \in ReqIds /\ h = s.queue[1] /\ 1 \in DOMAIN s.queue
  BY <1>0, TypeFacts
<1>3. h \in Range(s.queue)
  BY <1>2 DEF Range
<1>4. s.left \in [ReqIds -> Nat] /\ s.size \in [ReqIds -> Int]
  BY <1>0, TypeFacts
<1> HIDE DEF h
<1>5. FirstOwned(t) = FirstOwned(s)
  BY <1>1 DEF FirstOwned
<1>6. OneOwner(t)
  BY <1>0, <1>1, <1>5 DEF OneOwner
<1>7. ASSUME NEW i \in ReqIds
      PROVE  t.size[i] = IF i \in Range(t.queue) \cup (Range(t.completed) \cap t.failed)
                         THEN t.left[i] ELSE 0
  <2>1. s.size[i] = IF i \in Range(s.queue) \cup (Range(s.completed) \cap s.failed)
                         THEN s.left[i] ELSE 0
    BY <1>0 DEF Counted
  <2>2. CASE i = h
    BY <2>1, <2>2, <1>1, <1>3, <1>4
  <2>3. CASE i # h
    BY <2>1, <2>3, <1>1, <1>4
  <2> QED BY <2>2, <2>3
<1> QED BY <1>1, <1>6, <1>7 DEF Good, Counted, t

\* Queueing a new request keeps Good.
LEMMA EnqueueGood ==
  ASSUME NEW s, Good(s), NEW n \in Nat, s.nreq < MaxReqs
  PROVE  Good(Enqueue(s, n))
<1> DEFINE t == Enqueue(s, n)
           id == s.nreq + 1
           f == FirstOwned(s)
           q == Len(s.queue)
           c == Len(s.completed)
<1>0. s \in ConnType /\ OneOwner(s) /\ Counted(s)
  BY DEF Good
<1>1. /\ t \in ConnType /\ t.nreq = id /\ id \in ReqIds
      /\ t.queue = Append(s.queue, id) /\ t.completed = s.completed /\ t.failed = s.failed
      /\ t.mem = [s.mem EXCEPT ![id] = "live"]
      /\ t.left = [s.left EXCEPT ![id] = n]
      /\ t.size = [s.size EXCEPT ![id] = s.size[id] + n]
  BY <1>0, EnqueueFields
<1> HIDE DEF t
<1>2. /\ s.queue \in Seq(ReqIds) /\ s.completed \in Seq(ReqIds)
      /\ q \in Nat /\ c \in Nat /\ s.nreq \in Nat /\ f \in Int /\ f = s.nreq + 1 - q - c
  BY <1>0, TypeFacts, Sizes
<1>3. /\ s.left \in [ReqIds -> Nat] /\ s.size \in [ReqIds -> Int]
      /\ s.mem \in [ReqIds -> {"none", "live", "freed", "double"}]
  BY <1>0, TypeFacts
<1>4. Len(t.queue) = q + 1 /\ Len(t.completed) = c
  BY <1>1, <1>2
<1>5. FirstOwned(t) = f /\ id = f + c + q /\ id \in Nat
  <2> HIDE DEF f, q, c
  <2>1. FirstOwned(t) = (s.nreq + 1) - (q + 1) - c + 1
    BY <1>1, <1>4 DEF FirstOwned
  <2>2. \A a, b, d \in Nat : /\ (a + 1) - (b + 1) - d + 1 = a + 1 - b - d
                             /\ (a + 1 - b - d) + d + b = a + 1
                             /\ a + 1 \in Nat
    OBVIOUS
  <2>3. /\ (s.nreq + 1) - (q + 1) - c + 1 = s.nreq + 1 - q - c
        /\ (s.nreq + 1 - q - c) + c + q = s.nreq + 1
        /\ s.nreq + 1 \in Nat
    BY <2>2, <1>2
  <2> QED BY <2>1, <2>3, <1>2
<1>6. OneOwner(t)
  <2>1. f >= 1
    BY <1>0 DEF OneOwner
  <2>2. \A k \in 1..c : t.completed[k] = f + k - 1
    BY <1>0, <1>1 DEF OneOwner
  <2>3. ASSUME NEW k \in 1..(q + 1)
        PROVE  t.queue[k] = f + c + k - 1
    <3>1. CASE k = q + 1
      <4>1. t.queue[k] = id
        BY <3>1, <1>1, <1>2
      <4> HIDE DEF f, c, q, id
      <4> QED BY <4>1, <3>1, <1>5, <1>2
    <3>2. CASE k # q + 1
      <4>1. k \in 1..q
        BY <3>2, <1>2
      <4>2. t.queue[k] = s.queue[k]
        BY <4>1, <1>1, <1>2
      <4> QED BY <4>1, <4>2, <1>0 DEF OneOwner
    <3> QED BY <3>1, <3>2
  <2>4. ASSUME NEW i \in ReqIds
        PROVE  t.mem[i] = IF i > id THEN "none" ELSE IF i >= f THEN "live" ELSE "freed"
    <3>1. s.mem[i] = IF i > s.nreq THEN "none" ELSE IF i >= f THEN "live" ELSE "freed"
      BY <1>0 DEF OneOwner
    <3>2. i \in Int
      BY DEF ReqIds
    <3>3. CASE i = id
      <4>1. t.mem[i] = "live"
        BY <3>3, <1>1, <1>3
      <4> HIDE DEF f, q, c, id
      <4>2. ~(i > id) /\ i >= f
        BY <3>3, <3>2, <1>5, <1>2
      <4> QED BY <4>1, <4>2
    <3>4. CASE i # id
      <4>1. t.mem[i] = s.mem[i]
        BY <3>4, <1>1, <1>3
      <4>2. i > id <=> i > s.nreq
        BY <3>2, <3>4, <1>2
      <4> QED BY <3>1, <4>1, <4>2
    <3> QED BY <3>3, <3>4
  <2> HIDE DEF f
  <2> QED BY <2>1, <2>2, <2>3, <2>4, <1>1, <1>4, <1>5 DEF OneOwner
<1>7. ASSUME NEW i \in ReqIds
      PROVE  t.size[i] = IF i \in Range(t.queue) \cup (Range(t.completed) \cap t.failed)
                         THEN t.left[i] ELSE 0
  <2>1. s.size[i] = IF i \in Range(s.queue) \cup (Range(s.completed) \cap s.failed)
                         THEN s.left[i] ELSE 0
    BY <1>0 DEF Counted
  <2>2. i \in Range(s.completed) <=> (f <= i /\ i < f + c)
    BY <1>0, Ranges
  <2>3. i \in Range(s.queue) <=> (f + c <= i /\ i <= s.nreq)
    BY <1>0, Ranges
  <2>4. i \in Range(t.queue) <=> (f + c <= i /\ i <= id)
    <3>1. i \in Range(t.queue) <=> (FirstOwned(t) + Len(t.completed) <= i /\ i <= t.nreq)
      BY <1>1, <1>6, Ranges
    <3> HIDE DEF f, c, id
    <3> QED BY <3>1, <1>1, <1>4, <1>5
  <2>5. i \in Int
    BY DEF ReqIds
  <2>6. CASE i = id
    <3> HIDE DEF f, c, q
    <3>1. ~(i <= s.nreq) /\ ~(i < f + c) /\ f + c <= i /\ i <= id
      BY <2>5, <2>6, <1>2, <1>5
    <3>2. s.size[i] = 0
      BY <3>1, <2>1, <2>2, <2>3
    <3>3. i \in Range(t.queue)
      BY <3>1, <2>4
    <3>4. t.size[i] = s.size[i] + n /\ t.left[i] = n
      BY <2>6, <1>1, <1>3
    <3> QED BY <3>2, <3>3, <3>4
  <2>7. CASE i # id
    <3>1. t.size[i] = s.size[i] /\ t.left[i] = s.left[i]
      BY <2>7, <1>1, <1>3
    <3>2. i <= id <=> i <= s.nreq
      BY <2>5, <2>7, <1>2
    <3> HIDE DEF id
    <3>3. i \in Range(t.queue) <=> i \in Range(s.queue)
      BY <3>2, <2>3, <2>4
    <3> QED BY <3>1, <3>3, <2>1, <1>1
  <2> QED BY <2>6, <2>7
<1> QED BY <1>1, <1>6, <1>7 DEF Good, Counted, t

\* The callbacks free every completed request once, and settle the count.
LEMMA CallbackGood ==
  ASSUME NEW s, Good(s)
  PROVE  Good(uv__write_callbacks(s))
<1> DEFINE t == uv__write_callbacks(s)
           f == FirstOwned(s)
           q == Len(s.queue)
           c == Len(s.completed)
<1>0. s \in ConnType /\ OneOwner(s) /\ Counted(s)
  BY DEF Good
<1>1. /\ t \in ConnType /\ t.nreq = s.nreq /\ t.queue = s.queue /\ t.completed = <<>>
      /\ t.failed = s.failed /\ t.left = s.left /\ t.mem = Callbacks(s)
      /\ t.size = [i \in ReqIds |-> IF i \in Range(s.completed) \cap s.failed
                                    THEN s.size[i] - s.left[i] ELSE s.size[i]]
  BY <1>0, CallbackFields DEF SameRest
<1> HIDE DEF t
<1>2. /\ s.queue \in Seq(ReqIds) /\ s.completed \in Seq(ReqIds)
      /\ q \in Nat /\ c \in Nat /\ s.nreq \in Nat /\ f \in Int /\ f = s.nreq + 1 - q - c
  BY <1>0, TypeFacts, Sizes
<1>3. s.left \in [ReqIds -> Nat] /\ s.size \in [ReqIds -> Int]
  BY <1>0, TypeFacts
<1>4. Len(t.completed) = 0 /\ Range(t.completed) = {}
  BY <1>1 DEF Range
<1>5. FirstOwned(t) = f + c /\ f >= 1 /\ f + c \in Int /\ f + c >= 1
  <2>1. f >= 1
    BY <1>0 DEF OneOwner
  <2>2. FirstOwned(t) = s.nreq - q - 0 + 1
    BY <1>1, <1>4 DEF FirstOwned
  <2> HIDE DEF f, q, c
  <2>3. \A a, b, d \in Nat : a - b - 0 + 1 = (a + 1 - b - d) + d
    OBVIOUS
  <2>4. s.nreq - q - 0 + 1 = (s.nreq + 1 - q - c) + c
    BY <2>3, <1>2
  <2>5. FirstOwned(t) = f + c
    BY <2>2, <2>4, <1>2
  <2>6. f + c \in Int /\ f + c >= 1
    BY <2>1, <1>2
  <2> QED BY <2>1, <2>5, <2>6
<1>6. OneOwner(t)
  <2>1. \A k \in 1..0 : t.completed[k] = (f + c) + k - 1
    OBVIOUS
  <2>2. ASSUME NEW k \in 1..q
        PROVE  t.queue[k] = (f + c) + 0 + k - 1
    <3>1. t.queue[k] = f + c + k - 1
      BY <1>0, <1>1 DEF OneOwner
    <3> HIDE DEF f, c, q
    <3>2. f + c + k - 1 = (f + c) + 0 + k - 1
      BY <1>2
    <3> QED BY <3>1, <3>2
  <2>3. ASSUME NEW i \in ReqIds
        PROVE  t.mem[i] = IF i > s.nreq THEN "none" ELSE IF i >= f + c THEN "live" ELSE "freed"
    <3>1. s.mem[i] = IF i > s.nreq THEN "none" ELSE IF i >= f THEN "live" ELSE "freed"
      BY <1>0 DEF OneOwner
    <3>2. t.mem[i] = IF i \in Range(s.completed) THEN on_write_cb(s.mem[i]) ELSE s.mem[i]
      BY <1>1 DEF Callbacks
    <3>3. i \in Range(s.completed) <=> (f <= i /\ i < f + c)
      BY <1>0, Ranges
    <3>4. i \in Int
      BY DEF ReqIds
    <3> HIDE DEF f, q, c
    <3>5. f + c <= s.nreq + 1
      <4>1. \A a, b, d \in Nat : (a + 1 - b - d) + d <= a + 1
        OBVIOUS
      <4>2. (s.nreq + 1 - q - c) + c <= s.nreq + 1
        BY <4>1, <1>2
      <4> QED BY <4>2, <1>2
    <3>6. CASE i > s.nreq
      BY <3>1, <3>2, <3>3, <3>4, <3>5, <3>6, <1>2, <1>5
    <3>7. CASE ~(i > s.nreq) /\ i >= f + c
      BY <3>1, <3>2, <3>3, <3>4, <3>7, <1>2, <1>5
    <3>8. CASE ~(i > s.nreq) /\ ~(i >= f + c) /\ i >= f
      BY <3>1, <3>2, <3>3, <3>4, <3>8, <1>2, <1>5 DEF on_write_cb
    <3>9. CASE ~(i > s.nreq) /\ ~(i >= f + c) /\ ~(i >= f)
      BY <3>1, <3>2, <3>3, <3>4, <3>9, <1>2, <1>5
    <3> QED BY <3>6, <3>7, <3>8, <3>9
  <2> HIDE DEF f, c
  <2> QED BY <2>1, <2>2, <2>3, <1>1, <1>4, <1>5 DEF OneOwner
<1>7. ASSUME NEW i \in ReqIds
      PROVE  t.size[i] = IF i \in Range(t.queue) \cup (Range(t.completed) \cap t.failed)
                         THEN t.left[i] ELSE 0
  <2>1. s.size[i] = IF i \in Range(s.queue) \cup (Range(s.completed) \cap s.failed)
                         THEN s.left[i] ELSE 0
    BY <1>0 DEF Counted
  <2>2. i \in Range(s.completed) => i \notin Range(s.queue)
    <3>1. /\ i \in Range(s.completed) <=> (f <= i /\ i < f + c)
          /\ i \in Range(s.queue) <=> (f + c <= i /\ i <= s.nreq)
      BY <1>0, Ranges
    <3>2. i \in Int
      BY DEF ReqIds
    <3> HIDE DEF f, c
    <3> QED BY <3>1, <3>2, <1>5
  <2>3. t.size[i] = IF i \in Range(s.completed) \cap s.failed
                    THEN s.size[i] - s.left[i] ELSE s.size[i]
    BY <1>1
  <2>4. s.left[i] \in Int /\ s.size[i] \in Int
    BY <1>3
  <2> QED BY <2>1, <2>2, <2>3, <2>4, <1>1, <1>4
<1> QED BY <1>1, <1>6, <1>7 DEF Good, Counted, t

\* Cancelling what is queued keeps Good.
LEMMA FlushGood ==
  ASSUME NEW s, Good(s)
  PROVE  Good(uv__stream_flush_write_queue(s))
<1> DEFINE t == uv__stream_flush_write_queue(s)
           f == FirstOwned(s)
           q == Len(s.queue)
           c == Len(s.completed)
<1>0. s \in ConnType /\ OneOwner(s) /\ Counted(s)
  BY DEF Good
<1>1. /\ t \in ConnType /\ t.nreq = s.nreq /\ t.queue = <<>>
      /\ t.completed = s.completed \o s.queue /\ t.failed = s.failed \cup Range(s.queue)
      /\ t.left = s.left /\ t.mem = s.mem /\ t.size = s.size
  BY <1>0, FlushFields DEF SameRest
<1> HIDE DEF t
<1>2. /\ s.queue \in Seq(ReqIds) /\ s.completed \in Seq(ReqIds)
      /\ q \in Nat /\ c \in Nat /\ s.nreq \in Nat /\ f \in Int /\ f = s.nreq + 1 - q - c
  BY <1>0, TypeFacts, Sizes
<1>3. Len(t.queue) = 0 /\ Len(t.completed) = c + q /\ Range(t.queue) = {}
  BY <1>1, <1>2 DEF Range
<1>4. FirstOwned(t) = f
  <2>1. FirstOwned(t) = s.nreq - 0 - (c + q) + 1
    BY <1>1, <1>3 DEF FirstOwned
  <2> HIDE DEF f, q, c
  <2>2. \A a, b, d \in Nat : a - 0 - (d + b) + 1 = a + 1 - b - d
    OBVIOUS
  <2>3. s.nreq - 0 - (c + q) + 1 = s.nreq + 1 - q - c
    BY <2>2, <1>2
  <2> QED BY <2>1, <2>3, <1>2
<1>5. OneOwner(t)
  <2>1. f >= 1
    BY <1>0 DEF OneOwner
  <2>2. ASSUME NEW k \in 1..(c + q)
        PROVE  t.completed[k] = f + k - 1
    <3>1. CASE k <= c
      <4>1. k \in 1..c
        BY <3>1, <1>2
      <4>2. t.completed[k] = s.completed[k]
        BY <4>1, <1>1, <1>2
      <4> QED BY <4>1, <4>2, <1>0 DEF OneOwner
    <3>2. CASE ~(k <= c)
      <4>0. \A a, b \in Nat : \A j \in 1..(a + b) : ~(j <= a) => j - a \in 1..b
        OBVIOUS
      <4>1. k - c \in 1..q
        BY <4>0, <3>2, <1>2
      <4>2. t.completed[k] = s.queue[k - c]
        BY <4>1, <3>2, <1>1, <1>2
      <4>3. s.queue[k - c] = f + c + (k - c) - 1
        BY <4>1, <1>0 DEF OneOwner
      <4> HIDE DEF f, c, q
      <4>4. f + c + (k - c) - 1 = f + k - 1
        BY <1>2
      <4> QED BY <4>2, <4>3, <4>4
    <3> QED BY <3>1, <3>2
  <2>3. \A i \in ReqIds : t.mem[i] = IF i > s.nreq THEN "none"
                                     ELSE IF i >= f THEN "live" ELSE "freed"
    BY <1>0, <1>1 DEF OneOwner
  <2>4. \A k \in 1..0 : t.queue[k] = f + (c + q) + k - 1
    OBVIOUS
  <2> HIDE DEF f, c, q
  <2> QED BY <2>1, <2>2, <2>3, <2>4, <1>1, <1>3, <1>4 DEF OneOwner
<1>6. ASSUME NEW i \in ReqIds
      PROVE  t.size[i] = IF i \in Range(t.queue) \cup (Range(t.completed) \cap t.failed)
                         THEN t.left[i] ELSE 0
  <2>1. s.size[i] = IF i \in Range(s.queue) \cup (Range(s.completed) \cap s.failed)
                         THEN s.left[i] ELSE 0
    BY <1>0 DEF Counted
  <2>2. /\ i \in Range(s.completed) <=> (f <= i /\ i < f + c)
        /\ i \in Range(s.queue) <=> (f + c <= i /\ i <= s.nreq)
    BY <1>0, Ranges
  <2>3. i \in Range(t.completed) <=> (f <= i /\ i < f + (c + q))
    <3>1. i \in Range(t.completed) <=> (FirstOwned(t) <= i /\ i < FirstOwned(t) + Len(t.completed))
      BY <1>1, <1>5, Ranges
    <3> HIDE DEF f, c, q
    <3> QED BY <3>1, <1>3, <1>4
  <2>4. i \in Int
    BY DEF ReqIds
  <2> HIDE DEF f, c, q
  <2>5. f + (c + q) = s.nreq + 1
    <3>1. \A a, b, d \in Nat : (a + 1 - b - d) + (d + b) = a + 1
      OBVIOUS
    <3>2. (s.nreq + 1 - q - c) + (c + q) = s.nreq + 1
      BY <3>1, <1>2
    <3> QED BY <3>2, <1>2
  <2>6. i < f + (c + q) <=> i <= s.nreq
    BY <2>4, <2>5, <1>2
  <2>7. i \in Range(t.completed) <=> i \in Range(s.completed) \cup Range(s.queue)
    <3>1. f + c <= s.nreq + 1
      <4>1. \A a, b, d \in Nat : (a + 1 - b - d) + d <= a + 1
        OBVIOUS
      <4>2. (s.nreq + 1 - q - c) + c <= s.nreq + 1
        BY <4>1, <1>2
      <4> QED BY <4>2, <1>2
    <3>2. (f <= i /\ i <= s.nreq) <=> ((f <= i /\ i < f + c) \/ (f + c <= i /\ i <= s.nreq))
      BY <3>1, <2>4, <1>2
    <3> QED BY <3>2, <2>2, <2>3, <2>6
  <2> QED BY <2>1, <2>7, <1>1, <1>3
<1> QED BY <1>1, <1>5, <1>6 DEF Good, Counted, t

\* Fields that uv__write leaves alone.
SameStream(t, s) ==
  t.handle = s.handle /\ t.asked = s.asked /\ t.inbox = s.inbox /\ t.nreq = s.nreq

-----------------------------------------------------------------------------
\* Every outcome of uv__write keeps Good and leaves a reason to come back.
LEMMA WriteGood ==
  ASSUME NEW s, Good(s), NEW t \in uv__write(s)
  PROVE  /\ Good(t)
         /\ SameStream(t, s)
         /\ t.queue # <<>> => t.wake # {}
         /\ t.completed = s.completed \/ "pending" \in t.wake
         /\ "pending" \in s.wake => "pending" \in t.wake
<1> DEFINE h == Head(s.queue)
           n == Least(s.left[h], s.room)
<1>0. s \in ConnType
  BY DEF Good
<1>1. CASE s.queue = <<>>
  BY <1>1 DEF uv__write, SameStream
<1>2. CASE s.queue # <<>> /\ s.peer = "reset"
  <2> DEFINE u == [s EXCEPT !.failed = @ \cup {h}]
             v == uv__write_req_finish(u)
  <2>1. t = [v EXCEPT !.wake = @ \ {"POLLOUT"}, !.peer = "broken"]
    BY <1>2 DEF uv__write
  <2>2. /\ Good(u) /\ SameRest(u, s) /\ u.queue = s.queue /\ u.wake = s.wake
        /\ Head(u.queue) \in u.failed
    BY <1>2, FailGood
  <2> HIDE DEF u
  <2>3. Good(v)
    BY <1>2, <2>2, FinishGood
  <2>4. SameRest(v, u) /\ v.wake = u.wake \cup {"pending"} /\ v \in ConnType
    BY <1>2, <2>2, FinishFields DEF Good
  <2> HIDE DEF v
  <2>5. v.wake \ {"POLLOUT"} \in SUBSET {"POLLOUT", "pending"}
    BY <2>4, TypeFacts
  <2>6. t \in ConnType /\ SameQueues(t, v) /\ SameStream(t, v) /\ t.wake = v.wake \ {"POLLOUT"}
    BY <2>1, <2>4, <2>5 DEF ConnType, SameQueues, SameStream
  <2>7. Good(t)
    BY <2>3, <2>6, Frame
  <2>8. SameStream(t, s)
    BY <2>2, <2>4, <2>6 DEF SameStream, SameRest
  <2>9. "pending" \in t.wake
    BY <2>4, <2>6
  <2> QED BY <2>7, <2>8, <2>9
<1>3. CASE s.queue # <<>> /\ s.peer \notin {"reset", "broken"}
  <2> DEFINE u == uv__write_req_update(s, n)
  <2>1. t = IF n = s.left[h] THEN uv__write_req_finish(u)
            ELSE [u EXCEPT !.wake = @ \cup {"POLLOUT"}]
    BY <1>3 DEF uv__write
  <2>2. h \in ReqIds /\ s.left[h] \in Nat /\ s.room \in Nat
    BY <1>0, <1>3, TypeFacts, ServerAssumption
  <2>3. n \in Nat /\ n <= s.left[h] /\ n <= s.room
    BY <2>2 DEF Least
  <2> HIDE DEF n
  <2>4. /\ u \in ConnType /\ SameRest(u, s) /\ u.queue = s.queue /\ u.wake = s.wake
        /\ u.completed = s.completed
        /\ u.left = [s.left EXCEPT ![h] = s.left[h] - n]
    BY <1>0, <1>3, <2>3, UpdateFields
  <2>5. Good(u)
    BY <1>3, <2>3, UpdateGood
  <2> HIDE DEF u
  <2>6. CASE n = s.left[h]
    <3>1. t = uv__write_req_finish(u)
      BY <2>1, <2>6
    <3>2. u.left[Head(u.queue)] = 0
      <4>1. s.left \in [ReqIds -> Nat]
        BY <1>0, TypeFacts
      <4> QED BY <4>1, <2>2, <2>4, <2>6
    <3>3. Good(t)
      BY <3>1, <3>2, <2>4, <2>5, <1>3, FinishGood
    <3>4. SameRest(t, u) /\ t.wake = u.wake \cup {"pending"}
      BY <3>1, <2>4, <1>3, FinishFields
    <3>5. SameStream(t, s)
      BY <3>4, <2>4 DEF SameStream, SameRest
    <3> QED BY <3>3, <3>4, <3>5
  <2>7. CASE n # s.left[h]
    <3>1. t = [u EXCEPT !.wake = @ \cup {"POLLOUT"}]
      BY <2>1, <2>7
    <3>2. u.wake \cup {"POLLOUT"} \in SUBSET {"POLLOUT", "pending"}
      BY <2>4, TypeFacts
    <3>3. t \in ConnType /\ SameQueues(t, u) /\ SameStream(t, u) /\ t.wake = u.wake \cup {"POLLOUT"}
      BY <3>1, <3>2, <2>4 DEF ConnType, SameQueues, SameStream
    <3>4. Good(t)
      BY <3>3, <2>5, Frame
    <3>5. SameStream(t, s) /\ t.completed = s.completed /\ t.wake = s.wake \cup {"POLLOUT"}
      BY <3>3, <2>4 DEF SameStream, SameRest, SameQueues
    <3> QED BY <3>4, <3>5
  <2> QED BY <2>6, <2>7
<1>4. CASE s.queue # <<>> /\ s.peer = "broken"
  BY <1>4 DEF uv__write
<1> QED BY <1>1, <1>2, <1>3, <1>4

\* Every outcome of uv_write2 queues one request and keeps the stream awake.
LEMMA Write2Good ==
  ASSUME NEW s, Good(s), s.nreq < MaxReqs, NEW n \in Nat, NEW t \in uv_write2(s, n),
         s.completed # <<>> => "pending" \in s.wake
  PROVE  /\ Good(t)
         /\ t.handle = s.handle /\ t.asked = s.asked /\ t.inbox = s.inbox /\ t.nreq = s.nreq + 1
         /\ t.queue # <<>> => t.wake # {}
         /\ t.completed # <<>> => "pending" \in t.wake
<1> DEFINE u == Enqueue(s, n)
<1>0. s \in ConnType
  BY DEF Good
<1>1. Good(u) /\ u \in ConnType
  BY EnqueueGood DEF Good
<1>2. /\ u.handle = s.handle /\ u.asked = s.asked /\ u.inbox = s.inbox /\ u.nreq = s.nreq + 1
      /\ u.completed = s.completed /\ u.wake = s.wake
  BY <1>0, EnqueueFields
<1>3. CASE SizeIsZero(s)
  <2>1. t \in uv__write(u)
    BY <1>3 DEF uv_write2
  <2> HIDE DEF u
  <2>2. /\ Good(t) /\ SameStream(t, u)
        /\ t.queue # <<>> => t.wake # {}
        /\ t.completed = u.completed \/ "pending" \in t.wake
        /\ "pending" \in u.wake => "pending" \in t.wake
    BY <2>1, <1>1, WriteGood
  <2> QED BY <2>2, <1>2 DEF SameStream
<1>4. CASE ~SizeIsZero(s)
  <2>1. t = [u EXCEPT !.wake = @ \cup {"POLLOUT"}]
    BY <1>4 DEF uv_write2
  <2> HIDE DEF u
  <2>2. u.wake \cup {"POLLOUT"} \in SUBSET {"POLLOUT", "pending"}
    BY <1>1, TypeFacts
  <2>3. t \in ConnType /\ SameQueues(t, u) /\ SameStream(t, u) /\ t.wake = u.wake \cup {"POLLOUT"}
    BY <2>1, <2>2, <1>1 DEF ConnType, SameQueues, SameStream
  <2>4. Good(t)
    BY <2>3, <1>1, Frame
  <2> QED BY <2>3, <2>4, <1>2 DEF SameStream, SameQueues
<1> QED BY <1>3, <1>4

-----------------------------------------------------------------------------
\* The inductive invariant of one connection.
ConnInv(s) ==
  /\ Good(s)
  /\ Awake(s)
  /\ s.nreq + s.inbox <= s.asked
  /\ s.handle \in {"none", "refused", "freed"} => s.queue = <<>> /\ s.completed = <<>>
  /\ s.handle \in {"closing", "freed"} => s.wake = {}

\* The inductive invariant of the server.
ServerInv ==
  /\ conn \in [Conns -> ConnType]
  /\ proc \in {"up", "SIGINT", "SIGPIPE"}
  /\ \A c \in Conns : ConnInv(conn[c])

\* The invariant holds before a client connects.
LEMMA NoConnInv == ConnInv(NoConn)
<1>1. NoConn \in ConnType
  <2>1. <<>> \in Seq(ReqIds)
    OBVIOUS
  <2>2. [i \in ReqIds |-> 0] \in [ReqIds -> Nat] /\ [i \in ReqIds |-> 0] \in [ReqIds -> Int]
        /\ [i \in ReqIds |-> "none"] \in [ReqIds -> {"none", "live", "freed", "double"}]
    OBVIOUS
  <2>3. 0 \in 0..MaxReqs /\ SockBuf \in 0..SockBuf
    BY ServerAssumption
  <2> QED BY <2>1, <2>2, <2>3 DEF NoConn, ConnType
<1>2. FirstOwned(NoConn) = 1
  BY DEF FirstOwned, NoConn
<1>3. OneOwner(NoConn)
  <2>1. \A i \in ReqIds : i > 0
    BY ServerAssumption DEF ReqIds
  <2> QED BY <1>2, <2>1 DEF OneOwner, NoConn
<1>4. Counted(NoConn)
  BY DEF Counted, NoConn, Range
<1> QED BY <1>1, <1>3, <1>4 DEF ConnInv, Good, Awake, NoConn

\* The invariant depends on the queues, the handle and the counters.
LEMMA SetPeer ==
  ASSUME NEW s, ConnInv(s), NEW t \in ConnType, SameQueues(t, s), t.wake = s.wake,
         t.handle = s.handle, t.nreq + t.inbox <= t.asked
  PROVE  ConnInv(t)
<1>1. Good(t)
  BY Frame DEF ConnInv
<1> QED BY <1>1 DEF ConnInv, Awake, SameQueues

\* A step of a client keeps the invariant of its connection.
LEMMA PeerKeeps ==
  ASSUME ServerInv, NEW c \in Conns, PeerNext(c)
  PROVE  /\ \E t \in ConnType : ConnInv(t) /\ conn' = [conn EXCEPT ![c] = t]
         /\ UNCHANGED proc
<1> DEFINE s == conn[c]
<1>1. s \in ConnType /\ ConnInv(s)
  BY DEF ServerInv
<1>2. s.nreq \in Nat /\ s.inbox \in Nat /\ s.asked \in Nat /\ s.inbox \in 0..MaxReqs /\ s.asked \in 0..MaxReqs
  BY <1>1, TypeFacts, ServerAssumption
<1>3. s.nreq + s.inbox <= s.asked
  BY <1>1 DEF ConnInv
<1> HIDE DEF s
<1>4. ASSUME NEW p \in {"none", "up", "eof", "reset", "broken"}
      PROVE  [s EXCEPT !.peer = p] \in ConnType /\ ConnInv([s EXCEPT !.peer = p])
  <2> DEFINE t == [s EXCEPT !.peer = p]
  <2>1. /\ t \in ConnType /\ SameQueues(t, s) /\ t.wake = s.wake /\ t.handle = s.handle
        /\ t.inbox = s.inbox /\ t.asked = s.asked /\ t.nreq = s.nreq
    BY <1>1 DEF ConnType, SameQueues
  <2> QED BY <2>1, <1>1, <1>3, SetPeer
<1>5. CASE PeerConnect(c)
  BY <1>5, <1>4 DEF PeerConnect, PeerStep, s
<1>6. CASE PeerSend(c)
  <2> DEFINE t == [s EXCEPT !.asked = @ + 1, !.inbox = @ + 1]
  <2>1. s.asked < MaxReqs /\ conn' = [conn EXCEPT ![c] = t] /\ UNCHANGED proc
    BY <1>6 DEF PeerSend, PeerStep, s
  <2>2. s.asked + 1 \in 0..MaxReqs /\ s.inbox + 1 \in 0..MaxReqs /\ s.nreq + (s.inbox + 1) <= s.asked + 1
    BY <2>1, <1>2, <1>3, ServerAssumption
  <2>3. /\ t \in ConnType /\ SameQueues(t, s) /\ t.wake = s.wake /\ t.handle = s.handle
        /\ t.inbox = s.inbox + 1 /\ t.asked = s.asked + 1 /\ t.nreq = s.nreq
    BY <1>1, <2>2 DEF ConnType, SameQueues
  <2>4. ConnInv(t)
    BY <2>2, <2>3, <1>1, SetPeer
  <2> QED BY <2>1, <2>3, <2>4
<1>7. CASE PeerRead(c)
  <2> DEFINE t == [s EXCEPT !.room = SockBuf]
  <2>1. conn' = [conn EXCEPT ![c] = t] /\ UNCHANGED proc
    BY <1>7 DEF PeerRead, PeerStep, s
  <2>2. SockBuf \in 0..SockBuf
    BY ServerAssumption
  <2>3. /\ t \in ConnType /\ SameQueues(t, s) /\ t.wake = s.wake /\ t.handle = s.handle
        /\ t.inbox = s.inbox /\ t.asked = s.asked /\ t.nreq = s.nreq
    BY <1>1, <2>2 DEF ConnType, SameQueues
  <2>4. ConnInv(t)
    BY <2>3, <1>1, <1>3, SetPeer
  <2> QED BY <2>1, <2>3, <2>4
<1>8. CASE PeerClose(c)
  BY <1>8, <1>4 DEF PeerClose, PeerStep, s
<1>9. CASE PeerReset(c)
  <2> DEFINE p == IF s.peer = "up" THEN "reset" ELSE "broken"
  <2>1. conn' = [conn EXCEPT ![c] = [s EXCEPT !.peer = p]] /\ UNCHANGED proc
    BY <1>9 DEF PeerReset, PeerStep, s
  <2> QED BY <2>1, <1>4
<1> QED BY <1>5, <1>6, <1>7, <1>8, <1>9 DEF PeerNext

\* Destroying a stream leaves nothing queued.
LEMMA DestroyKeeps ==
  ASSUME NEW s, ConnInv(s), s.handle = "closing"
  PROVE  LET t == [uv__stream_destroy(s) EXCEPT !.handle = "freed"]
         IN  t \in ConnType /\ ConnInv(t)
<1> DEFINE u == uv__stream_flush_write_queue(s)
           v == uv__write_callbacks(u)
           t == [v EXCEPT !.handle = "freed"]
<1>1. uv__stream_destroy(s) = v
  BY DEF uv__stream_destroy
<1>2. Good(s) /\ s \in ConnType /\ s.wake = {} /\ s.nreq + s.inbox <= s.asked
  BY DEF ConnInv, Good
<1>3. Good(u) /\ SameRest(u, s) /\ u.queue = <<>> /\ u.wake = s.wake
  BY <1>2, FlushGood, FlushFields
<1> HIDE DEF u
<1>4. Good(v) /\ SameRest(v, u) /\ v.queue = <<>> /\ v.completed = <<>> /\ v.wake = u.wake /\ v \in ConnType
  BY <1>3, CallbackGood, CallbackFields DEF Good
<1> HIDE DEF v
<1>5. /\ t \in ConnType /\ SameQueues(t, v) /\ t.wake = v.wake /\ t.handle = "freed"
      /\ t.inbox = v.inbox /\ t.asked = v.asked
  BY <1>4 DEF ConnType, SameQueues
<1> HIDE DEF t
<1>6. Good(t)
  BY <1>4, <1>5, Frame
<1>7. t.nreq + t.inbox <= t.asked
  BY <1>2, <1>3, <1>4, <1>5 DEF SameRest, SameQueues
<1>8. t.queue = <<>> /\ t.completed = <<>> /\ t.wake = {}
  BY <1>2, <1>3, <1>4, <1>5 DEF SameQueues
<1>9. ConnInv(t)
  BY <1>5, <1>6, <1>7, <1>8 DEF ConnInv, Awake
<1> QED BY <1>1, <1>5, <1>9 DEF t

\* A call of uv__stream_io keeps the invariant of its stream.
LEMMA StreamIoKeeps ==
  ASSUME NEW s, ConnInv(s), s.handle = "open",
         NEW t \in uv__write([s EXCEPT !.wake = @ \ {"pending"}])
  PROVE  LET r == uv__drain(uv__write_callbacks(t))
         IN  r \in ConnType /\ ConnInv(r)
<1> DEFINE u == [s EXCEPT !.wake = @ \ {"pending"}]
           v == uv__write_callbacks(t)
           r == uv__drain(v)
<1>1. Good(s) /\ s \in ConnType /\ s.nreq + s.inbox <= s.asked
  BY DEF ConnInv, Good
<1>2. s.wake \ {"pending"} \in SUBSET {"POLLOUT", "pending"}
  BY <1>1, TypeFacts
<1>3. u \in ConnType /\ SameQueues(u, s) /\ SameStream(u, s)
  BY <1>1, <1>2 DEF ConnType, SameQueues, SameStream
<1>4. Good(u)
  BY <1>1, <1>3, Frame
<1>5. /\ Good(t) /\ SameStream(t, u)
      /\ t.queue # <<>> => t.wake # {}
  BY <1>4, WriteGood
<1> HIDE DEF u
<1>6. /\ Good(v) /\ v \in ConnType /\ SameRest(v, t)
      /\ v.queue = t.queue /\ v.completed = <<>> /\ v.wake = t.wake
  BY <1>5, CallbackGood, CallbackFields DEF Good
<1> HIDE DEF v
<1>7. v.handle = "open" /\ v.nreq + v.inbox <= v.asked
  BY <1>1, <1>3, <1>5, <1>6 DEF SameRest, SameStream
<1>8. CASE v.queue = <<>>
  <2>1. r = [v EXCEPT !.wake = @ \ {"POLLOUT"}]
    BY <1>8 DEF uv__drain
  <2>2. v.wake \ {"POLLOUT"} \in SUBSET {"POLLOUT", "pending"}
    BY <1>6, TypeFacts
  <2>3. r \in ConnType /\ SameQueues(r, v) /\ SameStream(r, v)
    BY <2>1, <2>2, <1>6 DEF ConnType, SameQueues, SameStream
  <2>4. Good(r)
    BY <2>3, <1>6, Frame
  <2> HIDE DEF r
  <2>5. ConnInv(r)
    BY <2>3, <2>4, <1>6, <1>7, <1>8 DEF ConnInv, Awake, SameQueues, SameStream
  <2> QED BY <2>3, <2>5 DEF r, v
<1>9. CASE v.queue # <<>>
  <2>1. r = v
    BY <1>9 DEF uv__drain
  <2>2. ConnInv(v)
    BY <1>5, <1>6, <1>7 DEF ConnInv, Awake
  <2> QED BY <2>1, <2>2, <1>6 DEF v
<1> QED BY <1>8, <1>9

\* A callback of the loop keeps the invariant, or the process ends.
LEMMA LoopKeeps ==
  ASSUME ServerInv, NEW c \in Conns, LoopStep(c)
  PROVE  \/ /\ \E t \in ConnType : ConnInv(t) /\ conn' = [conn EXCEPT ![c] = t]
            /\ UNCHANGED proc
         \/ UNCHANGED conn /\ proc' = "SIGPIPE"
<1> DEFINE s == conn[c]
<1>1. s \in ConnType /\ ConnInv(s) /\ Good(s)
  BY DEF ServerInv, ConnInv
<1>2. /\ s.nreq \in Nat /\ s.inbox \in Nat /\ s.asked \in Nat /\ s.inbox \in 0..MaxReqs
      /\ s.asked \in 0..MaxReqs /\ s.nreq + s.inbox <= s.asked
  BY <1>1, TypeFacts, ServerAssumption DEF ConnInv
<1> HIDE DEF s
<1>3. CASE on_new_connection(c)
  <2> DEFINE t == [s EXCEPT !.handle = "open"]
  <2>1. s.handle = "none" /\ conn' = [conn EXCEPT ![c] = t] /\ UNCHANGED proc
    BY <1>3 DEF on_new_connection, Step, s
  <2>2. t \in ConnType /\ SameQueues(t, s) /\ t.inbox = s.inbox /\ t.asked = s.asked /\ t.handle = "open"
    BY <1>1 DEF ConnType, SameQueues
  <2>3. Good(t)
    BY <2>2, <1>1, Frame
  <2> HIDE DEF t
  <2>4. ConnInv(t)
    BY <2>1, <2>2, <2>3, <1>1, <1>2 DEF ConnInv, Awake, SameQueues
  <2> QED BY <2>1, <2>2, <2>4
<1>4. CASE AcceptFails(c)
  <2> DEFINE t == [s EXCEPT !.handle = "refused", !.peer = "reset", !.inbox = 0]
  <2>1. s.handle = "none" /\ conn' = [conn EXCEPT ![c] = t] /\ UNCHANGED proc
    BY <1>4 DEF AcceptFails, Step, s
  <2>2. 0 \in 0..MaxReqs
    BY ServerAssumption
  <2>3. t \in ConnType /\ SameQueues(t, s) /\ t.inbox = 0 /\ t.asked = s.asked /\ t.handle = "refused"
    BY <1>1, <2>2 DEF ConnType, SameQueues
  <2>4. Good(t)
    BY <2>3, <1>1, Frame
  <2> HIDE DEF t
  <2>5. t.nreq + t.inbox <= t.asked
    BY <2>3, <1>2 DEF SameQueues
  <2>6. ConnInv(t)
    BY <2>1, <2>3, <2>4, <2>5, <1>1 DEF ConnInv, Awake, SameQueues
  <2> QED BY <2>1, <2>3, <2>6
<1>5. CASE on_read_cb_data(c)
  <2>1. PICK k \in 1..s.inbox, n \in ReplyLens :
          LET u == [s EXCEPT !.inbox = @ - k]
          IN  \/ \E t \in uv_write2(u, n) : Step(c, t)
              \/ SizeIsZero(u) /\ SigPipe(Enqueue(u, n))
    BY <1>5 DEF on_read_cb_data, s
  <2> DEFINE u == [s EXCEPT !.inbox = @ - k]
  <2>2. s.handle = "open"
    BY <1>5 DEF on_read_cb_data, s
  <2>3. s.inbox - k \in 0..MaxReqs /\ s.nreq < MaxReqs /\ (s.nreq + 1) + (s.inbox - k) <= s.asked
    BY <1>2, ServerAssumption
  <2>4. /\ u \in ConnType /\ SameQueues(u, s) /\ u.inbox = s.inbox - k /\ u.asked = s.asked
        /\ u.handle = s.handle /\ u.wake = s.wake
    BY <1>1, <2>3 DEF ConnType, SameQueues
  <2>5. Good(u) /\ u.nreq = s.nreq /\ (u.completed # <<>> => "pending" \in u.wake)
    BY <2>2, <2>4, <1>1, Frame DEF ConnInv, Awake, SameQueues
  <2>6. n \in Nat
    BY ServerAssumption
  <2>7. (\E t \in uv_write2(u, n) : Step(c, t)) \/ SigPipe(Enqueue(u, n))
    BY <2>1
  <2> HIDE DEF u
  <2>8. CASE \E t \in uv_write2(u, n) : Step(c, t)
    <3>1. PICK t \in uv_write2(u, n) : Step(c, t)
      BY <2>8
    <3>2. /\ Good(t)
          /\ t.handle = u.handle /\ t.asked = u.asked /\ t.inbox = u.inbox /\ t.nreq = u.nreq + 1
          /\ t.queue # <<>> => t.wake # {}
          /\ t.completed # <<>> => "pending" \in t.wake
      BY <2>3, <2>5, <2>6, Write2Good
    <3>3. t.nreq + t.inbox <= t.asked
      BY <3>2, <2>3, <2>4, <2>5
    <3>4. ConnInv(t)
      BY <3>2, <3>3, <2>2, <2>4 DEF ConnInv, Awake
    <3>5. t \in ConnType
      BY <3>2 DEF Good
    <3> QED BY <3>1, <3>4, <3>5 DEF Step
  <2>9. CASE SigPipe(Enqueue(u, n))
    BY <2>9 DEF SigPipe
  <2> QED BY <2>7, <2>8, <2>9
<1>6. CASE on_read_cb_end(c)
  <2> DEFINE t == uv_close(s)
  <2>1. conn' = [conn EXCEPT ![c] = t] /\ UNCHANGED proc
    BY <1>6 DEF on_read_cb_end, Step, s
  <2>2. {} \in SUBSET {"POLLOUT", "pending"}
    OBVIOUS
  <2>3. /\ t \in ConnType /\ SameQueues(t, s) /\ t.inbox = s.inbox /\ t.asked = s.asked
        /\ t.handle = "closing" /\ t.wake = {}
    BY <1>1, <2>2 DEF ConnType, SameQueues, uv_close
  <2>4. Good(t)
    BY <2>3, <1>1, Frame
  <2> HIDE DEF t
  <2>5. ConnInv(t)
    BY <2>3, <2>4, <1>2 DEF ConnInv, Awake, SameQueues
  <2> QED BY <2>1, <2>3, <2>5
<1>7. CASE uv__stream_io(c)
  <2> DEFINE u == [s EXCEPT !.wake = @ \ {"pending"}]
  <2>1. s.handle = "open"
    BY <1>7 DEF uv__stream_io, s
  <2>2. (\E t \in uv__write(u) : Step(c, uv__drain(uv__write_callbacks(t)))) \/ SigPipe(u)
    BY <1>7 DEF uv__stream_io, s
  <2>3. CASE \E t \in uv__write(u) : Step(c, uv__drain(uv__write_callbacks(t)))
    <3>1. PICK t \in uv__write(u) : Step(c, uv__drain(uv__write_callbacks(t)))
      BY <2>3
    <3> DEFINE r == uv__drain(uv__write_callbacks(t))
    <3>2. r \in ConnType /\ ConnInv(r)
      BY <2>1, <1>1, StreamIoKeeps
    <3> HIDE DEF r
    <3>3. conn' = [conn EXCEPT ![c] = r] /\ UNCHANGED proc
      BY <3>1 DEF Step, r
    <3> QED BY <3>2, <3>3
  <2>4. CASE SigPipe(u)
    BY <2>4 DEF SigPipe
  <2> QED BY <2>2, <2>3, <2>4
<1>8. CASE on_close(c)
  <2> DEFINE t == [uv__stream_destroy(s) EXCEPT !.handle = "freed"]
  <2>1. s.handle = "closing" /\ conn' = [conn EXCEPT ![c] = t] /\ UNCHANGED proc
    BY <1>8 DEF on_close, Step, s
  <2>2. t \in ConnType /\ ConnInv(t)
    BY <2>1, <1>1, DestroyKeeps
  <2> HIDE DEF t
  <2> QED BY <2>1, <2>2
<1> QED BY <1>3, <1>4, <1>5, <1>6, <1>7, <1>8 DEF LoopStep

-----------------------------------------------------------------------------
\* The invariant holds when the server starts.
LEMMA InvInit == ServerInit => ServerInv
<1> SUFFICES ASSUME ServerInit PROVE ServerInv
  OBVIOUS
<1>1. NoConn \in ConnType /\ ConnInv(NoConn)
  BY NoConnInv DEF ConnInv, Good
<1> QED BY <1>1 DEF ServerInit, ServerInv

\* Every step keeps the invariant.
LEMMA InvStep == ServerInv /\ [ServerNext]_serverVars => ServerInv'
<1> SUFFICES ASSUME ServerInv, [ServerNext]_serverVars PROVE ServerInv'
  OBVIOUS
<1>1. ASSUME NEW c \in Conns, NEW t \in ConnType, ConnInv(t),
             conn' = [conn EXCEPT ![c] = t], UNCHANGED proc
      PROVE  ServerInv'
  <2>1. conn' \in [Conns -> ConnType]
    BY <1>1 DEF ServerInv
  <2>2. ASSUME NEW d \in Conns PROVE ConnInv(conn'[d])
    <3>1. CASE d = c
      <4>1. conn'[d] = t
        BY <3>1, <1>1 DEF ServerInv
      <4> QED BY <4>1, <1>1
    <3>2. CASE d # c
      <4>1. conn'[d] = conn[d]
        BY <3>2, <1>1 DEF ServerInv
      <4> QED BY <4>1 DEF ServerInv
    <3> QED BY <3>1, <3>2
  <2>3. proc' \in {"up", "SIGINT", "SIGPIPE"}
    BY <1>1 DEF ServerInv
  <2> QED BY <2>1, <2>2, <2>3 DEF ServerInv
<1>2. ASSUME UNCHANGED conn, proc' \in {"up", "SIGINT", "SIGPIPE"}
      PROVE  ServerInv'
  BY <1>2 DEF ServerInv
<1>3. CASE sig_handler
  BY <1>2, <1>3 DEF sig_handler
<1>4. ASSUME NEW c \in Conns, LoopStep(c) PROVE ServerInv'
  BY <1>1, <1>2, <1>4, LoopKeeps
<1>5. ASSUME NEW c \in Conns, PeerNext(c) PROVE ServerInv'
  BY <1>1, <1>5, PeerKeeps
<1>6. CASE UNCHANGED serverVars
  BY <1>2, <1>6 DEF serverVars, ServerInv
<1> QED BY <1>3, <1>4, <1>5, <1>6 DEF ServerNext

\* The invariant holds in every behaviour.
LEMMA Invariance == ServerSpec => []ServerInv
BY InvInit, InvStep, PTL DEF ServerSpec

-----------------------------------------------------------------------------
\* The state keeps its types: no reply has fewer than zero bytes left to write,
\* whatever the sequence of partial writes.
THEOREM TypesHold == ServerSpec => []ServerTypeOK
<1>1. ServerInv => ServerTypeOK
  BY DEF ServerInv, ServerTypeOK
<1> QED BY <1>1, Invariance, PTL

\* Every write_req_t that on_read_cb mallocs is in exactly one queue until
\* on_write_cb frees it, and is freed once: no leak and no double free by the
\* three paths that complete a request.
THEOREM RepliesHaveOneOwner == ServerSpec => []NoLeakNoDoubleFree
<1>1. ServerInv => NoLeakNoDoubleFree
  BY DEF ServerInv, ConnInv, Good, NoLeakNoDoubleFree
<1> QED BY <1>1, Invariance, PTL

\* An open stream with a queued reply or a callback due is watched or pending:
\* the doubt of stream.c:929 is unfounded for this server.
THEOREM WakeupsAreNotLost == ServerSpec => []NoLostWakeup
<1>1. ServerInv => NoLostWakeup
  BY DEF ServerInv, ConnInv, NoLostWakeup
<1> QED BY <1>1, Invariance, PTL

\* write_queue_size is exactly the bytes still to be written or given up, and 0
\* when the handle is freed: the assertion of uv__stream_destroy cannot fail.
THEOREM QueueSizeIsExact == ServerSpec => []SizeIsExact
<1>1. ASSUME ServerInv, NEW c \in Conns
      PROVE  Counted(conn[c]) /\ (conn[c].handle = "freed" => SizeIsZero(conn[c]))
  <2>1. Counted(conn[c]) /\ (conn[c].handle = "freed" => conn[c].queue = <<>> /\ conn[c].completed = <<>>)
    BY <1>1 DEF ServerInv, ConnInv, Good
  <2> QED BY <2>1 DEF Counted, SizeIsZero, Range
<1>2. ServerInv => SizeIsExact
  BY <1>1 DEF SizeIsExact
<1> QED BY <1>2, Invariance, PTL

\* on_close frees a handle that no watcher and no live request refers to.
THEOREM HandlesAreFreedLast == ServerSpec => []NothingOutlivesHandle
<1>1. ASSUME ServerInv, NEW c \in Conns, conn[c].handle = "freed"
      PROVE  conn[c].wake = {} /\ \A i \in ReqIds : conn[c].mem[i] # "live"
  <2> DEFINE s == conn[c]
  <2>1. s \in ConnType /\ OneOwner(s) /\ s.wake = {} /\ s.queue = <<>> /\ s.completed = <<>>
    BY <1>1 DEF ServerInv, ConnInv, Good
  <2> HIDE DEF s
  <2>2. FirstOwned(s) = s.nreq + 1 /\ s.nreq \in Nat
    <3>1. FirstOwned(s) = s.nreq - 0 - 0 + 1
      BY <2>1 DEF FirstOwned
    <3>2. s.nreq \in Nat
      BY <2>1, Sizes
    <3>3. \A a \in Nat : a - 0 - 0 + 1 = a + 1
      OBVIOUS
    <3> QED BY <3>1, <3>2, <3>3
  <2>3. ASSUME NEW i \in ReqIds PROVE s.mem[i] # "live"
    <3>1. s.mem[i] = IF i > s.nreq THEN "none" ELSE IF i >= FirstOwned(s) THEN "live" ELSE "freed"
      BY <2>1 DEF OneOwner
    <3>2. i \in Int /\ (i > s.nreq \/ ~(i >= s.nreq + 1))
      BY <2>2 DEF ReqIds
    <3> QED BY <3>1, <3>2, <2>2
  <2> QED BY <2>1, <2>3 DEF s
<1>2. ServerInv => NothingOutlivesHandle
  BY <1>1 DEF NothingOutlivesHandle
<1> QED BY <1>2, Invariance, PTL

-----------------------------------------------------------------------------
\* The order of replies.  The three properties below are an invariant together: what
\* left the queue without failing is written, behind the first request of the queue
\* nothing is written, and behind a failed one neither.
Ordered(s) ==
  /\ \A i \in 1..s.nreq : (i \notin Range(s.queue) /\ i \notin s.failed) => s.left[i] = 0
  /\ \A i \in Range(s.queue) : i # Head(s.queue) => s.left[i] = s.len[i]
  /\ \A i \in s.failed, j \in 1..s.nreq : i < j => s.left[j] = s.len[j]

\* After a failed write nothing more is written: the client is gone, or the handle.
Over(s) ==
  s.failed # {} => s.handle = "freed" \/ (s.handle \in {"open", "closing"} /\ s.peer = "broken")

\* Fields Ordered depends on.
SameReplies(t, s) ==
  t.nreq = s.nreq /\ t.queue = s.queue /\ t.failed = s.failed /\ t.left = s.left /\ t.len = s.len

\* Ordered depends on those fields only.
LEMMA OrderedFrame ==
  ASSUME NEW s, NEW t, Ordered(s), SameReplies(t, s)
  PROVE  Ordered(t)
BY DEF Ordered, SameReplies

\* The first request of a queue is in it, and is its least.
LEMMA HeadIsFirst ==
  ASSUME NEW s, Good(s), s.queue # <<>>
  PROVE  LET h == Head(s.queue)
         IN  /\ h \in Range(s.queue) /\ h \in ReqIds /\ h <= s.nreq
             /\ Range(s.queue) \subseteq {i \in ReqIds : h <= i /\ i <= s.nreq}
             /\ \A j \in ReqIds : h < j /\ j <= s.nreq => j \in Range(s.queue)
             /\ Range(Tail(s.queue)) = Range(s.queue) \ {h}
<1> DEFINE h == Head(s.queue)
           a == FirstOwned(s) + Len(s.completed)
<1>1. s \in ConnType /\ OneOwner(s)
  BY DEF Good
<1>2. s.queue \in Seq(ReqIds) /\ Len(s.queue) \in Nat /\ 1 \in 1..Len(s.queue)
  BY <1>1, TypeFacts
<1>22. a \in Int /\ s.nreq \in Nat
  <2>1. FirstOwned(s) \in Int /\ Len(s.completed) \in Nat /\ s.nreq \in Nat
    BY <1>1, Sizes
  <2>2. \A x \in Int, y \in Nat : x + y \in Int
    OBVIOUS
  <2> QED BY <2>1, <2>2
<1>3. h = s.queue[1] /\ h \in ReqIds
  BY <1>2
<1>4. \A k \in 1..Len(s.queue) : s.queue[k] = a + k - 1
  BY <1>1, Zenon DEF OneOwner
<1>5. h = a
  <2> HIDE DEF a
  <2>1. s.queue[1] = a + 1 - 1
    BY <1>2, <1>4
  <2> QED BY <2>1, <1>22, <1>3
<1>6. h \in Range(s.queue)
  BY <1>2, <1>3 DEF Range
<1>7. \A i \in ReqIds : i \in Range(s.queue) <=> (a <= i /\ i <= s.nreq)
  BY <1>1, Ranges
<1>8. Range(s.queue) \subseteq ReqIds
  BY <1>2 DEF Range
<1>9. Range(Tail(s.queue)) = Range(s.queue) \ {h}
  <2>1. /\ Tail(s.queue) \in Seq(ReqIds) /\ Len(Tail(s.queue)) = Len(s.queue) - 1
        /\ \A k \in 1..(Len(s.queue) - 1) : Tail(s.queue)[k] = s.queue[k + 1]
    BY <1>2
  <2>2. DOMAIN Tail(s.queue) = 1..(Len(s.queue) - 1) /\ DOMAIN s.queue = 1..Len(s.queue)
    BY <2>1, <1>2
  <2>3. ASSUME NEW i \in Range(Tail(s.queue)) PROVE i \in Range(s.queue) /\ i # h
    <3>1. PICK k \in 1..(Len(s.queue) - 1) : i = s.queue[k + 1]
      BY <2>1, <2>2 DEF Range
    <3> HIDE DEF a, h
    <3>2. k + 1 \in 1..Len(s.queue) /\ i = a + (k + 1) - 1
      BY <3>1, <1>2, <1>4
    <3>3. i # h
      BY <3>2, <1>5, <1>2, <1>22
    <3> QED BY <3>1, <3>2, <3>3, <2>2 DEF Range
  <2>4. ASSUME NEW i \in Range(s.queue), i # h PROVE i \in Range(Tail(s.queue))
    <3>1. PICK k \in 1..Len(s.queue) : i = s.queue[k]
      BY <2>2 DEF Range
    <3>2. k # 1
      BY <3>1, <2>4, <1>3
    <3>3. k - 1 \in 1..(Len(s.queue) - 1) /\ i = Tail(s.queue)[k - 1]
      BY <3>1, <3>2, <2>1, <1>2
    <3> QED BY <3>3, <2>2 DEF Range
  <2> QED BY <2>3, <2>4
<1>10. \A i \in Range(s.queue) : i \in ReqIds /\ h <= i /\ i <= s.nreq
  BY <1>5, <1>7, <1>8
<1>11. \A j \in ReqIds : h < j /\ j <= s.nreq => j \in Range(s.queue)
  <2>1. \A j \in ReqIds : h < j => a <= j
    BY <1>22, <1>5 DEF ReqIds
  <2> QED BY <2>1, <1>7
<1> QED BY <1>3, <1>6, <1>9, <1>10, <1>11

\* A request leaves the queue when it is written or has failed.
LEMMA FinishOrdered ==
  ASSUME NEW s, Good(s), Ordered(s), s.queue # <<>>,
         s.left[Head(s.queue)] = 0 \/ Head(s.queue) \in s.failed
  PROVE  Ordered(uv__write_req_finish(s))
<1> DEFINE t == uv__write_req_finish(s)
           h == Head(s.queue)
<1>1. s \in ConnType
  BY DEF Good
<1>2. t.nreq = s.nreq /\ t.queue = Tail(s.queue) /\ t.failed = s.failed /\ t.left = s.left /\ t.len = s.len
  BY <1>1 DEF uv__write_req_finish, ConnType
<1> HIDE DEF t
<1>3. Range(t.queue) = Range(s.queue) \ {h}
  BY <1>2, HeadIsFirst
<1> HIDE DEF h
<1>4. s.left[h] = 0 \/ h \in s.failed
  BY DEF h
<1>5. \A i \in 1..t.nreq : (i \notin Range(t.queue) /\ i \notin t.failed) => t.left[i] = 0
  BY <1>2, <1>3, <1>4 DEF Ordered
<1>6. \A i \in Range(t.queue) : t.left[i] = t.len[i]
  BY <1>2, <1>3 DEF Ordered, h
<1>7. \A i \in t.failed, j \in 1..t.nreq : i < j => t.left[j] = t.len[j]
  BY <1>2 DEF Ordered
<1> QED BY <1>5, <1>6, <1>7 DEF Ordered, t

\* Only the first request of the queue is written, and only while none has failed.
LEMMA UpdateOrdered ==
  ASSUME NEW s, Good(s), Ordered(s), s.queue # <<>>, s.failed = {}, NEW n \in Nat
  PROVE  Ordered(uv__write_req_update(s, n))
<1> DEFINE t == uv__write_req_update(s, n)
           h == Head(s.queue)
<1>1. s \in ConnType
  BY DEF Good
<1>2. /\ t.nreq = s.nreq /\ t.queue = s.queue /\ t.failed = s.failed /\ t.len = s.len
      /\ t.left = [s.left EXCEPT ![h] = s.left[h] - n]
  BY <1>1 DEF uv__write_req_update, ConnType
<1> HIDE DEF t
<1>3. h \in Range(s.queue)
  BY HeadIsFirst
<1>4. \A i : i # h => t.left[i] = s.left[i]
  BY <1>2
<1>5. \A i \in 1..t.nreq : (i \notin Range(t.queue) /\ i \notin t.failed) => t.left[i] = 0
  BY <1>2, <1>3, <1>4 DEF Ordered
<1>6. \A i \in Range(t.queue) : i # Head(t.queue) => t.left[i] = t.len[i]
  BY <1>2, <1>4 DEF Ordered
<1> QED BY <1>2, <1>5, <1>6 DEF Ordered, t

\* Behind the first request, which fails, nothing has been written.
LEMMA FailOrdered ==
  ASSUME NEW s, Good(s), Ordered(s), s.queue # <<>>
  PROVE  Ordered([s EXCEPT !.failed = @ \cup {Head(s.queue)}])
<1> DEFINE h == Head(s.queue)
           t == [s EXCEPT !.failed = @ \cup {h}]
<1>1. s \in ConnType
  BY DEF Good
<1>2. t.nreq = s.nreq /\ t.queue = s.queue /\ t.failed = s.failed \cup {h} /\ t.left = s.left /\ t.len = s.len
  BY <1>1 DEF ConnType
<1> HIDE DEF t
<1>3. h \in ReqIds /\ \A j \in ReqIds : h < j /\ j <= s.nreq => j \in Range(s.queue)
  BY HeadIsFirst
<1>4. s.nreq \in 0..MaxReqs
  BY <1>1, TypeFacts
<1>5. ASSUME NEW j \in 1..s.nreq, h < j PROVE s.left[j] = s.len[j]
  <2>1. j \in ReqIds /\ j <= s.nreq
    BY <1>4, ServerAssumption DEF ReqIds
  <2>2. j \in Range(s.queue)
    BY <2>1, <1>3, <1>5
  <2>3. j # h
    BY <1>3, <1>5 DEF ReqIds
  <2> QED BY <2>2, <2>3 DEF Ordered
<1>6. \A i \in t.failed, j \in 1..t.nreq : i < j => t.left[j] = t.len[j]
  BY <1>2, <1>5 DEF Ordered
<1> QED BY <1>2, <1>6 DEF Ordered, t

\* A new reply goes to the end of the queue, and nothing of it is written.
LEMMA EnqueueOrdered ==
  ASSUME NEW s, Good(s), Ordered(s), NEW n \in Nat, s.nreq < MaxReqs
  PROVE  Ordered(Enqueue(s, n))
<1> DEFINE t == Enqueue(s, n)
           id == s.nreq + 1
<1>1. s \in ConnType
  BY DEF Good
<1>2. id \in ReqIds /\ s.nreq \in Nat /\ s.queue \in Seq(ReqIds)
  BY <1>1, TypeFacts, ServerAssumption DEF ReqIds
<1>3. /\ t.nreq = id /\ t.queue = Append(s.queue, id) /\ t.failed = s.failed
      /\ t.left = [s.left EXCEPT ![id] = n] /\ t.len = [s.len EXCEPT ![id] = n]
  BY <1>1 DEF Enqueue, ConnType
<1>4. s.left \in [ReqIds -> Nat] /\ s.len \in [ReqIds -> Nat]
  BY <1>1, TypeFacts
<1>5. \A i \in 1..id : i = id \/ i \in 1..s.nreq
  BY <1>2
<1>6. \A i \in 1..s.nreq : i # id
  BY <1>2
<1>7. Range(Append(s.queue, id)) = Range(s.queue) \cup {id}
  <2>1. /\ Len(Append(s.queue, id)) = Len(s.queue) + 1 /\ Len(s.queue) \in Nat
        /\ \A k \in 1..Len(s.queue) : Append(s.queue, id)[k] = s.queue[k]
        /\ Append(s.queue, id)[Len(s.queue) + 1] = id
        /\ Append(s.queue, id) \in Seq(ReqIds)
    BY <1>2
  <2>2. DOMAIN Append(s.queue, id) = 1..(Len(s.queue) + 1) /\ DOMAIN s.queue = 1..Len(s.queue)
    BY <2>1, <1>2
  <2>3. \A k \in 1..(Len(s.queue) + 1) : k \in 1..Len(s.queue) \/ k = Len(s.queue) + 1
    BY <2>1
  <2>4. \A k \in 1..Len(s.queue) : k \in 1..(Len(s.queue) + 1)
    BY <2>1
  <2>5. Len(s.queue) + 1 \in 1..(Len(s.queue) + 1)
    BY <2>1
  <2> HIDE DEF id
  <2> QED BY <2>1, <2>2, <2>3, <2>4, <2>5 DEF Range
<1>8. s.queue # <<>> => Head(Append(s.queue, id)) = Head(s.queue)
  BY <1>2
<1> HIDE DEF t, id
<1>9. t.left[id] = n /\ t.len[id] = n /\ \A i : i # id => t.left[i] = s.left[i] /\ t.len[i] = s.len[i]
  BY <1>2, <1>3, <1>4
<1>10. \A i \in 1..t.nreq : (i \notin Range(t.queue) /\ i \notin t.failed) => t.left[i] = 0
  BY <1>3, <1>5, <1>7, <1>9 DEF Ordered
<1>11. \A i \in Range(t.queue) : i # Head(t.queue) => t.left[i] = t.len[i]
  <2> TAKE i \in Range(t.queue)
  <2>1. CASE i = id
    BY <2>1, <1>9
  <2>2. CASE i # id
    <3>1. i \in Range(s.queue) /\ s.queue # <<>>
      BY <2>2, <1>3, <1>7 DEF Range
    <3> QED BY <3>1, <2>2, <1>3, <1>8, <1>9 DEF Ordered
  <2> QED BY <2>1, <2>2
<1>12. \A i \in t.failed, j \in 1..t.nreq : i < j => t.left[j] = t.len[j]
  BY <1>3, <1>5, <1>6, <1>9 DEF Ordered
<1> QED BY <1>10, <1>11, <1>12 DEF Ordered, t

\* What is cancelled fails; behind the first of it nothing has been written.
LEMMA FlushOrdered ==
  ASSUME NEW s, Good(s), Ordered(s)
  PROVE  Ordered(uv__stream_flush_write_queue(s))
<1> DEFINE t == uv__stream_flush_write_queue(s)
<1>1. s \in ConnType /\ s.nreq \in 0..MaxReqs
  BY TypeFacts DEF Good
<1>2. /\ t.nreq = s.nreq /\ t.queue = <<>> /\ t.failed = s.failed \cup Range(s.queue)
      /\ t.left = s.left /\ t.len = s.len
  BY <1>1 DEF uv__stream_flush_write_queue, ConnType
<1> HIDE DEF t
<1>3. ASSUME NEW i \in Range(s.queue), NEW j \in 1..s.nreq, i < j PROVE s.left[j] = s.len[j]
  <2>1. s.queue # <<>>
    BY <1>3 DEF Range
  <2> DEFINE h == Head(s.queue)
  <2>2. /\ h \in ReqIds /\ i \in ReqIds /\ h <= i
        /\ \A k \in ReqIds : h < k /\ k <= s.nreq => k \in Range(s.queue)
    BY <2>1, HeadIsFirst
  <2> HIDE DEF h
  <2>3. j \in ReqIds /\ h < j /\ j <= s.nreq
    BY <2>2, <1>1, <1>3, ServerAssumption DEF ReqIds
  <2>4. j # h
    BY <2>2, <2>3 DEF ReqIds
  <2> QED BY <2>2, <2>3, <2>4 DEF Ordered, h
<1>4. \A i \in t.failed, j \in 1..t.nreq : i < j => t.left[j] = t.len[j]
  BY <1>2, <1>3 DEF Ordered
<1>5. \A i \in 1..t.nreq : i \notin t.failed => t.left[i] = 0
  BY <1>2 DEF Ordered
<1>6. Range(t.queue) = {}
  BY <1>2 DEF Range
<1> QED BY <1>4, <1>5, <1>6 DEF Ordered, t

-----------------------------------------------------------------------------
\* Every outcome of uv__write keeps the order.
LEMMA WriteOrdered ==
  ASSUME NEW s, Good(s), Ordered(s), s.failed # {} => s.peer = "broken", NEW t \in uv__write(s)
  PROVE  Ordered(t) /\ (t.failed # {} => t.peer = "broken")
<1> DEFINE h == Head(s.queue)
           n == Least(s.left[h], s.room)
<1>0. s \in ConnType
  BY DEF Good
<1>1. CASE s.queue = <<>>
  BY <1>1 DEF uv__write
<1>2. CASE s.queue # <<>> /\ s.peer = "reset"
  <2> DEFINE u == [s EXCEPT !.failed = @ \cup {h}]
             v == uv__write_req_finish(u)
  <2>1. t = [v EXCEPT !.wake = @ \ {"POLLOUT"}, !.peer = "broken"]
    BY <1>2 DEF uv__write
  <2>2. Good(u) /\ u.queue = s.queue /\ Head(u.queue) \in u.failed /\ Ordered(u)
    BY <1>2, FailGood, FailOrdered
  <2> HIDE DEF u
  <2>3. v \in ConnType /\ Ordered(v)
    BY <1>2, <2>2, FinishOrdered, FinishFields DEF Good
  <2> HIDE DEF v
  <2>4. SameReplies(t, v) /\ t.peer = "broken"
    BY <2>1, <2>3 DEF ConnType, SameReplies
  <2> QED BY <2>3, <2>4, OrderedFrame
<1>3. CASE s.queue # <<>> /\ s.peer \notin {"reset", "broken"}
  <2> DEFINE u == uv__write_req_update(s, n)
  <2>1. t = IF n = s.left[h] THEN uv__write_req_finish(u)
            ELSE [u EXCEPT !.wake = @ \cup {"POLLOUT"}]
    BY <1>3 DEF uv__write
  <2>2. h \in ReqIds /\ s.left[h] \in Nat /\ s.room \in Nat /\ s.left \in [ReqIds -> Nat]
    BY <1>0, <1>3, TypeFacts, ServerAssumption
  <2>3. n \in Nat /\ n <= s.left[h] /\ n <= s.room
    BY <2>2 DEF Least
  <2>4. s.failed = {}
    BY <1>3
  <2> HIDE DEF n
  <2>5. /\ u \in ConnType /\ u.queue = s.queue /\ u.failed = {} /\ u.left = [s.left EXCEPT ![h] = s.left[h] - n]
    BY <1>0, <1>3, <2>3, <2>4, UpdateFields
  <2>6. Good(u) /\ Ordered(u)
    BY <1>3, <2>3, <2>4, UpdateGood, UpdateOrdered
  <2> HIDE DEF u
  <2>7. CASE n = s.left[h]
    <3>1. t = uv__write_req_finish(u)
      BY <2>1, <2>7
    <3>2. u.left[Head(u.queue)] = 0
      BY <2>2, <2>5, <2>7
    <3>3. Ordered(t) /\ t.failed = u.failed
      BY <3>1, <3>2, <2>5, <2>6, <1>3, FinishOrdered, FinishFields
    <3> QED BY <3>3, <2>5
  <2>8. CASE n # s.left[h]
    <3>1. t = [u EXCEPT !.wake = @ \cup {"POLLOUT"}]
      BY <2>1, <2>8
    <3>2. SameReplies(t, u)
      BY <3>1, <2>5 DEF ConnType, SameReplies
    <3> QED BY <3>2, <2>5, <2>6, OrderedFrame DEF SameReplies
  <2> QED BY <2>7, <2>8
<1>4. CASE s.queue # <<>> /\ s.peer = "broken"
  BY <1>4 DEF uv__write
<1> QED BY <1>1, <1>2, <1>3, <1>4

\* What holds of a connection for its replies to come in order.
InOrder(s) == Ordered(s) /\ Over(s)

\* The inductive invariant of the order of replies.
OrderInv == \A c \in Conns : InOrder(conn[c])

\* A step of a client leaves the replies alone; a socket that is broken stays so.
LEMMA PeerOrdered ==
  ASSUME ServerInv, NEW c \in Conns, InOrder(conn[c]), PeerNext(c)
  PROVE  \E t \in ConnType : InOrder(t) /\ conn' = [conn EXCEPT ![c] = t]
<1> DEFINE s == conn[c]
<1>1. s \in ConnType
  BY DEF ServerInv
<1>2. PICK t \in ConnType : conn' = [conn EXCEPT ![c] = t]
  BY PeerKeeps
<1>3. conn \in [Conns -> ConnType]
  BY DEF ServerInv
<1>4. t = conn'[c]
  BY <1>2, <1>3
<1> HIDE DEF s
<1>5. s = conn[c]
  BY DEF s
<1>6. /\ t.handle = s.handle /\ SameReplies(t, s)
      /\ s.peer = "broken" => t.peer = "broken"
  <2>1. CASE PeerConnect(c)
    BY <2>1, <1>1, <1>3, <1>4, <1>5 DEF PeerConnect, PeerStep, ConnType, SameReplies
  <2>2. CASE PeerSend(c)
    BY <2>2, <1>1, <1>3, <1>4, <1>5 DEF PeerSend, PeerStep, ConnType, SameReplies
  <2>3. CASE PeerRead(c)
    BY <2>3, <1>1, <1>3, <1>4, <1>5 DEF PeerRead, PeerStep, ConnType, SameReplies
  <2>4. CASE PeerClose(c)
    BY <2>4, <1>1, <1>3, <1>4, <1>5 DEF PeerClose, PeerStep, ConnType, SameReplies
  <2>5. CASE PeerReset(c)
    BY <2>5, <1>1, <1>3, <1>4, <1>5 DEF PeerReset, PeerStep, ConnType, SameReplies
  <2> QED BY <2>1, <2>2, <2>3, <2>4, <2>5 DEF PeerNext
<1>7. InOrder(s)
  BY DEF s
<1>8. InOrder(t)
  BY <1>6, <1>7, OrderedFrame DEF InOrder, Over, SameReplies
<1> QED BY <1>2, <1>8

\* uv_write2 keeps the order: the reply waits behind those that are there.
LEMMA Write2Ordered ==
  ASSUME NEW s, Good(s), InOrder(s), s.handle = "open", s.nreq < MaxReqs, NEW n \in Nat,
         NEW t \in uv_write2(s, n)
  PROVE  Ordered(t) /\ (t.failed # {} => t.peer = "broken")
<1> DEFINE u == Enqueue(s, n)
<1>1. Good(u) /\ u \in ConnType /\ Ordered(u)
  BY EnqueueGood, EnqueueOrdered DEF Good, InOrder
<1>2. u.failed # {} => u.peer = "broken"
  BY EnqueueFields DEF Good, InOrder, Over
<1>3. CASE SizeIsZero(s)
  <2>1. t \in uv__write(u)
    BY <1>3 DEF uv_write2
  <2> HIDE DEF u
  <2> QED BY <2>1, <1>1, <1>2, WriteOrdered
<1>4. CASE ~SizeIsZero(s)
  <2>1. t = [u EXCEPT !.wake = @ \cup {"POLLOUT"}]
    BY <1>4 DEF uv_write2
  <2> HIDE DEF u
  <2>2. SameReplies(t, u) /\ t.peer = u.peer
    BY <2>1, <1>1 DEF ConnType, SameReplies
  <2> QED BY <2>2, <1>1, <1>2, OrderedFrame DEF SameReplies
<1> QED BY <1>3, <1>4

\* A callback of the loop keeps the order, or the process ends.
LEMMA LoopOrdered ==
  ASSUME ServerInv, NEW c \in Conns, InOrder(conn[c]), LoopStep(c)
  PROVE  (\E t \in ConnType : InOrder(t) /\ conn' = [conn EXCEPT ![c] = t]) \/ UNCHANGED conn
<1> SUFFICES ASSUME ~UNCHANGED conn
             PROVE  \E t \in ConnType : InOrder(t) /\ conn' = [conn EXCEPT ![c] = t]
  OBVIOUS
<1> DEFINE s == conn[c]
<1>1. s \in ConnType /\ Good(s) /\ ConnInv(s) /\ InOrder(s)
  BY DEF ServerInv, ConnInv
<1>2. conn \in [Conns -> ConnType]
  BY DEF ServerInv
<1>3. PICK r \in ConnType : ConnInv(r) /\ conn' = [conn EXCEPT ![c] = r]
  BY LoopKeeps
<1>4. r = conn'[c]
  BY <1>2, <1>3
<1> HIDE DEF s
<1>5. s = conn[c]
  BY DEF s
<1>6. ASSUME NEW t, Step(c, t) PROVE r = t
  BY <1>2, <1>4, <1>6 DEF Step
<1>7. InOrder(r)
  <2>1. CASE on_new_connection(c)
    <3>1. r = [s EXCEPT !.handle = "open"] /\ s.handle = "none"
      BY <2>1, <1>5, <1>6 DEF on_new_connection
    <3>2. SameReplies(r, s) /\ s.failed = {}
      BY <3>1, <1>1 DEF ConnType, SameReplies, InOrder, Over
    <3> QED BY <3>2, <1>1, OrderedFrame DEF InOrder, Over, SameReplies
  <2>2. CASE AcceptFails(c)
    <3>1. r = [s EXCEPT !.handle = "refused", !.peer = "reset", !.inbox = 0] /\ s.handle = "none"
      BY <2>2, <1>5, <1>6 DEF AcceptFails
    <3>2. SameReplies(r, s) /\ s.failed = {}
      BY <3>1, <1>1 DEF ConnType, SameReplies, InOrder, Over
    <3> QED BY <3>2, <1>1, OrderedFrame DEF InOrder, Over, SameReplies
  <2>3. CASE on_read_cb_data(c)
    <3>1. PICK k \in 1..s.inbox, n \in ReplyLens :
            LET u == [s EXCEPT !.inbox = @ - k]
            IN  \/ \E t \in uv_write2(u, n) : Step(c, t)
                \/ SizeIsZero(u) /\ SigPipe(Enqueue(u, n))
      BY <2>3, <1>5 DEF on_read_cb_data
    <3> DEFINE u == [s EXCEPT !.inbox = @ - k]
    <3>2. s.handle = "open"
      BY <2>3, <1>5 DEF on_read_cb_data
    <3>3. PICK t \in uv_write2(u, n) : Step(c, t)
      BY <3>1 DEF SigPipe
    <3>4. r = t
      BY <3>3, <1>6
    <3>5. s.inbox - k \in 0..MaxReqs /\ s.nreq < MaxReqs
      <4>1. /\ s.nreq \in Nat /\ s.inbox \in 0..MaxReqs /\ s.asked \in 0..MaxReqs
            /\ s.nreq + s.inbox <= s.asked
        BY <1>1, TypeFacts, ServerAssumption DEF ConnInv
      <4> QED BY <4>1, ServerAssumption
    <3>6. u \in ConnType /\ SameQueues(u, s) /\ SameReplies(u, s) /\ u.handle = "open" /\ u.peer = s.peer
      BY <3>2, <3>5, <1>1 DEF ConnType, SameQueues, SameReplies
    <3> HIDE DEF u
    <3>7. Good(u) /\ InOrder(u) /\ u.nreq < MaxReqs
      BY <3>5, <3>6, <3>2, <1>1, Frame, OrderedFrame DEF InOrder, Over, SameReplies
    <3>8. Ordered(t) /\ (t.failed # {} => t.peer = "broken") /\ t.handle = "open"
      <4>1. n \in Nat
        BY ServerAssumption
      <4>2. u.completed # <<>> => "pending" \in u.wake
        BY <3>2, <1>1 DEF ConnInv, Awake, u, ConnType
      <4> QED BY <4>1, <4>2, <3>3, <3>6, <3>7, Write2Ordered, Write2Good
    <3> QED BY <3>4, <3>8 DEF InOrder, Over
  <2>4. CASE on_read_cb_end(c)
    <3>1. r = uv_close(s) /\ s.handle = "open"
      BY <2>4, <1>5, <1>6 DEF on_read_cb_end
    <3>2. SameReplies(r, s) /\ r.peer = s.peer /\ r.handle = "closing"
      BY <3>1, <1>1 DEF ConnType, SameReplies, uv_close
    <3> QED BY <3>1, <3>2, <1>1, OrderedFrame DEF InOrder, Over, SameReplies
  <2>5. CASE uv__stream_io(c)
    <3> DEFINE u == [s EXCEPT !.wake = @ \ {"pending"}]
    <3>1. s.handle = "open"
      BY <2>5, <1>5 DEF uv__stream_io
    <3>2. PICK t \in uv__write(u) : Step(c, uv__drain(uv__write_callbacks(t)))
      BY <2>5, <1>5 DEF uv__stream_io, SigPipe
    <3>3. r = uv__drain(uv__write_callbacks(t))
      BY <3>2, <1>6
    <3>4. s.wake \ {"pending"} \in SUBSET {"POLLOUT", "pending"}
      BY <1>1, TypeFacts
    <3>5. u \in ConnType /\ SameQueues(u, s) /\ SameReplies(u, s) /\ u.handle = "open" /\ u.peer = s.peer
      BY <3>1, <3>4, <1>1 DEF ConnType, SameQueues, SameReplies
    <3> HIDE DEF u
    <3>6. Good(u) /\ Ordered(u) /\ (u.failed # {} => u.peer = "broken")
      BY <3>1, <3>5, <1>1, Frame, OrderedFrame DEF InOrder, Over, SameReplies
    <3>7. Ordered(t) /\ (t.failed # {} => t.peer = "broken") /\ t \in ConnType /\ t.handle = "open"
      BY <3>2, <3>5, <3>6, WriteOrdered, WriteGood DEF Good, SameStream
    <3> DEFINE v == uv__write_callbacks(t)
    <3>8. v \in ConnType /\ SameReplies(v, t) /\ v.peer = t.peer /\ v.handle = t.handle
      <4>1. /\ v \in ConnType /\ SameRest(v, t) /\ v.queue = t.queue /\ v.failed = t.failed
            /\ v.left = t.left
        BY <3>7, CallbackFields
      <4>2. v.len = t.len
        BY <3>7 DEF uv__write_callbacks, ConnType
      <4> QED BY <4>1, <4>2 DEF SameReplies, SameRest
    <3>9. r = uv__drain(v)
      BY <3>3
    <3> HIDE DEF v
    <3>10. SameReplies(r, v) /\ r.peer = v.peer /\ r.handle = v.handle
      BY <3>8, <3>9 DEF uv__drain, ConnType, SameReplies
    <3>11. Ordered(r)
      BY <3>7, <3>8, <3>10, OrderedFrame
    <3> QED BY <3>7, <3>8, <3>10, <3>11 DEF InOrder, Over, SameReplies
  <2>6. CASE on_close(c)
    <3> DEFINE u == uv__stream_flush_write_queue(s)
               v == uv__write_callbacks(u)
    <3>1. r = [v EXCEPT !.handle = "freed"]
      BY <2>6, <1>5, <1>6 DEF on_close, uv__stream_destroy
    <3>2. u \in ConnType /\ Ordered(u)
      BY <1>1, FlushFields, FlushOrdered DEF InOrder
    <3> HIDE DEF u
    <3>3. v \in ConnType /\ SameReplies(v, u)
      <4>1. /\ v \in ConnType /\ SameRest(v, u) /\ v.queue = u.queue /\ v.failed = u.failed
            /\ v.left = u.left
        BY <3>2, CallbackFields
      <4>2. v.len = u.len
        BY <3>2 DEF uv__write_callbacks, ConnType
      <4> QED BY <4>1, <4>2 DEF SameReplies, SameRest
    <3> HIDE DEF v
    <3>4. SameReplies(r, v) /\ r.handle = "freed"
      BY <3>1, <3>3 DEF ConnType, SameReplies
    <3> QED BY <3>2, <3>3, <3>4, OrderedFrame DEF InOrder, Over
  <2> QED BY <2>1, <2>2, <2>3, <2>4, <2>5, <2>6 DEF LoopStep
<1> QED BY <1>3, <1>7

\* The order holds before a client connects, and every step keeps it.
LEMMA OrderHolds == ServerSpec => []OrderInv
<1>1. ServerInit => OrderInv
  <2>1. InOrder(NoConn)
    <3>1. \A i \in 1..NoConn.nreq : FALSE
      BY DEF NoConn
    <3>2. NoConn.failed = {} /\ Range(NoConn.queue) = {}
      BY DEF NoConn, Range
    <3> QED BY <3>1, <3>2 DEF InOrder, Ordered, Over
  <2> QED BY <2>1 DEF ServerInit, OrderInv
<1>2. ServerInv /\ OrderInv /\ [ServerNext]_serverVars => OrderInv'
  <2> SUFFICES ASSUME ServerInv, OrderInv, [ServerNext]_serverVars PROVE OrderInv'
    OBVIOUS
  <2>1. ASSUME NEW c \in Conns, NEW t \in ConnType, InOrder(t), conn' = [conn EXCEPT ![c] = t]
        PROVE  OrderInv'
    <3>1. \A d \in Conns : conn'[d] = IF d = c THEN t ELSE conn[d]
      BY <2>1 DEF ServerInv
    <3>2. \A d \in Conns : InOrder(conn'[d])
      BY <3>1, <2>1 DEF OrderInv
    <3> QED BY <3>2 DEF OrderInv
  <2>2. CASE UNCHANGED conn
    BY <2>2 DEF OrderInv
  <2>3. ASSUME NEW c \in Conns, LoopStep(c) PROVE OrderInv'
    <3>1. InOrder(conn[c])
      BY DEF OrderInv
    <3> QED BY <3>1, <2>1, <2>2, <2>3, LoopOrdered
  <2>4. ASSUME NEW c \in Conns, PeerNext(c) PROVE OrderInv'
    <3>1. InOrder(conn[c])
      BY DEF OrderInv
    <3> QED BY <3>1, <2>1, <2>4, PeerOrdered
  <2> QED BY <2>2, <2>3, <2>4 DEF ServerNext, sig_handler, serverVars
<1> QED BY <1>1, <1>2, Invariance, PTL DEF ServerSpec

\* The client receives whole replies in the order of its requests, over partial
\* writes, full buffers and failures: uv__write looks at the first request only, and
\* after an error it never writes again on this socket.
THEOREM RepliesComeInOrder == ServerSpec => []RepliesInOrder
<1>1. ASSUME ServerInv, OrderInv, NEW c \in Conns, NEW i \in 1..conn[c].nreq, NEW j \in 1..conn[c].nreq,
             i < j, conn[c].left[j] < conn[c].len[j]
      PROVE  conn[c].left[i] = 0
  <2> DEFINE s == conn[c]
  <2>1. Good(s) /\ s \in ConnType /\ Ordered(s) /\ s.nreq \in 0..MaxReqs
    BY <1>1, TypeFacts DEF ServerInv, OrderInv, ConnInv, Good, InOrder
  <2> HIDE DEF s
  <2>2. i \in 1..s.nreq /\ j \in 1..s.nreq /\ i < j /\ s.left[j] < s.len[j]
    BY <1>1 DEF s
  <2>3. i \in ReqIds /\ j \in ReqIds /\ j <= s.nreq
    BY <2>1, <2>2, ServerAssumption DEF ReqIds
  <2>4. s.left[j] # s.len[j]
    BY <2>1, <2>2, <2>3, TypeFacts
  <2>5. i \notin s.failed
    BY <2>1, <2>2, <2>4 DEF Ordered
  <2>6. i \notin Range(s.queue)
    <3> SUFFICES ASSUME i \in Range(s.queue) PROVE FALSE
      OBVIOUS
    <3>1. s.queue # <<>>
      BY DEF Range
    <3> DEFINE h == Head(s.queue)
    <3>2. h \in ReqIds /\ h <= i /\ \A k \in ReqIds : h < k /\ k <= s.nreq => k \in Range(s.queue)
      BY <3>1, <2>1, HeadIsFirst
    <3> HIDE DEF h
    <3>3. h < j /\ j # h
      BY <3>2, <2>2, <2>3 DEF ReqIds
    <3> QED BY <3>2, <3>3, <2>1, <2>3, <2>4 DEF Ordered, h
  <2>7. s.left[i] = 0
    BY <2>1, <2>2, <2>5, <2>6 DEF Ordered
  <2> QED BY <2>7 DEF s
<1>2. ServerInv /\ OrderInv => RepliesInOrder
  BY <1>1 DEF RepliesInOrder
<1> QED BY <1>2, Invariance, OrderHolds, PTL
=============================================================================
