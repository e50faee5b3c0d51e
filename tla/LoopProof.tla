----------------------------- MODULE LoopProof -----------------------------
(***************************************************************************)
(* Theorems about EventLoop for any number of connections and descriptors, *)
(* any size of the event array and any limits.                             *)
(*                                                                         *)
(* Everything refers to open handles: the table of watchers, the queues    *)
(* and the epoll set are tied to them by one invariant on the loop, Good,  *)
(* which every function keeps that a callback calls, not only every turn.  *)
(* That what epoll was told is what a handle wants rests on what libuv     *)
(* remembers to have told it, events: uv__io_start compares with that.     *)
(***************************************************************************)
EXTENDS EventLoop, FiniteSetTheorems, FunctionTheorems, SequenceTheorems, WellFoundedInduction, TLAPS

-----------------------------------------------------------------------------
\* A set of naturals that is not empty has a least member.
LEMMA LeastNat ==
  ASSUME NEW S \in SUBSET Nat, S # {}
  PROVE  \E m \in S : \A k \in S : m <= k
<1> DEFINE R == {ss \in Nat \X Nat : ss[1] < ss[2]}
<1>1. IsWellFoundedOn(R, Nat)
  BY NatLessThanWellFounded DEF OpToRel
<1>2. \E x \in S : \A y \in S : ~(<<y, x>> \in R)
  <2> HIDE DEF R
  <2> QED BY <1>1, WFMin
<1>3. \A x, y \in Nat : ~(<<y, x>> \in R) => x <= y
  OBVIOUS
<1> QED BY <1>2, <1>3

\* Induction, as a fact about a set: the least number outside it cannot be.
LEMMA NatInd ==
  ASSUME NEW S, 0 \in S, \A n \in Nat : n \in S => n + 1 \in S
  PROVE  \A n \in Nat : n \in S
<1> DEFINE T == Nat \ S
<1> SUFFICES ASSUME T # {} PROVE FALSE
  OBVIOUS
<1>1. PICK m \in T : \A k \in T : m <= k
  BY LeastNat
<1>2. m \in Nat /\ m # 0
  OBVIOUS
<1>3. m - 1 \in Nat /\ m - 1 \notin T /\ m - 1 + 1 = m
  BY <1>1, <1>2
<1> QED BY <1>3

\* A loop that stays in D at every round ends in D.
LEMMA Rounds ==
  ASSUME NEW n \in Nat, NEW F, NEW D, F[0] \in D, \A i \in 1..n : F[i - 1] \in D => F[i] \in D
  PROVE  F[n] \in D
<1> DEFINE S == {m \in Nat : m <= n => F[m] \in D}
<1>1. 0 \in S
  OBVIOUS
<1>2. ASSUME NEW m \in Nat, m \in S PROVE m + 1 \in S
  <2>1. m + 1 <= n => m + 1 \in 1..n /\ m <= n /\ (m + 1) - 1 = m
    OBVIOUS
  <2> QED BY <1>2, <2>1
<1>3. n \in S
  <2> HIDE DEF S
  <2> QED BY <1>1, <1>2, NatInd
<1> QED BY <1>3

\* g takes base through n rounds, in D.
Runs(n, D, base, g) ==
  \E f \in [0..n -> D] : f[0] = base /\ \A i \in 1..n : f[i] = g[<<i, f[i - 1]>>]

\* A recursive definition along 0..n has a solution.
LEMMA Recursion ==
  ASSUME NEW n \in Nat, NEW D, NEW base \in D, NEW g \in [Nat \X D -> D]
  PROVE  Runs(n, D, base, g)
<1> DEFINE Solves(f, m) == f[0] = base /\ \A i \in 1..m : f[i] = g[<<i, f[i - 1]>>]
           S == {m \in Nat : \E f \in [0..m -> D] : Solves(f, m)}
<1>1. 0 \in S
  <2> DEFINE f == [i \in 0..0 |-> base]
  <2>1. f \in [0..0 -> D] /\ Solves(f, 0)
    OBVIOUS
  <2> HIDE DEF f, Solves
  <2> QED BY <2>1
<1>2. ASSUME NEW m \in Nat, m \in S PROVE m + 1 \in S
  <2>1. PICK f \in [0..m -> D] : Solves(f, m)
    BY <1>2
  <2> DEFINE h == [i \in 0..(m + 1) |-> IF i = m + 1 THEN g[<<m + 1, f[m]>>] ELSE f[i]]
  <2>2. g[<<m + 1, f[m]>>] \in D
    <3>1. f[m] \in D /\ m + 1 \in Nat
      OBVIOUS
    <3> QED BY <3>1
  <2>3. h \in [0..(m + 1) -> D]
    BY <2>2
  <2>4. h[0] = base
    BY <2>1
  <2>5. ASSUME NEW i \in 1..(m + 1) PROVE h[i] = g[<<i, h[i - 1]>>]
    <3>1. CASE i = m + 1
      <4>1. h[i] = g[<<m + 1, f[m]>>] /\ h[m] = f[m] /\ i - 1 = m
        BY <3>1
      <4> HIDE DEF h
      <4> QED BY <3>1, <4>1
    <3>2. CASE i # m + 1
      <4>1. i \in 1..m /\ i \in 0..m /\ i - 1 \in 0..m
        BY <3>2
      <4>2. h[i] = f[i] /\ h[i - 1] = f[i - 1]
        BY <4>1
      <4>3. f[i] = g[<<i, f[i - 1]>>]
        BY <2>1, <4>1
      <4> HIDE DEF h
      <4> QED BY <4>2, <4>3
    <3> QED BY <3>1, <3>2
  <2> HIDE DEF h
  <2>6. Solves(h, m + 1)
    BY <2>4, <2>5
  <2> HIDE DEF Solves
  <2> QED BY <2>3, <2>6
<1>3. n \in S
  <2> HIDE DEF S
  <2> QED BY <1>1, <1>2, NatInd
<1> QED BY <1>3 DEF Runs

\* What Only leaves comes from the queue and from the set, and that is all that is in both.
LEMMA OnlyIs ==
  ASSUME NEW A, NEW q \in Seq(A), NEW S
  PROVE  /\ Only(q, S) \in Seq(A \cap Range(q) \cap S)
         /\ \A x \in Range(q) \cap S : x \in Range(Only(q, S))
<1> DEFINE X == A \cap Range(q) \cap S
           D == Seq(X)
           n == Len(q)
           g == [x \in Nat \X D |-> IF x[1] \in 1..n /\ q[x[1]] \in S THEN Append(x[2], q[x[1]]) ELSE x[2]]
           Body(F, i) == IF i = 0 THEN <<>> ELSE IF q[i] \in S THEN Append(F[i - 1], q[i]) ELSE F[i - 1]
           F == CHOOSE f : f = [i \in 0..n |-> Body(f, i)]
<1>1. Only(q, S) = F[n]
  BY DEF Only
<1>2. n \in Nat /\ \A i \in 1..n : q[i] \in A /\ q[i] \in Range(q)
  BY DEF Range
<1>3. ASSUME NEW d \in D, NEW i \in 1..n, q[i] \in S PROVE Append(d, q[i]) \in D
  <2>1. q[i] \in X
    BY <1>2, <1>3
  <2> HIDE DEF X
  <2> QED BY <2>1
<1>4. <<>> \in D
  OBVIOUS
<1>5. \E f : f = [i \in 0..n |-> Body(f, i)]
  <2>1. g \in [Nat \X D -> D]
    <3>1. ASSUME NEW i \in Nat, NEW d \in D
          PROVE  (IF i \in 1..n /\ q[i] \in S THEN Append(d, q[i]) ELSE d) \in D
      BY <1>3
    <3> HIDE DEF D
    <3> QED BY <3>1
  <2>2. PICK f \in [0..n -> D] : f[0] = <<>> /\ \A i \in 1..n : f[i] = g[<<i, f[i - 1]>>]
    <3> HIDE DEF g, D, n
    <3>1. n \in Nat /\ <<>> \in D
      BY <1>2, <1>4
    <3>2. Runs(n, D, <<>>, g)
      BY <3>1, <2>1, Recursion
    <3> QED BY <3>2 DEF Runs
  <2>3. ASSUME NEW i \in 0..n PROVE f[i] = Body(f, i)
    <3>1. CASE i = 0
      BY <3>1, <2>2
    <3>2. CASE i # 0
      <4>1. i \in 1..n /\ i - 1 \in 0..n /\ i \in Nat
        BY <1>2, <3>2
      <4>2. f[i - 1] \in D
        BY <4>1
      <4>3. f[i] = g[<<i, f[i - 1]>>]
        BY <2>2, <4>1
      <4> HIDE DEF D
      <4> QED BY <3>2, <4>1, <4>2, <4>3
    <3> QED BY <3>1, <3>2
  <2>4. f = [i \in 0..n |-> f[i]]
    OBVIOUS
  <2> HIDE DEF Body
  <2> QED BY <2>3, <2>4
<1>6. F = [i \in 0..n |-> Body(F, i)]
  <2> HIDE DEF Body, n
  <2> QED BY <1>5
<1>7. F[0] = <<>> /\ \A i \in 1..n : F[i] = IF q[i] \in S THEN Append(F[i - 1], q[i]) ELSE F[i - 1]
  <2> HIDE DEF F
  <2>1. \A i \in 0..n : F[i] = Body(F, i)
    <3> HIDE DEF Body
    <3> QED BY <1>6
  <2>2. 0 \in 0..n /\ \A i \in 1..n : i \in 0..n /\ i # 0
    BY <1>2
  <2> QED BY <2>1, <2>2
<1>8. F[n] \in D /\ \A j \in 1..n : q[j] \in S => q[j] \in Range(F[n])
  <2> HIDE DEF F, D
  <2> DEFINE All == {m \in Nat : m <= n => F[m] \in D /\ \A j \in 1..m : q[j] \in S => q[j] \in Range(F[m])}
  <2>1. 0 \in All
    BY <1>4, <1>7
  <2>2. ASSUME NEW m \in Nat, m \in All PROVE m + 1 \in All
    <3> SUFFICES ASSUME m + 1 <= n
                 PROVE  F[m + 1] \in D /\ \A j \in 1..(m + 1) : q[j] \in S => q[j] \in Range(F[m + 1])
      OBVIOUS
    <3> DEFINE i == m + 1
    <3>1. i \in 1..n /\ i - 1 = m /\ i \in Nat
      BY <1>2
    <3>2. F[m] \in D /\ \A j \in 1..m : q[j] \in S => q[j] \in Range(F[m])
      BY <1>2, <2>2
    <3>3. F[i] = IF q[i] \in S THEN Append(F[m], q[i]) ELSE F[m]
      BY <1>7, <3>1
    <3>4. \A j \in 1..i : j \in 1..m \/ j = i
      OBVIOUS
    <3> HIDE DEF i
    <3>5. CASE q[i] \notin S
      BY <3>2, <3>3, <3>4, <3>5 DEF i
    <3>6. CASE q[i] \in S
      <4>1. F[i] \in D /\ F[i] = Append(F[m], q[i])
        BY <1>3, <3>1, <3>2, <3>3, <3>6
      <4>2. \A x : x \in Range(F[m]) \/ x = q[i] => x \in Range(F[i])
        <5>1. F[m] \in Seq(X) /\ q[i] \in X
          BY <1>2, <3>1, <3>2, <3>6 DEF D
        <5> HIDE DEF X
        <5>2. /\ DOMAIN F[m] = 1..Len(F[m]) /\ Len(F[m]) \in Nat /\ DOMAIN F[i] = 1..(Len(F[m]) + 1)
              /\ \A k \in 1..Len(F[m]) : F[i][k] = F[m][k]
              /\ F[i][Len(F[m]) + 1] = q[i]
          BY <4>1, <5>1, AppendProperties, LenProperties
        <5>3. \A k \in 1..Len(F[m]) : k \in 1..(Len(F[m]) + 1)
          BY <5>2
        <5>4. Len(F[m]) + 1 \in 1..(Len(F[m]) + 1)
          BY <5>2
        <5> QED BY <5>2, <5>3, <5>4 DEF Range
      <4> QED BY <3>2, <3>4, <4>1, <4>2 DEF i
    <3> QED BY <3>5, <3>6 DEF i
  <2>3. n \in All
    <3> HIDE DEF All, n
    <3> QED BY <1>2, <2>1, <2>2, NatInd
  <2> QED BY <1>2, <2>3
<1>9. \A x \in Range(q) \cap S : x \in Range(Only(q, S))
  <2> TAKE x \in Range(q) \cap S
  <2>1. PICK j \in 1..n : x = q[j]
    BY DEF Range
  <2> HIDE DEF F, D
  <2> QED BY <1>1, <1>8, <2>1
<1> QED BY <1>1, <1>8, <1>9

\* A set made a sequence.
LEMMA SetToSeqIs ==
  ASSUME NEW S, IsFiniteSet(S)
  PROVE  SetToSeq(S) \in Seq(S) /\ Range(SetToSeq(S)) = S
<1>1. Cardinality(S) \in Nat /\ ExistsBijection(1..Cardinality(S), S)
  BY FS_CardinalityType
<1>2. \E f \in [1..Cardinality(S) -> S] : IsInjective(f)
  BY <1>1 DEF ExistsBijection, Bijection, Injection, IsInjective
<1> DEFINE q == SetToSeq(S)
           N == 1..Cardinality(S)
<1>3. q \in [N -> S] /\ IsInjective(q)
  <2> HIDE DEF N
  <2> QED BY <1>2 DEF SetToSeq, N
\* As many positions as members, so that each member has one.
<1>4. \A x \in S : \E i \in N : q[i] = x
  <2>1. q \in Injection(N, S)
    BY <1>3 DEF Injection
  <2>2. Cardinality(N) = Cardinality(S)
    BY <1>1, FS_Interval
  <2> HIDE DEF q, N
  <2>3. q \in Surjection(N, S)
    BY <2>1, <2>2, FS_Injection
  <2> QED BY <2>3 DEF Surjection
<1>5. q \in Seq(S)
  <2> HIDE DEF q
  <2> QED BY <1>1, <1>3
<1>6. Range(q) = S
  <2> HIDE DEF q, N
  <2> QED BY <1>3, <1>4 DEF Range
<1> QED BY <1>5, <1>6

-----------------------------------------------------------------------------
\* The loop's fields.
Events == SUBSET {POLLIN, POLLOUT}
Happened == [fd : Fds, ev : Events]
LoopType ==
  [st : [Handles -> {"none", "open", "closing"}], fd : [Handles -> Fds \cup {-1}],
   pevents : [Handles -> Events], events : [Handles -> Events], writes : [Conns -> Int],
   watchers : [Fds -> Handles \cup {NULL}], nfds : Int, watcher_queue : SUBSET Handles,
   pending_queue : Seq(Conns), pq : Seq(Conns), closing : SUBSET Conns,
   interest : [Fds -> Events \cup {NULL}], ready : [Fds -> Events], order : Seq(Fds),
   batch : Seq(Happened)]

\* An open handle has a descriptor, is its watcher, and always wants to read; epoll has
\* of it what events remembers, and that is what it wants unless a change is queued.
OpenIs(l, h) ==
  /\ l.fd[h] \in Fds /\ l.watchers[l.fd[h]] = h
  /\ POLLIN \in l.pevents[h]
  /\ l.interest[l.fd[h]] = IF l.events[h] = {} THEN NULL ELSE l.events[h]
  /\ h \notin l.watcher_queue => l.events[h] = l.pevents[h]

\* Nothing is left of a handle that is not open.
ClosedIs(l, h) ==
  l.fd[h] = -1 /\ h \notin l.watcher_queue /\ l.pevents[h] = {} /\ l.events[h] = {}

ServerIs(l) == l.st[SERVER] = "open" /\ l.fd[SERVER] = 0

\* The table has open handles, and epoll knows only descriptors in it.
TableIs(l, f) ==
  /\ l.watchers[f] # NULL => l.st[l.watchers[f]] = "open" /\ l.fd[l.watchers[f]] = f
  /\ l.watchers[f] = NULL => l.interest[f] = NULL

Watched(l) == {f \in Fds : l.watchers[f] # NULL}

QueuesAre(l) ==
  /\ \A i \in DOMAIN l.pending_queue : l.st[l.pending_queue[i]] = "open"
  /\ \A i \in DOMAIN l.pq : l.st[l.pq[i]] = "open"
  /\ \A c \in l.closing : l.st[c] = "closing"
  /\ \A i \in DOMAIN l.batch : l.interest[l.batch[i].fd] # NULL

\* What every function that a callback calls leaves true of the loop.
Good(l) ==
  /\ l \in LoopType
  /\ \A h \in Handles : IF l.st[h] = "open" THEN OpenIs(l, h) ELSE ClosedIs(l, h)
  /\ ServerIs(l)
  /\ \A f \in Fds : TableIs(l, f)
  /\ l.nfds = Cardinality(Watched(l))
  /\ QueuesAre(l)

GoodLoops == {l \in LoopType : Good(l)}
OpenLoops(h) == {l \in GoodLoops : l.st[h] = "open"}

\* The events are no NULL, and there are finitely many descriptors.
LEMMA Basics ==
  /\ \A S \in Events : S # NULL
  /\ {} \in Events /\ {POLLIN} \in Events /\ {POLLOUT} \in Events /\ POLLIN # POLLOUT
  /\ NULL \notin Handles /\ SERVER \notin Conns /\ 0 \in Fds /\ -1 \notin Fds
  /\ \A F \in SUBSET Fds : IsFiniteSet(F) /\ Cardinality(F) \in Nat
<1>1. IsFiniteSet(Fds)
  BY LoopAssumption, FS_Interval DEF Fds
<1>2. \A F \in SUBSET Fds : IsFiniteSet(F) /\ Cardinality(F) \in Nat
  BY <1>1, FS_Subset, FS_CardinalityType
<1> QED BY <1>2, LoopAssumption DEF Events, POLLIN, POLLOUT, Handles, Fds

\* What a function on an open handle may change: what the handle wants, whether it is
\* queued for epoll, and the pending queue, where only open handles are put.
OpenStep(t, l, h) ==
  /\ t.st = l.st /\ t.fd = l.fd /\ t.events = l.events /\ t.watchers = l.watchers /\ t.nfds = l.nfds
  /\ t.closing = l.closing /\ t.interest = l.interest /\ t.batch = l.batch /\ t.pq = l.pq
  /\ POLLIN \in t.pevents[h] /\ \A g \in Handles \ {h} : t.pevents[g] = l.pevents[g]
  /\ \A g \in Handles \ {h} : g \in t.watcher_queue <=> g \in l.watcher_queue
  /\ h \notin t.watcher_queue => t.events[h] = t.pevents[h]
  /\ \A i \in DOMAIN t.pending_queue : l.st[t.pending_queue[i]] = "open"

LEMMA OpenFrame ==
  ASSUME NEW h \in Handles, NEW l \in OpenLoops(h), NEW t \in LoopType, OpenStep(t, l, h)
  PROVE  t \in OpenLoops(h)
<1>1. l \in LoopType /\ Good(l) /\ l.st[h] = "open"
  BY DEF OpenLoops, GoodLoops
<1>2. ASSUME NEW g \in Handles PROVE IF t.st[g] = "open" THEN OpenIs(t, g) ELSE ClosedIs(t, g)
  <2>1. IF l.st[g] = "open" THEN OpenIs(l, g) ELSE ClosedIs(l, g)
    BY <1>1 DEF Good
  <2>2. CASE g = h
    BY <1>1, <2>1, <2>2 DEF OpenStep, OpenIs
  <2>3. CASE g # h
    <3>1. t.pevents[g] = l.pevents[g] /\ (g \in t.watcher_queue <=> g \in l.watcher_queue)
      BY <2>3 DEF OpenStep
    <3>2. CASE l.st[g] = "open"
      BY <2>1, <3>1, <3>2 DEF OpenStep, OpenIs
    <3>3. CASE l.st[g] # "open"
      BY <2>1, <3>1, <3>3 DEF OpenStep, ClosedIs
    <3> QED BY <3>2, <3>3
  <2> QED BY <2>2, <2>3
<1>3. ServerIs(t) /\ \A f \in Fds : TableIs(t, f)
  BY <1>1 DEF Good, ServerIs, TableIs, OpenStep
<1>4. t.nfds = Cardinality(Watched(t))
  BY <1>1 DEF Good, Watched, OpenStep
<1>5. QueuesAre(t)
  BY <1>1 DEF Good, QueuesAre, OpenStep
<1> QED BY <1>1, <1>2, <1>3, <1>4, <1>5 DEF Good, OpenLoops, GoodLoops, OpenStep

\* What an open handle is.
LEMMA OpenFacts ==
  ASSUME NEW h \in Handles, NEW l \in OpenLoops(h)
  PROVE  /\ l \in LoopType /\ Good(l) /\ l.st[h] = "open" /\ OpenIs(l, h)
         /\ l.fd[h] \in Fds /\ l.fd[h] # -1 /\ l.watchers[l.fd[h]] = h /\ h # NULL
         /\ l.pevents[h] \in Events /\ POLLIN \in l.pevents[h]
         /\ \A i \in DOMAIN l.pending_queue : l.st[l.pending_queue[i]] = "open"
         /\ h \in l.watcher_queue \/ l.events[h] = l.pevents[h]
<1>1. l \in LoopType /\ Good(l) /\ l.st[h] = "open"
  BY DEF OpenLoops, GoodLoops
<1>2. OpenIs(l, h) /\ QueuesAre(l)
  BY <1>1 DEF Good
<1> QED BY <1>1, <1>2, Basics DEF OpenIs, QueuesAre, LoopType

\* uv__io_start of an open handle only notes what is new: its descriptor is in the table.
LEMMA IoStart ==
  ASSUME NEW h \in Handles, NEW l \in OpenLoops(h), NEW ev \in Events
  PROVE  uv__io_start(l, h, ev) \in OpenLoops(h)
<1> DEFINE t == uv__io_start(l, h, ev)
           w == l.pevents[h] \cup ev
<1>2. w \in Events /\ POLLIN \in w /\ l.watchers[l.fd[h]] # NULL
  BY OpenFacts DEF Events
<1>3. t = IF l.events[h] = w THEN [l EXCEPT !.pevents[h] = w]
          ELSE [l EXCEPT !.pevents[h] = w, !.watcher_queue = l.watcher_queue \cup {h}]
  <2> DEFINE p == [l EXCEPT !.pevents[h] = w]
  <2>1. p.pevents[h] = w /\ p.events = l.events
    BY OpenFacts DEF LoopType
  <2>2. t = IF p.events[h] = p.pevents[h] THEN p
            ELSE [p EXCEPT !.watcher_queue = @ \cup {h}, !.watchers[l.fd[h]] = @, !.nfds = @]
    BY <1>2 DEF uv__io_start
  <2>3. [p EXCEPT !.watcher_queue = @ \cup {h}, !.watchers[l.fd[h]] = @, !.nfds = @]
          = [l EXCEPT !.pevents[h] = w, !.watcher_queue = l.watcher_queue \cup {h}]
    <3>1. l \in LoopType /\ l.fd[h] \in Fds
      BY OpenFacts
    <3> HIDE DEF w
    <3>2. [l.watchers EXCEPT ![l.fd[h]] = l.watchers[l.fd[h]]] = l.watchers
      BY <3>1 DEF LoopType
    <3> QED BY <3>1, <3>2 DEF LoopType
  <2> QED BY <2>1, <2>2, <2>3
<1> HIDE DEF t, w
<1>4. t \in LoopType
  <2>1. l \in LoopType
    BY OpenFacts
  <2>2. /\ [l.pevents EXCEPT ![h] = w] \in [Handles -> Events]
        /\ l.watcher_queue \cup {h} \in SUBSET Handles
    BY <2>1, <1>2 DEF LoopType
  <2> QED BY <2>1, <2>2, <1>3 DEF LoopType
<1>5. OpenStep(t, l, h)
  <2>1. l \in LoopType
    BY OpenFacts
  <2>2. /\ t.st = l.st /\ t.fd = l.fd /\ t.events = l.events /\ t.watchers = l.watchers /\ t.nfds = l.nfds
        /\ t.closing = l.closing /\ t.interest = l.interest /\ t.batch = l.batch /\ t.pq = l.pq
        /\ t.pevents = [l.pevents EXCEPT ![h] = w] /\ t.pending_queue = l.pending_queue
        /\ t.watcher_queue = IF l.events[h] = w THEN l.watcher_queue ELSE l.watcher_queue \cup {h}
    BY <2>1, <1>3 DEF LoopType
  <2>3. t.pevents[h] = w /\ \A g \in Handles \ {h} : t.pevents[g] = l.pevents[g]
    BY <2>1, <2>2 DEF LoopType
  <2> QED BY <2>2, <2>3, <1>2, OpenFacts DEF OpenStep
<1> QED BY <1>4, <1>5, OpenFrame DEF t

\* uv__io_stop of writing leaves the reading, so the watcher stays.
LEMMA IoStop ==
  ASSUME NEW h \in Handles, NEW l \in OpenLoops(h)
  PROVE  uv__io_stop(l, h, {POLLOUT}) \in OpenLoops(h)
<1> DEFINE t == uv__io_stop(l, h, {POLLOUT})
           w == l.pevents[h] \ {POLLOUT}
<1>1. w \in Events /\ POLLIN \in w /\ w # {}
  BY OpenFacts, Basics DEF Events
<1>2. t = [l EXCEPT !.pevents[h] = w, !.watcher_queue = l.watcher_queue \cup {h}]
  BY <1>1, OpenFacts DEF uv__io_stop, LoopType
<1> HIDE DEF t, w
<1>3. t \in LoopType
  <2>1. l \in LoopType
    BY OpenFacts
  <2>2. /\ [l.pevents EXCEPT ![h] = w] \in [Handles -> Events]
        /\ l.watcher_queue \cup {h} \in SUBSET Handles
    BY <2>1, <1>1 DEF LoopType
  <2> QED BY <2>1, <2>2, <1>2 DEF LoopType
<1>4. OpenStep(t, l, h)
  <2>1. l \in LoopType
    BY OpenFacts
  <2>2. /\ t.st = l.st /\ t.fd = l.fd /\ t.events = l.events /\ t.watchers = l.watchers /\ t.nfds = l.nfds
        /\ t.closing = l.closing /\ t.interest = l.interest /\ t.batch = l.batch /\ t.pq = l.pq
        /\ t.pevents = [l.pevents EXCEPT ![h] = w] /\ t.watcher_queue = l.watcher_queue \cup {h}
        /\ t.pending_queue = l.pending_queue
    BY <2>1, <1>2 DEF LoopType
  <2>3. t.pevents[h] = w /\ \A g \in Handles \ {h} : t.pevents[g] = l.pevents[g]
    BY <2>1, <2>2 DEF LoopType
  <2> QED BY <2>2, <2>3, <1>1, OpenFacts DEF OpenStep
<1> QED BY <1>3, <1>4, OpenFrame DEF t

\* uv__io_feed puts an open handle into the pending queue.
LEMMA IoFeed ==
  ASSUME NEW c \in Conns, NEW l \in OpenLoops(c)
  PROVE  uv__io_feed(l, c) \in OpenLoops(c)
<1> DEFINE q == Append(l.pending_queue, c)
           t == [l EXCEPT !.pending_queue = q]
<1>1. c \in Handles
  BY DEF Handles
<1>2. l.pending_queue \in Seq(Conns)
  BY <1>1, OpenFacts DEF LoopType
<1>3. q \in Seq(Conns) /\ \A i \in DOMAIN q : q[i] = c \/ (i \in DOMAIN l.pending_queue /\ q[i] = l.pending_queue[i])
  BY <1>2
<1>4. uv__io_feed(l, c) \in {l, t}
  BY DEF uv__io_feed
<1> HIDE DEF q
<1>5. t \in LoopType
  <2>1. l \in LoopType
    BY <1>1, OpenFacts
  <2> QED BY <2>1, <1>3 DEF LoopType
<1>6. OpenStep(t, l, c)
  <2>1. \A i \in DOMAIN q : l.st[q[i]] = "open"
    BY <1>1, <1>3, OpenFacts
  <2>2. t.pending_queue = q
    BY <1>1, OpenFacts DEF LoopType
  <2> HIDE DEF t
  <2>3. t = [l EXCEPT !.pending_queue = q]
    BY DEF t
  <2> QED BY <1>1, <2>1, <2>2, <2>3, OpenFacts DEF LoopType, OpenStep
<1> HIDE DEF t
<1> QED BY <1>1, <1>4, <1>5, <1>6, OpenFrame

\* The replies and the sockets are not what the tables depend on.
LEMMA DataChange ==
  ASSUME NEW h \in Handles, NEW l \in OpenLoops(h),
         NEW w \in [Conns -> Int], NEW r \in [Fds -> Events]
  PROVE  [l EXCEPT !.writes = w, !.ready = r] \in OpenLoops(h)
<1> DEFINE t == [l EXCEPT !.writes = w, !.ready = r]
<1>1. l \in LoopType
  BY OpenFacts
<1>2. t \in LoopType
  BY <1>1 DEF LoopType
<1>3. OpenStep(t, l, h)
  <2>1. /\ t.st = l.st /\ t.fd = l.fd /\ t.events = l.events /\ t.watchers = l.watchers /\ t.nfds = l.nfds
        /\ t.closing = l.closing /\ t.interest = l.interest /\ t.batch = l.batch /\ t.pq = l.pq
        /\ t.pevents = l.pevents /\ t.watcher_queue = l.watcher_queue /\ t.pending_queue = l.pending_queue
    BY <1>1 DEF LoopType
  <2> HIDE DEF t
  <2> QED BY <2>1, OpenFacts DEF OpenStep
<1> HIDE DEF t
<1> QED BY <1>2, <1>3, OpenFrame DEF t

-----------------------------------------------------------------------------
\* Handles that close and handles that open.

\* What is left of a queue without a handle.
LEMMA WithoutIs ==
  ASSUME NEW q \in Seq(Conns), NEW c
  PROVE  /\ Without(q, c) \in Seq(Conns)
         /\ \A i \in DOMAIN Without(q, c) : Without(q, c)[i] # c /\ \E j \in DOMAIN q : Without(q, c)[i] = q[j]
<1> DEFINE w == Without(q, c)
           X == Conns \cap Range(q) \cap (Handles \ {c})
<1>1. w \in Seq(X)
  BY OnlyIs DEF Without
<1>2. X \subseteq Conns
  OBVIOUS
<1>3. \A x \in X : x # c /\ \E j \in DOMAIN q : x = q[j]
  BY DEF Range
<1> HIDE DEF w, X
<1>4. w \in Seq(Conns) /\ \A i \in DOMAIN w : w[i] \in X
  BY <1>1, <1>2
<1> QED BY <1>3, <1>4 DEF w

\* What is left of the events of epoll_wait without a descriptor.
Others(b, f) == Only(b, {e \in Range(b) : e.fd # f})

LEMMA InvalidatedIs ==
  ASSUME NEW b \in Seq(Happened), NEW f
  PROVE  /\ Others(b, f) \in Seq(Happened)
         /\ \A i \in DOMAIN Others(b, f) : Others(b, f)[i].fd # f /\ \E j \in DOMAIN b : Others(b, f)[i] = b[j]
<1> DEFINE S == {e \in Range(b) : e.fd # f}
           o == Others(b, f)
           X == Happened \cap Range(b) \cap S
<1>1. o \in Seq(X)
  <2>1. o = Only(b, S)
    BY DEF Others
  <2> HIDE DEF S, o
  <2> QED BY <2>1, OnlyIs
<1>2. X \subseteq Happened
  OBVIOUS
<1>3. \A x \in X : x.fd # f /\ \E j \in DOMAIN b : x = b[j]
  BY DEF Range
<1> HIDE DEF o, X
<1>4. o \in Seq(Happened) /\ \A i \in DOMAIN o : o[i] \in X
  BY <1>1, <1>2
<1> QED BY <1>3, <1>4 DEF o

\* The loop after uv_close.
LEMMA CloseFields ==
  ASSUME NEW c \in Conns, NEW l \in OpenLoops(c), NEW t, t = uv_close(l, c)
  PROVE  /\ t \in LoopType
         /\ t.st = [l.st EXCEPT ![c] = "closing"] /\ t.fd = [l.fd EXCEPT ![c] = -1]
         /\ t.pevents = [l.pevents EXCEPT ![c] = {}] /\ t.events = [l.events EXCEPT ![c] = {}]
         /\ t.watchers = [l.watchers EXCEPT ![l.fd[c]] = NULL] /\ t.nfds = l.nfds - 1
         /\ t.watcher_queue = l.watcher_queue \ {c} /\ t.closing = l.closing \cup {c}
         /\ t.pending_queue = Without(l.pending_queue, c) /\ t.pq = Without(l.pq, c)
         /\ t.interest = [l.interest EXCEPT ![l.fd[c]] = NULL]
         /\ t.batch = Others(l.batch, l.fd[c])
<1> DEFINE f == l.fd[c]
           s == uv__io_stop(l, c, {POLLIN, POLLOUT})
           w1 == Without(l.pending_queue, c)
           w2 == Without(l.pq, c)
           b == Others(l.batch, f)
           u == [s EXCEPT !.pending_queue = w1, !.pq = w2]
           v == uv__platform_invalidate_fd(u, f)
<1>1. c \in Handles /\ l \in LoopType /\ f \in Fds /\ f # -1 /\ l.watchers[f] = c
  BY OpenFacts DEF Handles
<1>2. l.pevents[c] \ {POLLIN, POLLOUT} = {}
  BY <1>1 DEF LoopType, Events
<1>3. s = [l EXCEPT !.pevents[c] = {}, !.watcher_queue = l.watcher_queue \ {c}, !.events[c] = {},
                    !.watchers[f] = NULL, !.nfds = l.nfds - 1]
  BY <1>1, <1>2 DEF uv__io_stop, LoopType
<1> HIDE DEF f, w1, w2, b
<1>4. w1 \in Seq(Conns) /\ w2 \in Seq(Conns) /\ b \in Seq(Happened)
  <2>1. l.pending_queue \in Seq(Conns) /\ l.pq \in Seq(Conns) /\ l.batch \in Seq(Happened)
    BY <1>1 DEF LoopType
  <2> QED BY <2>1, WithoutIs, InvalidatedIs DEF w1, w2, b
<1>5. s \in LoopType
  <2>1. /\ [l.pevents EXCEPT ![c] = {}] \in [Handles -> Events] /\ [l.events EXCEPT ![c] = {}] \in [Handles -> Events]
        /\ [l.watchers EXCEPT ![f] = NULL] \in [Fds -> Handles \cup {NULL}]
        /\ l.watcher_queue \ {c} \in SUBSET Handles /\ l.nfds - 1 \in Int
    BY <1>1, Basics DEF LoopType
  <2> HIDE DEF s
  <2> QED BY <1>1, <1>3, <2>1 DEF LoopType
<1>6. /\ s.st = l.st /\ s.fd = l.fd /\ s.pevents = [l.pevents EXCEPT ![c] = {}]
      /\ s.events = [l.events EXCEPT ![c] = {}] /\ s.watchers = [l.watchers EXCEPT ![f] = NULL]
      /\ s.nfds = l.nfds - 1 /\ s.watcher_queue = l.watcher_queue \ {c} /\ s.closing = l.closing
      /\ s.pending_queue = l.pending_queue /\ s.pq = l.pq /\ s.interest = l.interest /\ s.batch = l.batch
      /\ s.ready = l.ready
  <2> HIDE DEF s
  <2> QED BY <1>1, <1>3 DEF LoopType
<1>7. t = [v EXCEPT !.st[c] = "closing", !.closing = @ \cup {c}, !.ready[f] = {}, !.fd[c] = -1]
  <2>1. u = [s EXCEPT !.pending_queue = Without(@, c), !.pq = Without(@, c)]
    <3> HIDE DEF s
    <3> QED BY <1>5, <1>6 DEF LoopType, w1, w2
  <2>2. v = uv__io_close(l, c)
    BY <2>1 DEF uv__io_close, f
  <2> HIDE DEF v
  <2> QED BY <2>2 DEF uv_close, f
<1> HIDE DEF s
<1>8. v = [s EXCEPT !.pending_queue = w1, !.pq = w2, !.batch = b, !.interest[f] = NULL]
  <2>1. u.batch = l.batch
    BY <1>5, <1>6 DEF LoopType
  <2>2. v = [u EXCEPT !.batch = b, !.interest[f] = NULL]
    BY <2>1 DEF uv__platform_invalidate_fd, b, Others
  <2> QED BY <1>5, <2>2 DEF LoopType
<1> HIDE DEF v
<1>9. t = [s EXCEPT !.pending_queue = w1, !.pq = w2, !.batch = b, !.interest[f] = NULL,
                    !.st[c] = "closing", !.closing = l.closing \cup {c}, !.ready[f] = {}, !.fd[c] = -1]
  BY <1>5, <1>6, <1>7, <1>8 DEF LoopType
<1>10. t \in LoopType
  <2> DEFINE t1 == [s.interest EXCEPT ![f] = NULL]
             t2 == [s.ready EXCEPT ![f] = {}]
             t3 == [s.st EXCEPT ![c] = "closing"]
             t4 == [s.fd EXCEPT ![c] = -1]
             t5 == l.closing \cup {c}
  <2>1. /\ t1 \in [Fds -> Events \cup {NULL}] /\ t2 \in [Fds -> Events]
        /\ t3 \in [Handles -> {"none", "open", "closing"}] /\ t4 \in [Handles -> Fds \cup {-1}]
        /\ t5 \in SUBSET Conns
    BY <1>1, <1>5, <1>6, Basics DEF LoopType
  <2>2. t = [s EXCEPT !.pending_queue = w1, !.pq = w2, !.batch = b, !.interest = t1,
                      !.st = t3, !.closing = t5, !.ready = t2, !.fd = t4]
    BY <1>9
  <2> HIDE DEF t1, t2, t3, t4, t5
  <2> DEFINE x == [s EXCEPT !.pending_queue = w1, !.pq = w2, !.batch = b]
  <2>3. x \in LoopType
    BY <1>4, <1>5 DEF LoopType
  <2>4. t = [x EXCEPT !.interest = t1, !.st = t3, !.closing = t5, !.ready = t2, !.fd = t4]
    BY <2>2
  <2> HIDE DEF x
  <2> DEFINE y == [x EXCEPT !.interest = t1, !.st = t3]
  <2>5. y \in LoopType
    BY <2>1, <2>3 DEF LoopType
  <2>6. t = [y EXCEPT !.closing = t5, !.ready = t2, !.fd = t4]
    BY <2>4
  <2> HIDE DEF y
  <2> QED BY <2>1, <2>5, <2>6 DEF LoopType
<1>11. /\ t.st = [s.st EXCEPT ![c] = "closing"] /\ t.fd = [s.fd EXCEPT ![c] = -1]
       /\ t.pevents = s.pevents /\ t.events = s.events /\ t.watchers = s.watchers /\ t.nfds = s.nfds
       /\ t.watcher_queue = s.watcher_queue /\ t.closing = l.closing \cup {c}
       /\ t.pending_queue = w1 /\ t.pq = w2 /\ t.interest = [s.interest EXCEPT ![f] = NULL] /\ t.batch = b
  BY <1>5, <1>9 DEF LoopType
<1> QED BY <1>6, <1>10, <1>11 DEF f, w1, w2, b

\* A connection that closes leaves every table and queue, and epoll forgets it.
LEMMA Close ==
  ASSUME NEW c \in Conns, NEW l \in OpenLoops(c)
  PROVE  uv_close(l, c) \in GoodLoops
<1> DEFINE t == uv_close(l, c)
           f == l.fd[c]
<1>1. c \in Handles /\ l \in LoopType /\ Good(l) /\ l.st[c] = "open" /\ f \in Fds /\ l.watchers[f] = c /\ c # NULL
  BY OpenFacts DEF Handles
<1> HIDE DEF t
<1>2. /\ t \in LoopType
      /\ t.st = [l.st EXCEPT ![c] = "closing"] /\ t.fd = [l.fd EXCEPT ![c] = -1]
      /\ t.pevents = [l.pevents EXCEPT ![c] = {}] /\ t.events = [l.events EXCEPT ![c] = {}]
      /\ t.watchers = [l.watchers EXCEPT ![f] = NULL] /\ t.nfds = l.nfds - 1
      /\ t.watcher_queue = l.watcher_queue \ {c} /\ t.closing = l.closing \cup {c}
      /\ t.pending_queue = Without(l.pending_queue, c) /\ t.pq = Without(l.pq, c)
      /\ t.interest = [l.interest EXCEPT ![f] = NULL]
      /\ t.batch = Others(l.batch, f)
  BY CloseFields DEF t
<1> HIDE DEF f
<1>3. ASSUME NEW h \in Handles PROVE IF t.st[h] = "open" THEN OpenIs(t, h) ELSE ClosedIs(t, h)
  <2>1. IF l.st[h] = "open" THEN OpenIs(l, h) ELSE ClosedIs(l, h)
    BY <1>1 DEF Good
  <2>2. CASE h = c
    <3>1. t.st[h] = "closing" /\ t.fd[h] = -1 /\ t.pevents[h] = {} /\ t.events[h] = {} /\ h \notin t.watcher_queue
      BY <1>1, <1>2, <2>2 DEF LoopType
    <3> QED BY <3>1 DEF ClosedIs
  <2>3. CASE h # c
    <3>1. /\ t.st[h] = l.st[h] /\ t.fd[h] = l.fd[h] /\ t.pevents[h] = l.pevents[h] /\ t.events[h] = l.events[h]
          /\ (h \in t.watcher_queue <=> h \in l.watcher_queue)
      BY <1>1, <1>2, <2>3 DEF LoopType
    <3>2. CASE l.st[h] = "open"
      <4>1. OpenIs(l, h) /\ l.fd[h] # f
        BY <1>1, <2>1, <2>3, <3>2 DEF OpenIs
      <4>2. t.watchers[l.fd[h]] = l.watchers[l.fd[h]] /\ t.interest[l.fd[h]] = l.interest[l.fd[h]]
        BY <1>1, <1>2, <4>1 DEF LoopType, OpenIs
      <4> QED BY <3>1, <3>2, <4>1, <4>2 DEF OpenIs
    <3>3. CASE l.st[h] # "open"
      BY <2>1, <3>1, <3>3 DEF ClosedIs
    <3> QED BY <3>2, <3>3
  <2> QED BY <2>2, <2>3
<1>4. ServerIs(t)
  BY <1>1, <1>2, Basics DEF Good, ServerIs, LoopType, Handles
<1>5. ASSUME NEW g \in Fds PROVE TableIs(t, g)
  <2>1. CASE g = f
    <3>1. t.watchers[g] = NULL /\ t.interest[g] = NULL
      BY <1>1, <1>2, <2>1 DEF LoopType
    <3> QED BY <3>1 DEF TableIs
  <2>2. CASE g # f
    <3>1. t.watchers[g] = l.watchers[g] /\ t.interest[g] = l.interest[g] /\ TableIs(l, g)
      BY <1>1, <1>2, <2>2 DEF Good, LoopType
    <3>2. l.watchers[g] # NULL => l.watchers[g] \in Handles /\ l.watchers[g] # c
      BY <1>1, <2>2, <3>1 DEF TableIs, LoopType, f
    <3> QED BY <1>1, <1>2, <3>1, <3>2 DEF TableIs, LoopType
  <2> QED BY <2>1, <2>2
<1>6. t.nfds = Cardinality(Watched(t))
  <2>1. Watched(t) = Watched(l) \ {f} /\ f \in Watched(l)
    BY <1>1, <1>2 DEF Watched, LoopType
  <2>2. IsFiniteSet(Watched(l)) /\ l.nfds = Cardinality(Watched(l))
    BY <1>1, Basics DEF Watched, Good
  <2> QED BY <1>2, <2>1, <2>2, FS_RemoveElement
<1>7. QueuesAre(t)
  <2>1. QueuesAre(l) /\ l.pending_queue \in Seq(Conns) /\ l.pq \in Seq(Conns) /\ l.closing \subseteq Conns
    BY <1>1 DEF Good, LoopType
  <2>2. \A x \in Handles : x # c => t.st[x] = l.st[x]
    BY <1>1, <1>2 DEF LoopType
  <2>3. \A i \in DOMAIN t.pending_queue : t.st[t.pending_queue[i]] = "open"
    <3> TAKE i \in DOMAIN t.pending_queue
    <3>1. t.pending_queue[i] # c /\ \E j \in DOMAIN l.pending_queue : t.pending_queue[i] = l.pending_queue[j]
      BY <1>2, <2>1, WithoutIs
    <3>2. t.pending_queue[i] \in Handles
      BY <2>1, <3>1 DEF Handles
    <3> QED BY <2>1, <2>2, <3>1, <3>2 DEF QueuesAre
  <2>4. \A i \in DOMAIN t.pq : t.st[t.pq[i]] = "open"
    <3> TAKE i \in DOMAIN t.pq
    <3>1. t.pq[i] # c /\ \E j \in DOMAIN l.pq : t.pq[i] = l.pq[j]
      BY <1>2, <2>1, WithoutIs
    <3>2. t.pq[i] \in Handles
      BY <2>1, <3>1 DEF Handles
    <3> QED BY <2>1, <2>2, <3>1, <3>2 DEF QueuesAre
  <2>5. \A x \in t.closing : t.st[x] = "closing"
    BY <1>1, <1>2, <2>1, <2>2 DEF QueuesAre, Handles, LoopType
  <2>6. \A i \in DOMAIN t.batch : t.interest[t.batch[i].fd] # NULL
    <3> TAKE i \in DOMAIN t.batch
    <3>1. l.batch \in Seq(Happened)
      BY <1>1 DEF LoopType
    <3>2. t.batch[i].fd # f /\ \E j \in DOMAIN l.batch : t.batch[i] = l.batch[j]
      BY <1>2, <3>1, InvalidatedIs
    <3>3. PICK j \in DOMAIN l.batch : t.batch[i] = l.batch[j]
      BY <3>2
    <3>4. l.batch[j].fd \in Fds /\ l.interest[l.batch[j].fd] # NULL
      <4>1. l.batch[j] \in Happened
        BY <3>1
      <4> QED BY <2>1, <4>1 DEF QueuesAre, Happened
    <3> QED BY <1>1, <1>2, <3>2, <3>3, <3>4 DEF LoopType
  <2> QED BY <2>3, <2>4, <2>5, <2>6 DEF QueuesAre
<1> QED BY <1>2, <1>3, <1>4, <1>5, <1>6, <1>7 DEF Good, GoodLoops, t

\* The descriptor that accept4 returns is free: no open handle has it, the table neither.
LEMMA MinIsFree ==
  ASSUME NEW l \in GoodLoops, Free(l) # {}
  PROVE  /\ Min(Free(l)) \in Free(l)
         /\ \A f \in Free(l) : /\ f \in Fds /\ l.watchers[f] = NULL /\ l.interest[f] = NULL
                               /\ \A h \in Handles : l.fd[h] # f
<1>1. Free(l) \subseteq Nat
  BY LoopAssumption DEF Free, Fds
<1>2. PICK m \in Free(l) : \A k \in Free(l) : m <= k
  BY <1>1, LeastNat
<1>3. Min(Free(l)) \in Free(l)
  BY <1>2 DEF Min
<1>4. ASSUME NEW f \in Free(l)
      PROVE  f \in Fds /\ l.watchers[f] = NULL /\ l.interest[f] = NULL /\ \A h \in Handles : l.fd[h] # f
  <2>1. f \in Fds /\ \A h \in Handles : l.fd[h] # f
    BY DEF Free
  <2>2. l \in LoopType /\ TableIs(l, f)
    BY <2>1 DEF GoodLoops, Good
  <2>3. l.watchers[f] \in Handles \cup {NULL}
    BY <2>1, <2>2 DEF LoopType
  <2> QED BY <2>1, <2>2, <2>3 DEF TableIs
<1> QED BY <1>3, <1>4

\* The loop after uv_accept and uv_read_start.
LEMMA AcceptFields ==
  ASSUME NEW c \in Conns, NEW l \in GoodLoops, l.st[c] = "none", Free(l) # {},
         NEW t, t = Accepted(l, c), NEW f, f = Min(Free(l))
  PROVE  /\ t \in LoopType
         /\ t.st = [l.st EXCEPT ![c] = "open"] /\ t.fd = [l.fd EXCEPT ![c] = f]
         /\ t.pevents = [l.pevents EXCEPT ![c] = {POLLIN}] /\ t.events = l.events
         /\ t.watchers = [l.watchers EXCEPT ![f] = c] /\ t.nfds = l.nfds + 1
         /\ t.watcher_queue = l.watcher_queue \cup {c} /\ t.closing = l.closing
         /\ t.pending_queue = l.pending_queue /\ t.pq = l.pq /\ t.interest = l.interest /\ t.batch = l.batch
<1>1. c \in Handles /\ l \in LoopType /\ ClosedIs(l, c)
  BY DEF Handles, GoodLoops, Good
<1>2. f \in Fds /\ l.watchers[f] = NULL
  BY MinIsFree
<1> DEFINE a1 == [l.st EXCEPT ![c] = "open"]
           a2 == [l.fd EXCEPT ![c] = f]
           a3 == [l.ready EXCEPT ![f] = {POLLOUT}]
           a4 == [l.pevents EXCEPT ![c] = {POLLIN}]
           a5 == [l.watchers EXCEPT ![f] = c]
           a6 == l.watcher_queue \cup {c}
           p == [l EXCEPT !.st = a1, !.fd = a2, !.ready = a3]
<1>3. /\ a1 \in [Handles -> {"none", "open", "closing"}] /\ a2 \in [Handles -> Fds \cup {-1}]
      /\ a3 \in [Fds -> Events] /\ a4 \in [Handles -> Events] /\ a5 \in [Fds -> Handles \cup {NULL}]
      /\ a6 \in SUBSET Handles
  BY <1>1, <1>2, Basics DEF LoopType
<1>4. t = uv__io_start(p, c, {POLLIN})
  BY DEF Accepted
<1>5. /\ a2[c] = f /\ l.events[c] = {} /\ l.pevents[c] \cup {POLLIN} = {POLLIN}
      /\ a4 = [l.pevents EXCEPT ![c] = l.pevents[c] \cup {POLLIN}]
  BY <1>1, <1>2 DEF ClosedIs, LoopType
<1> HIDE DEF a1, a2, a3
<1>6. /\ p \in LoopType /\ p.st = a1 /\ p.fd = a2 /\ p.ready = a3 /\ p.pevents = l.pevents /\ p.events = l.events
      /\ p.watchers = l.watchers /\ p.nfds = l.nfds /\ p.watcher_queue = l.watcher_queue /\ p.closing = l.closing
      /\ p.pending_queue = l.pending_queue /\ p.pq = l.pq /\ p.interest = l.interest /\ p.batch = l.batch
  BY <1>1, <1>3 DEF LoopType
<1> HIDE DEF p
<1> DEFINE r == [p EXCEPT !.pevents = a4]
<1>7. r.pevents[c] = {POLLIN} /\ r.events[c] = {} /\ {} # {POLLIN} /\ r.watchers[f] = NULL
      /\ r.nfds = p.nfds /\ r.watchers = p.watchers /\ r.watcher_queue = p.watcher_queue
  BY <1>1, <1>2, <1>5, <1>6 DEF LoopType
<1>8. t = [r EXCEPT !.watcher_queue = @ \cup {c}, !.watchers[f] = c, !.nfds = @ + 1]
  <2>1. r = [p EXCEPT !.pevents[c] = @ \cup {POLLIN}]
    BY <1>5, <1>6
  <2>2. p.fd[c] = f /\ p.watchers[f] = NULL
    BY <1>2, <1>5, <1>6
  <2> HIDE DEF r
  <2> QED BY <1>4, <1>7, <2>1, <2>2 DEF uv__io_start
<1>9. t = [p EXCEPT !.pevents = a4, !.watcher_queue = a6, !.watchers = a5, !.nfds = p.nfds + 1]
  BY <1>6, <1>8 DEF LoopType
<1> HIDE DEF r, a4, a5, a6
<1>10. p.nfds + 1 \in Int
  BY <1>6 DEF LoopType
<1>11. t \in LoopType
  <2> DEFINE a7 == p.nfds + 1
  <2>1. t = [p EXCEPT !.pevents = a4, !.watcher_queue = a6, !.watchers = a5, !.nfds = a7] /\ a7 \in Int
    BY <1>9, <1>10
  <2> HIDE DEF a7
  <2> DEFINE q == [p EXCEPT !.pevents = a4, !.watcher_queue = a6]
  <2>2. p \in LoopType
    BY <1>6
  <2>3. q \in LoopType
    BY <1>3, <2>2 DEF LoopType
  <2>4. t = [q EXCEPT !.watchers = a5, !.nfds = a7]
    BY <2>1
  <2> HIDE DEF q
  <2> QED BY <1>3, <2>1, <2>3, <2>4 DEF LoopType
<1>12. /\ t.st = p.st /\ t.fd = p.fd /\ t.pevents = a4 /\ t.events = p.events /\ t.watchers = a5 /\ t.nfds = p.nfds + 1
       /\ t.watcher_queue = a6 /\ t.closing = p.closing /\ t.pending_queue = p.pending_queue /\ t.pq = p.pq
       /\ t.interest = p.interest /\ t.batch = p.batch
  BY <1>6, <1>9 DEF LoopType
<1> QED BY <1>6, <1>11, <1>12 DEF a1, a2, a4, a5, a6

\* A new connection enters the table under a descriptor that nothing knows.
LEMMA Accept ==
  ASSUME NEW c \in Conns, NEW l \in GoodLoops, l.st[c] = "none", Free(l) # {}
  PROVE  Accepted(l, c) \in GoodLoops /\ \A h \in Handles : l.st[h] = "open" => Accepted(l, c).st[h] = "open"
<1> DEFINE t == Accepted(l, c)
           f == Min(Free(l))
<1>1. c \in Handles /\ l \in LoopType /\ Good(l) /\ ClosedIs(l, c) /\ c # NULL
  BY Basics DEF Handles, GoodLoops, Good
<1>2. f \in Fds /\ l.watchers[f] = NULL /\ l.interest[f] = NULL /\ \A h \in Handles : l.fd[h] # f
  BY MinIsFree
<1> HIDE DEF t, f
<1>3. /\ t \in LoopType
      /\ t.st = [l.st EXCEPT ![c] = "open"] /\ t.fd = [l.fd EXCEPT ![c] = f]
      /\ t.pevents = [l.pevents EXCEPT ![c] = {POLLIN}] /\ t.events = l.events
      /\ t.watchers = [l.watchers EXCEPT ![f] = c] /\ t.nfds = l.nfds + 1
      /\ t.watcher_queue = l.watcher_queue \cup {c} /\ t.closing = l.closing
      /\ t.pending_queue = l.pending_queue /\ t.pq = l.pq /\ t.interest = l.interest /\ t.batch = l.batch
  BY AcceptFields DEF t, f
<1>4. \A h \in Handles : l.st[h] = "open" => h # c /\ t.st[h] = "open"
  BY <1>1, <1>3 DEF LoopType
<1>5. ASSUME NEW h \in Handles PROVE IF t.st[h] = "open" THEN OpenIs(t, h) ELSE ClosedIs(t, h)
  <2>1. IF l.st[h] = "open" THEN OpenIs(l, h) ELSE ClosedIs(l, h)
    BY <1>1 DEF Good
  <2>2. CASE h = c
    <3>1. /\ t.st[h] = "open" /\ t.fd[h] = f /\ t.watchers[f] = h /\ t.pevents[h] = {POLLIN} /\ t.events[h] = {}
          /\ h \in t.watcher_queue /\ t.interest[f] = NULL
      BY <1>1, <1>2, <1>3, <2>2 DEF LoopType, ClosedIs
    <3> QED BY <1>2, <3>1 DEF OpenIs
  <2>3. CASE h # c
    <3>1. /\ t.st[h] = l.st[h] /\ t.fd[h] = l.fd[h] /\ t.pevents[h] = l.pevents[h] /\ t.events[h] = l.events[h]
          /\ (h \in t.watcher_queue <=> h \in l.watcher_queue)
      BY <1>1, <1>3, <2>3 DEF LoopType
    <3>2. CASE l.st[h] = "open"
      <4>1. OpenIs(l, h) /\ l.fd[h] # f
        BY <1>2, <2>1, <3>2
      <4>2. t.watchers[l.fd[h]] = l.watchers[l.fd[h]] /\ t.interest[l.fd[h]] = l.interest[l.fd[h]]
        BY <1>1, <1>3, <4>1 DEF LoopType, OpenIs
      <4> QED BY <3>1, <3>2, <4>1, <4>2 DEF OpenIs
    <3>3. CASE l.st[h] # "open"
      BY <2>1, <3>1, <3>3 DEF ClosedIs
    <3> QED BY <3>2, <3>3
  <2> QED BY <2>2, <2>3
<1>6. ServerIs(t)
  BY <1>1, <1>3, Basics DEF Good, ServerIs, LoopType, Handles
<1>7. ASSUME NEW g \in Fds PROVE TableIs(t, g)
  <2>1. CASE g = f
    <3>1. t.watchers[g] = c /\ t.st[c] = "open" /\ t.fd[c] = g
      BY <1>1, <1>2, <1>3, <2>1 DEF LoopType
    <3> QED BY <1>1, <3>1 DEF TableIs
  <2>2. CASE g # f
    <3>1. t.watchers[g] = l.watchers[g] /\ t.interest[g] = l.interest[g] /\ TableIs(l, g)
      BY <1>1, <1>3, <2>2 DEF Good, LoopType
    <3>2. l.watchers[g] # NULL => l.watchers[g] \in Handles /\ l.watchers[g] # c
      BY <1>1, <1>4, <3>1 DEF TableIs, LoopType
    <3> QED BY <1>1, <1>3, <3>1, <3>2 DEF TableIs, LoopType
  <2> QED BY <2>1, <2>2
<1>8. t.nfds = Cardinality(Watched(t))
  <2>1. Watched(t) = Watched(l) \cup {f} /\ f \notin Watched(l)
    BY <1>1, <1>2, <1>3 DEF Watched, LoopType
  <2>2. IsFiniteSet(Watched(l)) /\ l.nfds = Cardinality(Watched(l))
    BY <1>1, Basics DEF Watched, Good
  <2>3. t.nfds = l.nfds + 1
    BY <1>3
  <2>4. Cardinality(Watched(l) \cup {f}) = Cardinality(Watched(l)) + 1
    BY ONLY <2>1, <2>2, FS_AddElement
  <2> QED BY ONLY <2>1, <2>2, <2>3, <2>4
<1>9. QueuesAre(t)
  <2>1. QueuesAre(l) /\ l.pending_queue \in Seq(Conns) /\ l.pq \in Seq(Conns) /\ l.closing \subseteq Conns
    BY <1>1 DEF Good, LoopType
  <2>2. \A x \in Conns : x \in Handles
    BY DEF Handles
  <2>3. \A x \in t.closing : t.st[x] = "closing"
    <3>1. \A x \in Handles : l.st[x] = "closing" => t.st[x] = "closing"
      BY <1>1, <1>3 DEF LoopType
    <3> QED BY <1>3, <2>1, <2>2, <3>1 DEF QueuesAre
  <2>4. \A i \in DOMAIN t.pending_queue : t.st[t.pending_queue[i]] = "open"
    BY <1>3, <1>4, <2>1, <2>2 DEF QueuesAre
  <2>5. \A i \in DOMAIN t.pq : t.st[t.pq[i]] = "open"
    BY <1>3, <1>4, <2>1, <2>2 DEF QueuesAre
  <2> QED BY <1>3, <2>1, <2>3, <2>4, <2>5 DEF QueuesAre
<1>10. t \in GoodLoops
  BY <1>3, <1>5, <1>6, <1>7, <1>8, <1>9 DEF Good, GoodLoops
<1> QED BY <1>4, <1>10 DEF t

-----------------------------------------------------------------------------
\* The callbacks.

\* The same for one field of the replies or of the sockets.
LEMMA WritesChange ==
  ASSUME NEW c \in Conns, NEW l \in OpenLoops(c), NEW n \in Int
  PROVE  [l EXCEPT !.writes[c] = n] \in OpenLoops(c)
<1> DEFINE w == [l.writes EXCEPT ![c] = n]
<1>1. c \in Handles
  BY DEF Handles
<1>2. l \in LoopType
  BY <1>1, OpenFacts
<1>3. w \in [Conns -> Int] /\ l.ready \in [Fds -> Events]
  BY <1>2 DEF LoopType
<1>4. [l EXCEPT !.writes[c] = n] = [l EXCEPT !.writes = w, !.ready = l.ready]
  BY <1>2 DEF LoopType
<1> HIDE DEF w
<1> QED BY <1>1, <1>3, <1>4, DataChange

LEMMA ReadyChange ==
  ASSUME NEW h \in Handles, NEW l \in OpenLoops(h), NEW f \in Fds, NEW ev \in Events
  PROVE  [l EXCEPT !.ready[f] = ev] \in OpenLoops(h)
<1> DEFINE r == [l.ready EXCEPT ![f] = ev]
<1>1. l \in LoopType
  BY OpenFacts
<1>2. r \in [Fds -> Events] /\ l.writes \in [Conns -> Int]
  BY <1>1 DEF LoopType
<1>3. [l EXCEPT !.ready[f] = ev] = [l EXCEPT !.writes = l.writes, !.ready = r]
  BY <1>1 DEF LoopType
<1> HIDE DEF r
<1> QED BY <1>2, <1>3, DataChange

\* uv__write, on every path.
LEMMA Write ==
  ASSUME NEW c \in Conns, NEW l \in OpenLoops(c)
  PROVE  uv__write(l, c) \subseteq OpenLoops(c)
<1> DEFINE d == [l EXCEPT !.writes[c] = l.writes[c] - 1]
           done == uv__io_feed(d, c)
           e == l.ready[l.fd[c]] \ {POLLOUT}
           r == [l EXCEPT !.ready[l.fd[c]] = e]
<1>1. c \in Handles
  BY DEF Handles
<1>2. l \in LoopType /\ l.fd[c] \in Fds
  BY <1>1, OpenFacts
<1>3. l.writes[c] - 1 \in Int /\ e \in Events /\ {POLLOUT} \in Events
  BY <1>2 DEF LoopType, Events
<1>4. uv__write(l, c) \subseteq {l, done, uv__io_start(r, c, {POLLOUT}), uv__io_stop(done, c, {POLLOUT})}
  BY DEF uv__write
<1> HIDE DEF e
<1>5. d \in OpenLoops(c) /\ r \in OpenLoops(c)
  BY <1>1, <1>2, <1>3, WritesChange, ReadyChange
<1> HIDE DEF d, r
<1>6. done \in OpenLoops(c) /\ uv__io_start(r, c, {POLLOUT}) \in OpenLoops(c)
  BY <1>1, <1>3, <1>5, IoFeed, IoStart
<1> HIDE DEF done
<1>7. uv__io_stop(done, c, {POLLOUT}) \in OpenLoops(c)
  BY <1>1, <1>6, IoStop
<1> QED BY <1>4, <1>6, <1>7

\* uv_write2, with or without writing at once.
LEMMA Write2 ==
  ASSUME NEW c \in Conns, NEW l \in OpenLoops(c)
  PROVE  uv_write2(l, c) \subseteq OpenLoops(c)
<1> DEFINE t == [l EXCEPT !.writes[c] = l.writes[c] + 1]
<1>1. c \in Handles /\ {POLLOUT} \in Events
  BY Basics DEF Handles
<1>2. l.writes[c] + 1 \in Int
  BY <1>1, OpenFacts DEF LoopType
<1>3. uv_write2(l, c) \subseteq {uv__io_start(t, c, {POLLOUT})} \cup uv__write(t, c)
  BY DEF uv_write2
<1>4. t \in OpenLoops(c)
  BY <1>2, WritesChange
<1> HIDE DEF t
<1> QED BY <1>1, <1>3, <1>4, IoStart, Write

\* uv__read: the connection goes on or has closed itself.
LEMMA Read ==
  ASSUME NEW c \in Conns, NEW l \in OpenLoops(c)
  PROVE  uv__read(l, c) \subseteq GoodLoops
<1> DEFINE e == l.ready[l.fd[c]] \ {POLLIN}
           r == [l EXCEPT !.ready[l.fd[c]] = e]
<1>1. c \in Handles
  BY DEF Handles
<1>2. l \in LoopType /\ l.fd[c] \in Fds
  BY <1>1, OpenFacts
<1>3. e \in Events
  BY <1>2 DEF LoopType, Events
<1>4. uv__read(l, c) \subseteq {uv_close(l, c)} \cup uv_write2(r, c)
  BY DEF uv__read
<1> HIDE DEF e
<1>5. r \in OpenLoops(c)
  BY <1>1, <1>2, <1>3, ReadyChange
<1> HIDE DEF r
<1> QED BY <1>4, <1>5, Close, Write2 DEF OpenLoops

\* uv__drain stops the writing when nothing is queued.
LEMMA Drain ==
  ASSUME NEW c \in Conns, NEW l \in OpenLoops(c)
  PROVE  uv__drain(l, c) \in OpenLoops(c)
<1>1. c \in Handles
  BY DEF Handles
<1> QED BY <1>1, IoStop DEF uv__drain

\* uv__stream_io reads, and writes unless the read has closed the connection.
LEMMA StreamIo ==
  ASSUME NEW c \in Conns, NEW l \in OpenLoops(c), NEW ev
  PROVE  uv__stream_io(l, c, ev) \subseteq GoodLoops
<1> DEFINE R == IF POLLIN \in ev THEN uv__read(l, c) ELSE {l}
<1>1. R \subseteq GoodLoops
  BY Read DEF OpenLoops
<1> HIDE DEF R
<1> DEFINE open == {t \in R : t.st[c] = "open"}
           W(t) == IF POLLOUT \in ev THEN {uv__drain(u, c) : u \in uv__write(t, c)} ELSE {t}
<1>2. ASSUME NEW t \in open PROVE W(t) \subseteq GoodLoops
  <2>1. t \in OpenLoops(c)
    BY <1>1 DEF OpenLoops
  <2>2. uv__write(t, c) \subseteq OpenLoops(c)
    BY <2>1, Write
  <2>3. \A u \in uv__write(t, c) : uv__drain(u, c) \in OpenLoops(c)
    BY <2>2, Drain
  <2> QED BY <2>1, <2>3 DEF OpenLoops
<1>3. uv__stream_io(l, c, ev) = (R \ open) \cup UNION {W(t) : t \in open}
  BY DEF uv__stream_io, R
<1> HIDE DEF W
<1> QED BY <1>1, <1>2, <1>3

\* The rounds of uv__server_io's loop keep the loop in order, and end.
LEMMA ServerIo ==
  ASSUME NEW l \in OpenLoops(SERVER)
  PROVE  uv__server_io(l) \subseteq GoodLoops
<1> DEFINE r == [l EXCEPT !.ready[0] = {}]
           t == uv__io_start(r, SERVER, {POLLIN})
           Next(u) == {Accepted(u, c) : c \in {d \in Conns : u.st[d] = "none" /\ Free(u) # {}}}
           Round(X) == X \cup UNION {Next(u) : u \in X}
           Body(F, n) == IF n = 0 THEN {t} ELSE Round(F[n - 1])
           after == CHOOSE F : F = [n \in 0..MaxFd |-> Body(F, n)]
           D == SUBSET GoodLoops
           g == [x \in Nat \X D |-> Round(x[2])]
<1>1. SERVER \in Handles /\ MaxFd \in Nat /\ 0 \in Fds /\ {} \in Events /\ {POLLIN} \in Events
  BY LoopAssumption, Basics DEF Handles
<1>2. {t} \in D
  <2>1. r \in OpenLoops(SERVER)
    BY <1>1, ReadyChange
  <2> HIDE DEF r
  <2>2. t \in OpenLoops(SERVER)
    BY <1>1, <2>1, IoStart
  <2> HIDE DEF t
  <2> QED BY <2>2 DEF OpenLoops
<1>3. uv__server_io(l) = after[MaxFd]
  BY DEF uv__server_io
<1> HIDE DEF t
<1>4. ASSUME NEW X \in D PROVE Round(X) \in D
  <2>1. \A u \in X : Next(u) \subseteq GoodLoops
    BY Accept
  <2> HIDE DEF Next
  <2> QED BY <2>1
<1> HIDE DEF Next
<1>5. \E F : F = [n \in 0..MaxFd |-> Body(F, n)]
  <2>1. g \in [Nat \X D -> D]
    <3> HIDE DEF Round, D
    <3> QED BY <1>4
  <2>2. PICK F \in [0..MaxFd -> D] : F[0] = {t} /\ \A i \in 1..MaxFd : F[i] = g[<<i, F[i - 1]>>]
    <3> HIDE DEF g, D
    <3>1. Runs(MaxFd, D, {t}, g)
      BY <1>1, <1>2, <2>1, Recursion
    <3> QED BY <3>1 DEF Runs
  <2>3. ASSUME NEW n \in 0..MaxFd PROVE F[n] = Body(F, n)
    <3> HIDE DEF Round
    <3>1. CASE n = 0
      BY <3>1, <2>2
    <3>2. CASE n # 0
      <4>1. n \in 1..MaxFd /\ n - 1 \in 0..MaxFd /\ n \in Nat
        BY <1>1, <3>2
      <4>2. F[n - 1] \in D
        BY <4>1
      <4>3. F[n] = g[<<n, F[n - 1]>>]
        BY <2>2, <4>1
      <4> HIDE DEF D
      <4> QED BY <3>2, <4>1, <4>2, <4>3
    <3> QED BY <3>1, <3>2
  <2>4. F = [n \in 0..MaxFd |-> F[n]]
    OBVIOUS
  <2> HIDE DEF Body
  <2> QED BY <2>3, <2>4
<1>6. after = [n \in 0..MaxFd |-> Body(after, n)]
  <2> HIDE DEF Body
  <2> QED BY <1>5
<1> HIDE DEF after
<1>7. \A n \in 0..MaxFd : after[n] = Body(after, n)
  <2> HIDE DEF Body
  <2> QED BY <1>6
<1>8. after[0] \in D /\ \A i \in 1..MaxFd : after[i - 1] \in D => after[i] \in D
  <2> HIDE DEF Round, D
  <2>1. 0 \in 0..MaxFd /\ \A i \in 1..MaxFd : i \in 0..MaxFd /\ i # 0
    BY <1>1
  <2> QED BY <1>2, <1>4, <1>7, <2>1
<1>9. after[MaxFd] \in D
  <2> HIDE DEF D
  <2> QED BY <1>1, <1>8, Rounds
<1> QED BY <1>3, <1>9

\* Whichever watcher's cb is called: the handle is open.
LEMMA CallbackIs ==
  ASSUME NEW h \in Handles, NEW l \in OpenLoops(h), NEW ev
  PROVE  Callback(l, h, ev) \subseteq GoodLoops
<1>1. CASE h = SERVER
  BY <1>1, ServerIo DEF Callback
<1>2. CASE h # SERVER
  <2>1. h \in Conns
    BY <1>2 DEF Handles
  <2> QED BY <1>2, <2>1, StreamIo DEF Callback
<1> QED BY <1>1, <1>2

-----------------------------------------------------------------------------
\* The steps of a turn.

\* All that Good speaks of is the same.
SameTables(t, l) ==
  /\ t.st = l.st /\ t.fd = l.fd /\ t.pevents = l.pevents /\ t.events = l.events /\ t.watchers = l.watchers
  /\ t.nfds = l.nfds /\ t.watcher_queue = l.watcher_queue /\ t.closing = l.closing /\ t.interest = l.interest

LEMMA TablesFrame ==
  ASSUME NEW l \in GoodLoops, NEW t \in LoopType, SameTables(t, l), QueuesAre(t)
  PROVE  t \in GoodLoops
<1>1. Good(l)
  BY DEF GoodLoops
<1>2. \A h \in Handles : IF t.st[h] = "open" THEN OpenIs(t, h) ELSE ClosedIs(t, h)
  BY <1>1 DEF Good, SameTables, OpenIs, ClosedIs
<1>3. ServerIs(t) /\ \A f \in Fds : TableIs(t, f)
  BY <1>1 DEF Good, ServerIs, TableIs, SameTables
<1>4. t.nfds = Cardinality(Watched(t))
  BY <1>1 DEF Good, Watched, SameTables
<1> QED BY <1>2, <1>3, <1>4 DEF Good, GoodLoops

\* An element of two sequences, one after the other, is one of the first or of the second.
LEMMA ConcatIs ==
  ASSUME NEW A, NEW q \in Seq(A), NEW r \in Seq(A), NEW i \in DOMAIN (q \o r)
  PROVE  \/ i \in DOMAIN q /\ (q \o r)[i] = q[i]
         \/ i - Len(q) \in DOMAIN r /\ (q \o r)[i] = r[i - Len(q)]
<1>1. /\ q \o r \in Seq(A) /\ Len(q) \in Nat /\ Len(r) \in Nat /\ Len(q \o r) = Len(q) + Len(r)
      /\ DOMAIN q = 1..Len(q) /\ DOMAIN r = 1..Len(r)
  BY ConcatProperties
<1>2. i \in 1..(Len(q) + Len(r))
  BY <1>1
<1>3. CASE i <= Len(q)
  <2>1. i \in 1..Len(q)
    BY <1>1, <1>2, <1>3
  <2> QED BY <1>1, <1>2, <1>3, <2>1, ConcatProperties
<1>4. CASE i > Len(q)
  <2>1. i - Len(q) \in 1..Len(r)
    BY <1>1, <1>2, <1>4
  <2> QED BY <1>1, <1>2, <1>4, <2>1, ConcatProperties
<1> QED BY <1>1, <1>2, <1>3, <1>4

\* What is in one of two sequences is in both together.
LEMMA RangeOfConcat ==
  ASSUME NEW A, NEW q \in Seq(A), NEW r \in Seq(A)
  PROVE  \A x : x \in Range(q) \/ x \in Range(r) => x \in Range(q \o r)
<1>1. /\ q \o r \in Seq(A) /\ Len(q) \in Nat /\ Len(r) \in Nat /\ Len(q \o r) = Len(q) + Len(r)
      /\ DOMAIN q = 1..Len(q) /\ DOMAIN r = 1..Len(r) /\ DOMAIN (q \o r) = 1..(Len(q) + Len(r))
  BY ConcatProperties, LenProperties
<1>2. ASSUME NEW i \in DOMAIN q PROVE q[i] \in Range(q \o r)
  <2>1. i \in 1..(Len(q) + Len(r)) /\ (q \o r)[i] = q[i]
    BY <1>1, ConcatProperties
  <2> QED BY <1>1, <2>1 DEF Range
<1>3. ASSUME NEW i \in DOMAIN r PROVE r[i] \in Range(q \o r)
  <2>1. Len(q) + i \in 1..(Len(q) + Len(r)) /\ Len(q) + i > Len(q) /\ Len(q) + i - Len(q) = i
    BY <1>1
  <2>2. (q \o r)[Len(q) + i] = r[i]
    BY <1>1, <2>1, ConcatProperties
  <2> QED BY <1>1, <2>1, <2>2 DEF Range
<1> QED BY <1>2, <1>3 DEF Range

\* Only descriptors that epoll knows wait to be returned by epoll_wait.
OrderIs(l) == \A i \in DOMAIN l.order : l.interest[l.order[i]] # NULL

\* Every descriptor that is ready for what epoll knows waits there.
ReadyIs(l) == \A f \in Fds : IsReady(l, f) => f \in Range(l.order)

LEMMA SettledIs ==
  ASSUME NEW l \in GoodLoops
  PROVE  Settled(l) \in GoodLoops /\ OrderIs(Settled(l)) /\ ReadyIs(Settled(l))
<1> DEFINE R == {f \in Fds : IsReady(l, f)}
           S == R \ Range(l.order)
           o == Only(l.order, R) \o SetToSeq(S)
           t == [l EXCEPT !.order = o]
<1>1. l \in LoopType /\ QueuesAre(l)
  BY DEF GoodLoops, Good
<1>2. t = Settled(l)
  BY DEF Settled
<1>3. R \subseteq Fds /\ (\A f \in R : l.interest[f] # NULL) /\ \A f \in Fds : IsReady(l, f) => f \in R
  BY DEF IsReady
<1> HIDE DEF R
<1>4. o \in Seq(R) /\ \A f \in R : f \in Range(o)
  <2>1. Only(l.order, R) \in Seq(Fds \cap Range(l.order) \cap R)
    BY <1>1, OnlyIs DEF LoopType
  <2>2. Only(l.order, R) \in Seq(R)
    BY <2>1
  <2>3. IsFiniteSet(S)
    BY <1>3, Basics
  <2>4. SetToSeq(S) \in Seq(S) /\ Range(SetToSeq(S)) = S
    <3> HIDE DEF S
    <3> QED BY <2>3, SetToSeqIs
  <2>5. SetToSeq(S) \in Seq(R)
    BY <2>4
  <2>6. \A f \in R : f \in Range(Only(l.order, R)) \/ f \in Range(SetToSeq(S))
    <3>1. \A f \in Range(l.order) \cap R : f \in Range(Only(l.order, R))
      <4>1. l.order \in Seq(Fds)
        BY <1>1 DEF LoopType
      <4> QED BY <4>1, OnlyIs
    <3> QED BY <2>4, <3>1
  <2>7. \A f \in R : f \in Range(o)
    <3> DEFINE a == Only(l.order, R)
               b == SetToSeq(S)
    <3>1. a \in Seq(R) /\ b \in Seq(R) /\ \A f \in R : f \in Range(a) \/ f \in Range(b)
      BY <2>2, <2>5, <2>6
    <3>2. o = a \o b
      OBVIOUS
    <3> HIDE DEF a, b, o
    <3> QED BY <3>1, <3>2, RangeOfConcat
  <2>8. o \in Seq(R)
    BY <2>2, <2>5
  <2> HIDE DEF o
  <2> QED BY <2>7, <2>8
<1> HIDE DEF o
<1>5. o \in Seq(Fds) /\ \A i \in DOMAIN o : o[i] \in R
  BY <1>3, <1>4
<1>6. t \in LoopType /\ SameTables(t, l) /\ t.order = o
      /\ t.pending_queue = l.pending_queue /\ t.pq = l.pq /\ t.batch = l.batch
  BY <1>1, <1>5 DEF LoopType, SameTables
<1> HIDE DEF t
<1>7. QueuesAre(t)
  BY <1>1, <1>6 DEF QueuesAre, SameTables
<1>8. OrderIs(t)
  BY <1>3, <1>5, <1>6 DEF OrderIs, SameTables
<1>9. ReadyIs(t)
  <2>1. t.ready = l.ready
    BY <1>1 DEF LoopType, t
  <2> QED BY <1>3, <1>4, <1>6, <2>1 DEF ReadyIs, SameTables, IsReady
<1> QED BY <1>2, <1>6, <1>7, <1>8, <1>9, TablesFrame

\* epoll learns what every queued watcher wants.
LEMMA RegisteredIs ==
  ASSUME NEW l \in GoodLoops
  PROVE  Registered(l) \in GoodLoops
<1> DEFINE in == [f \in Fds |-> IF l.watchers[f] \in l.watcher_queue THEN l.pevents[l.watchers[f]] ELSE l.interest[f]]
           ev == [h \in Handles |-> IF h \in l.watcher_queue THEN l.pevents[h] ELSE l.events[h]]
           t == [l EXCEPT !.interest = in, !.events = ev, !.watcher_queue = {}]
<1>1. l \in LoopType /\ Good(l) /\ QueuesAre(l)
  BY DEF GoodLoops, Good
<1>2. t = Registered(l)
  BY DEF Registered
<1>3. in \in [Fds -> Events \cup {NULL}] /\ ev \in [Handles -> Events]
  <2>1. \A f \in Fds : l.watchers[f] \in l.watcher_queue => l.watchers[f] \in Handles
    BY <1>1 DEF LoopType
  <2> QED BY <1>1, <2>1 DEF LoopType
<1>4. /\ \A f \in Fds : in[f] = IF l.watchers[f] \in l.watcher_queue THEN l.pevents[l.watchers[f]] ELSE l.interest[f]
      /\ \A h \in Handles : ev[h] = IF h \in l.watcher_queue THEN l.pevents[h] ELSE l.events[h]
  OBVIOUS
<1> HIDE DEF in, ev
<1>5. t \in LoopType
  BY <1>1, <1>3 DEF LoopType
<1>6. /\ t.st = l.st /\ t.fd = l.fd /\ t.pevents = l.pevents /\ t.events = ev /\ t.watchers = l.watchers
      /\ t.nfds = l.nfds /\ t.watcher_queue = {} /\ t.closing = l.closing /\ t.interest = in
      /\ t.pending_queue = l.pending_queue /\ t.pq = l.pq /\ t.batch = l.batch
  BY <1>1 DEF LoopType
<1> HIDE DEF t
<1>7. ASSUME NEW h \in Handles PROVE IF t.st[h] = "open" THEN OpenIs(t, h) ELSE ClosedIs(t, h)
  <2>1. IF l.st[h] = "open" THEN OpenIs(l, h) ELSE ClosedIs(l, h)
    BY <1>1 DEF Good
  <2>2. CASE l.st[h] = "open"
    <3>1. l.watchers[l.fd[h]] = h /\ l.fd[h] \in Fds /\ POLLIN \in l.pevents[h]
      BY <2>1, <2>2 DEF OpenIs
    <3>2. t.interest[l.fd[h]] = IF h \in l.watcher_queue THEN l.pevents[h] ELSE l.interest[l.fd[h]]
      BY <1>4, <1>6, <3>1
    <3>3. t.events[h] = IF h \in l.watcher_queue THEN l.pevents[h] ELSE l.events[h]
      BY <1>4, <1>6
    <3>4. CASE h \in l.watcher_queue
      BY <1>6, <2>2, <3>1, <3>2, <3>3, <3>4 DEF OpenIs
    <3>5. CASE h \notin l.watcher_queue
      BY <1>6, <2>1, <2>2, <3>1, <3>2, <3>3, <3>5 DEF OpenIs
    <3> QED BY <3>4, <3>5
  <2>3. CASE l.st[h] # "open"
    BY <1>4, <1>6, <2>1, <2>3 DEF ClosedIs
  <2> QED BY <2>2, <2>3
<1>8. ServerIs(t)
  BY <1>1, <1>6 DEF Good, ServerIs
<1>9. ASSUME NEW f \in Fds PROVE TableIs(t, f)
  <2>1. TableIs(l, f)
    BY <1>1 DEF Good
  <2>2. l.watchers[f] = NULL => l.watchers[f] \notin l.watcher_queue
    BY <1>1, Basics DEF LoopType
  <2> QED BY <1>4, <1>6, <2>1, <2>2 DEF TableIs
<1>10. t.nfds = Cardinality(Watched(t))
  BY <1>1, <1>6 DEF Good, Watched
<1>11. QueuesAre(t)
  <2>1. ASSUME NEW f \in Fds, l.interest[f] # NULL PROVE t.interest[f] # NULL
    <3>1. l.watchers[f] \in l.watcher_queue => l.watchers[f] \in Handles /\ l.pevents[l.watchers[f]] \in Events
      BY <1>1 DEF LoopType
    <3> QED BY <1>4, <1>6, <2>1, <3>1, Basics
  <2>2. \A i \in DOMAIN l.batch : l.batch[i].fd \in Fds
    <3>1. \A i \in DOMAIN l.batch : l.batch[i] \in Happened
      BY <1>1 DEF LoopType
    <3> QED BY <3>1 DEF Happened
  <2> QED BY <1>1, <1>6, <2>1, <2>2 DEF QueuesAre
<1>12. Good(t)
  BY <1>5, <1>7, <1>8, <1>9, <1>10, <1>11 DEF Good
<1> QED BY <1>2, <1>5, <1>12 DEF GoodLoops

\* The inductive invariant.
LoopInv == loop \in GoodLoops /\ OrderIs(loop) /\ ReadyIs(loop)

LEMMA AtFirst == ElInit => LoopInv
<1> SUFFICES ASSUME ElInit PROVE LoopInv
  OBVIOUS
<1>1. loop = LoopInit
  BY DEF ElInit
<1> DEFINE l == LoopInit
<1>2. SERVER \in Handles /\ Conns \subseteq Handles /\ 0 \in Fds /\ SERVER \notin Conns /\ SERVER # NULL
  BY LoopAssumption, Basics DEF Handles
<1>3. l \in LoopType
  BY <1>2, Basics DEF LoopInit, LoopType
<1>4. ASSUME NEW h \in Handles PROVE IF l.st[h] = "open" THEN OpenIs(l, h) ELSE ClosedIs(l, h)
  BY <1>2, Basics DEF LoopInit, OpenIs, ClosedIs
<1>5. ServerIs(l) /\ \A f \in Fds : TableIs(l, f)
  BY <1>2 DEF LoopInit, ServerIs, TableIs
<1>6. l.nfds = Cardinality(Watched(l))
  <2>1. Watched(l) = {0} /\ l.nfds = 1
    BY <1>2 DEF LoopInit, Watched
  <2> QED BY <2>1, FS_Singleton
<1>7. QueuesAre(l) /\ OrderIs(l) /\ ReadyIs(l)
  BY DEF LoopInit, QueuesAre, OrderIs, ReadyIs, IsReady
<1> HIDE DEF l
<1>8. Good(l)
  BY <1>3, <1>4, <1>5, <1>6, <1>7 DEF Good
<1> QED BY <1>1, <1>3, <1>7, <1>8 DEF LoopInv, GoodLoops, l

\* What a client does is seen by the sockets only.
LEMMA ClientSettles == LoopInv /\ Client => \E t \in GoodLoops : loop' = Settled(t)
<1> SUFFICES ASSUME LoopInv, Client PROVE \E t \in GoodLoops : loop' = Settled(t)
  OBVIOUS
<1>1. PICK f \in Fds, e \in {POLLIN, POLLOUT} :
        loop' = Settled([loop EXCEPT !.ready[f] = loop.ready[f] \cup {e}])
  BY DEF Client
<1> DEFINE ev == loop.ready[f] \cup {e}
<1>2. SERVER \in Handles /\ loop \in OpenLoops(SERVER)
  BY DEF LoopInv, OpenLoops, GoodLoops, Good, ServerIs, Handles
<1>3. ev \in Events
  BY <1>2, OpenFacts DEF LoopType, Events
<1> HIDE DEF ev
<1>4. [loop EXCEPT !.ready[f] = ev] \in GoodLoops
  BY <1>2, <1>3, ReadyChange DEF OpenLoops
<1> QED BY <1>1, <1>4 DEF ev

\* uv__run_pending: only open handles are in its queue.
LEMMA RunPendingSettles == LoopInv /\ RunPending => \E t \in GoodLoops : loop' = Settled(t)
<1> SUFFICES ASSUME LoopInv, RunPending PROVE \E t \in GoodLoops : loop' = Settled(t)
  OBVIOUS
<1> DEFINE q == Tail(loop.pq)
           h == Head(loop.pq)
           l == [loop EXCEPT !.pq = q]
<1>1. loop \in LoopType /\ loop \in GoodLoops /\ QueuesAre(loop)
  BY DEF LoopInv, GoodLoops, Good
<1>2. loop.pq \in Seq(Conns) /\ loop.pq # <<>>
  BY <1>1 DEF RunPending, LoopType
<1>3. q \in Seq(Conns) /\ h \in Conns /\ \A i \in DOMAIN q : i + 1 \in DOMAIN loop.pq /\ q[i] = loop.pq[i + 1]
  BY <1>2
<1>4. h = loop.pq[1] /\ 1 \in DOMAIN loop.pq
  BY <1>2
<1> HIDE DEF q, h
<1>5. l \in LoopType /\ SameTables(l, loop) /\ l.pq = q
      /\ l.pending_queue = loop.pending_queue /\ l.batch = loop.batch
  BY <1>1, <1>3 DEF LoopType, SameTables
<1>6. \E t \in Callback(l, h, {POLLOUT}) : loop' = Settled(t)
  BY DEF RunPending, q, h
<1> HIDE DEF l
<1>7. QueuesAre(l)
  BY <1>1, <1>3, <1>5 DEF QueuesAre, SameTables
<1>8. h \in Handles /\ l \in OpenLoops(h)
  BY <1>1, <1>3, <1>4, <1>5, <1>7, TablesFrame DEF OpenLoops, QueuesAre, SameTables, Handles
<1> QED BY <1>6, <1>8, CallbackIs

\* An event that epoll returned has its watcher, and that is open.
LEMMA DispatchSettles == LoopInv /\ Dispatch => \E t \in GoodLoops : loop' = Settled(t)
<1> SUFFICES ASSUME LoopInv, Dispatch PROVE \E t \in GoodLoops : loop' = Settled(t)
  OBVIOUS
<1> DEFINE q == Tail(loop.batch)
           e == Head(loop.batch)
           l == [loop EXCEPT !.batch = q]
           h == l.watchers[e.fd]
           ev == e.ev \cap l.pevents[h]
<1>1. loop \in LoopType /\ loop \in GoodLoops /\ QueuesAre(loop) /\ Good(loop)
  BY DEF LoopInv, GoodLoops, Good
<1>2. loop.batch \in Seq(Happened) /\ loop.batch # <<>>
  BY <1>1 DEF Dispatch, LoopType
<1>3. /\ q \in Seq(Happened) /\ e \in Happened /\ e = loop.batch[1] /\ 1 \in DOMAIN loop.batch
      /\ \A i \in DOMAIN q : i + 1 \in DOMAIN loop.batch /\ q[i] = loop.batch[i + 1]
  BY <1>2
<1>4. \E t \in IF h = NULL THEN {[l EXCEPT !.interest[e.fd] = NULL]}
               ELSE IF ev = {} THEN {l} ELSE Callback(l, h, ev) : loop' = Settled(t)
  BY DEF Dispatch
<1> HIDE DEF q, e
<1>5. l \in LoopType /\ SameTables(l, loop) /\ l.batch = q
      /\ l.pending_queue = loop.pending_queue /\ l.pq = loop.pq
  BY <1>1, <1>3 DEF LoopType, SameTables
<1> HIDE DEF l
<1>6. QueuesAre(l)
  BY <1>1, <1>3, <1>5 DEF QueuesAre, SameTables
<1>7. l \in GoodLoops
  BY <1>1, <1>5, <1>6, TablesFrame
<1>8. h \in Handles /\ h # NULL /\ l \in OpenLoops(h)
  <2>1. e.fd \in Fds /\ loop.interest[e.fd] # NULL
    BY <1>1, <1>3 DEF Happened, QueuesAre
  <2>2. TableIs(loop, e.fd) /\ h = loop.watchers[e.fd]
    BY <1>1, <1>5, <2>1 DEF Good, SameTables
  <2>3. h # NULL /\ h \in Handles /\ l.st[h] = "open"
    BY <1>1, <1>5, <2>1, <2>2 DEF TableIs, LoopType, SameTables
  <2> QED BY <1>7, <2>3 DEF OpenLoops
<1> HIDE DEF h, ev
<1> QED BY <1>4, <1>7, <1>8, CallbackIs

\* epoll_wait returns events of the descriptors that wait, which epoll knows.
LEMMA WaitKeeps == LoopInv /\ Wait => LoopInv'
<1> SUFFICES ASSUME LoopInv, Wait PROVE LoopInv'
  OBVIOUS
<1>1. loop \in LoopType /\ loop \in GoodLoops /\ QueuesAre(loop) /\ OrderIs(loop) /\ ReadyIs(loop)
  BY DEF LoopInv, GoodLoops, Good
<1>2. CASE UNCHANGED loop
  BY <1>2 DEF LoopInv
<1>3. CASE loop.order # <<>>
  <2> DEFINE B == Batch(loop)
             b == [i \in 1..Len(B) |-> [fd |-> B[i], ev |-> loop.interest[B[i]] \cap loop.ready[B[i]]]]
             o == SubSeq(loop.order, Len(B) + 1, Len(loop.order)) \o B
  <2>1. loop' = [loop EXCEPT !.batch = b, !.order = o]
    BY <1>3 DEF Wait
  <2>2. loop.order \in Seq(Fds)
    BY <1>1 DEF LoopType
  <2> DEFINE n == Min({MaxEvents, Len(loop.order)})
  <2>3. n \in Nat /\ n <= Len(loop.order)
    <3>1. MaxEvents \in Nat /\ Len(loop.order) \in Nat
      BY LoopAssumption, <2>2
    <3>2. \E x \in {MaxEvents, Len(loop.order)} : \A y \in {MaxEvents, Len(loop.order)} : x <= y
      BY <3>1
    <3> QED BY <3>1, <3>2 DEF Min
  <2>4. B = SubSeq(loop.order, 1, n)
    BY DEF Batch
  <2> HIDE DEF n
  <2>5. /\ B \in Seq(Fds) /\ Len(B) = n
        /\ \A i \in 1..Len(B) : i \in DOMAIN loop.order /\ B[i] = loop.order[i]
    BY <2>2, <2>3, <2>4, SubSeqProperties
  <2> DEFINE rest == SubSeq(loop.order, Len(B) + 1, Len(loop.order))
  <2>6. /\ rest \in Seq(Fds)
        /\ \A i \in DOMAIN rest : i + n \in DOMAIN loop.order /\ rest[i] = loop.order[i + n]
    BY <2>2, <2>3, <2>5, SubSeqProperties
  <2>13. \A x \in Range(loop.order) : x \in Range(rest) \/ x \in Range(B)
    <3> DEFINE m == Len(loop.order)
    <3>1. m \in Nat /\ DOMAIN loop.order = 1..m /\ DOMAIN B = 1..n
      BY <2>2, <2>5
    <3>2. DOMAIN rest = 1..(m - n)
      BY <2>2, <2>3, <2>5, <2>6, SubSeqProperties
    <3> HIDE DEF m, n, B, rest
    <3>3. ASSUME NEW j \in 1..m PROVE loop.order[j] \in Range(rest) \/ loop.order[j] \in Range(B)
      <4>1. CASE j <= n
        <5>1. j \in 1..n
          BY <2>3, <3>1, <4>1
        <5> QED BY <2>5, <3>1, <5>1 DEF Range
      <4>2. CASE j > n
        <5>1. j - n \in 1..(m - n) /\ j - n + n = j
          BY <2>3, <3>1, <4>2
        <5> QED BY <2>6, <3>2, <5>1 DEF Range
      <4>3. j <= n \/ j > n
        BY <2>3, <3>1
      <4> QED BY <4>1, <4>2, <4>3
    <3> QED BY <3>1, <3>3 DEF Range
  <2> HIDE DEF B, rest
  <2>14. \A x \in Range(loop.order) : x \in Range(o)
    <3>1. o = rest \o B
      BY DEF rest
    <3> HIDE DEF o
    <3> QED BY <2>5, <2>6, <2>13, <3>1, RangeOfConcat
  <2>7. o \in Seq(Fds) /\ \A i \in DOMAIN o : \E j \in DOMAIN loop.order : o[i] = loop.order[j]
    <3>1. o = rest \o B
      BY DEF rest
    <3> HIDE DEF o
    <3>2. o \in Seq(Fds)
      BY <2>5, <2>6, <3>1
    <3>3. ASSUME NEW i \in DOMAIN o PROVE \E j \in DOMAIN loop.order : o[i] = loop.order[j]
      <4>1. \/ i \in DOMAIN rest /\ o[i] = rest[i]
            \/ i - Len(rest) \in DOMAIN B /\ o[i] = B[i - Len(rest)]
        BY <2>5, <2>6, <3>1, ConcatIs
      <4>2. DOMAIN B = 1..Len(B)
        BY <2>5
      <4> QED BY <2>5, <2>6, <4>1, <4>2
    <3> QED BY <3>2, <3>3
  <2>8. b \in Seq(Happened) /\ \A i \in DOMAIN b : loop.interest[b[i].fd] # NULL
    <3>1. ASSUME NEW i \in 1..Len(B)
          PROVE  B[i] \in Fds /\ loop.interest[B[i]] # NULL /\ loop.interest[B[i]] \cap loop.ready[B[i]] \in Events
      <4>1. B[i] \in Fds /\ loop.interest[B[i]] # NULL
        BY <1>1, <2>2, <2>5 DEF OrderIs
      <4>2. loop.interest[B[i]] \in Events /\ loop.ready[B[i]] \in Events
        BY <1>1, <4>1 DEF LoopType
      <4> QED BY <4>1, <4>2 DEF Events
    <3>2. Len(B) \in Nat
      BY <2>5
    <3>3. \A i \in 1..Len(B) : b[i] \in Happened /\ b[i].fd = B[i]
      BY <3>1 DEF Happened
    <3>4. b = [i \in 1..Len(B) |-> b[i]]
      OBVIOUS
    <3> HIDE DEF b
    <3>5. b \in Seq(Happened) /\ DOMAIN b = 1..Len(B)
      BY <3>2, <3>3, <3>4
    <3> QED BY <3>1, <3>3, <3>5
  <2> HIDE DEF o, b
  <2>9. loop' \in LoopType /\ SameTables(loop', loop) /\ loop'.order = o /\ loop'.batch = b
        /\ loop'.pending_queue = loop.pending_queue /\ loop'.pq = loop.pq
    BY <1>1, <2>1, <2>7, <2>8 DEF LoopType, SameTables
  <2>10. QueuesAre(loop')
    BY <1>1, <2>8, <2>9 DEF QueuesAre, SameTables
  <2>11. OrderIs(loop')
    BY <1>1, <2>7, <2>9 DEF OrderIs, SameTables
  <2>12. loop' \in GoodLoops
    BY <1>1, <2>9, <2>10, TablesFrame
  <2>15. ReadyIs(loop')
    <3>1. loop'.ready = loop.ready
      BY <1>1, <2>1 DEF LoopType
    <3> QED BY <1>1, <2>9, <2>14, <3>1 DEF ReadyIs, IsReady, SameTables
  <2> QED BY <2>11, <2>12, <2>15 DEF LoopInv
<1> QED BY <1>2, <1>3 DEF Wait

\* Closed handles are freed; the queue of the next turn is what is pending.
LEMMA ClosingKeeps == LoopInv /\ Closing => LoopInv'
<1> SUFFICES ASSUME LoopInv, Closing PROVE LoopInv'
  OBVIOUS
<1> DEFINE s == [h \in Handles |-> IF h \in loop.closing THEN "none" ELSE loop.st[h]]
           w == [c \in Conns |-> IF c \in loop.closing THEN 0 ELSE loop.writes[c]]
<1>1. loop \in LoopType /\ Good(loop) /\ QueuesAre(loop) /\ OrderIs(loop) /\ ReadyIs(loop)
  BY DEF LoopInv, GoodLoops, Good
<1>2. loop' = [loop EXCEPT !.st = s, !.writes = w, !.closing = {}, !.pq = loop.pending_queue, !.pending_queue = <<>>]
  BY DEF Closing
<1>3. s \in [Handles -> {"none", "open", "closing"}] /\ w \in [Conns -> Int]
  BY <1>1 DEF LoopType
<1>4. \A h \in Handles : s[h] = IF h \in loop.closing THEN "none" ELSE loop.st[h]
  OBVIOUS
<1> HIDE DEF s, w
<1>5. loop' \in LoopType
  <2>1. loop.pending_queue \in Seq(Conns) /\ <<>> \in Seq(Conns)
    BY <1>1 DEF LoopType
  <2> QED BY <1>1, <1>2, <1>3, <2>1 DEF LoopType
<1>6. /\ loop'.st = s /\ loop'.fd = loop.fd /\ loop'.pevents = loop.pevents /\ loop'.events = loop.events
      /\ loop'.watchers = loop.watchers /\ loop'.nfds = loop.nfds /\ loop'.watcher_queue = loop.watcher_queue
      /\ loop'.closing = {} /\ loop'.interest = loop.interest /\ loop'.batch = loop.batch
      /\ loop'.pq = loop.pending_queue /\ loop'.pending_queue = <<>> /\ loop'.order = loop.order
      /\ loop'.ready = loop.ready
  BY <1>1, <1>2 DEF LoopType
<1>7. \A h \in Handles : (s[h] = "open" <=> loop.st[h] = "open")
  BY <1>1, <1>4 DEF QueuesAre
<1>8. \A h \in Handles : IF s[h] = "open" THEN OpenIs(loop', h) ELSE ClosedIs(loop', h)
  BY <1>1, <1>6, <1>7 DEF Good, OpenIs, ClosedIs
<1>9. ServerIs(loop')
  BY <1>1, <1>6, <1>7 DEF Good, ServerIs, Handles
<1>10. \A f \in Fds : TableIs(loop', f)
  BY <1>1, <1>6, <1>7 DEF Good, TableIs, LoopType
<1>11. loop'.nfds = Cardinality(Watched(loop'))
  BY <1>1, <1>6 DEF Good, Watched
<1>12. QueuesAre(loop')
  <2>1. \A i \in DOMAIN loop.pending_queue : loop.pending_queue[i] \in Handles
    BY <1>1 DEF LoopType, Handles
  <2> QED BY <1>1, <1>6, <1>7, <2>1 DEF QueuesAre
<1>13. OrderIs(loop') /\ ReadyIs(loop')
  BY <1>1, <1>6 DEF OrderIs, ReadyIs, IsReady
<1> QED BY <1>5, <1>6, <1>8, <1>9, <1>10, <1>11, <1>12, <1>13 DEF Good, GoodLoops, LoopInv

LEMMA Step == LoopInv /\ [Turn \/ Client]_elVars => LoopInv'
<1> SUFFICES ASSUME LoopInv, [Turn \/ Client]_elVars PROVE LoopInv'
  OBVIOUS
<1>1. CASE RunPending
  BY <1>1, RunPendingSettles, SettledIs DEF LoopInv
<1>2. CASE Poll
  <2>1. loop' = Settled(Registered(loop))
    BY <1>2 DEF Poll
  <2> QED BY <2>1, RegisteredIs, SettledIs DEF LoopInv
<1>3. CASE Wait
  BY <1>3, WaitKeeps
<1>4. CASE Dispatch
  BY <1>4, DispatchSettles, SettledIs DEF LoopInv
<1>5. CASE EndOfEvents
  BY <1>5 DEF EndOfEvents, LoopInv
<1>6. CASE Closing
  BY <1>6, ClosingKeeps
<1>7. CASE Client
  BY <1>7, ClientSettles, SettledIs DEF LoopInv
<1>8. CASE UNCHANGED elVars
  BY <1>8 DEF elVars, LoopInv
<1> QED BY <1>1, <1>2, <1>3, <1>4, <1>5, <1>6, <1>7, <1>8 DEF Turn

LEMMA Invariance == ElSpec => []LoopInv
BY AtFirst, Step, PTL DEF ElSpec

-----------------------------------------------------------------------------
\* The theorems.

\* No callback is called for a closed handle: the table, its count and the queues have
\* open handles only, each under its own descriptor (core.c:933).
THEOREM ClosedHandlesAreForgotten == ElSpec => []OnlyOpenHandles
<1>1. LoopInv => OnlyOpenHandles
  <2> SUFFICES ASSUME LoopInv PROVE OnlyOpenHandles
    OBVIOUS
  <2>1. loop \in LoopType /\ Good(loop) /\ QueuesAre(loop)
    BY DEF LoopInv, GoodLoops, Good
  <2>2. ASSUME NEW f \in Fds, loop.watchers[f] # NULL
        PROVE  /\ loop.st[loop.watchers[f]] = "open" /\ loop.fd[loop.watchers[f]] = f
               /\ loop.pevents[loop.watchers[f]] # {}
    <3>1. TableIs(loop, f) /\ loop.watchers[f] \in Handles
      BY <2>1, <2>2 DEF Good, LoopType
    <3>2. OpenIs(loop, loop.watchers[f])
      BY <2>1, <2>2, <3>1 DEF Good, TableIs
    <3> QED BY <2>2, <3>1, <3>2 DEF TableIs, OpenIs
  <2>3. loop.nfds = Cardinality({f \in Fds : loop.watchers[f] # NULL})
    BY <2>1 DEF Good, Watched
  <2>4. ASSUME NEW h \in loop.watcher_queue PROVE loop.fd[h] # -1 /\ loop.watchers[loop.fd[h]] = h
    <3>1. h \in Handles
      BY <2>1 DEF LoopType
    <3> QED BY <2>1, <3>1, Basics DEF Good, OpenIs, ClosedIs
  <2>5. ASSUME NEW h \in Range(loop.pending_queue \o loop.pq) PROVE loop.st[h] = "open"
    <3> DEFINE q == loop.pending_queue \o loop.pq
    <3>1. PICK i \in DOMAIN q : h = q[i]
      BY DEF Range
    <3>2. loop.pending_queue \in Seq(Conns) /\ loop.pq \in Seq(Conns)
      BY <2>1 DEF LoopType
    <3>3. \/ i \in DOMAIN loop.pending_queue /\ q[i] = loop.pending_queue[i]
          \/ i - Len(loop.pending_queue) \in DOMAIN loop.pq /\ q[i] = loop.pq[i - Len(loop.pending_queue)]
      <4> HIDE DEF q
      <4> QED BY <3>1, <3>2, ConcatIs DEF q
    <3> QED BY <2>1, <3>1, <3>3 DEF QueuesAre
  <2> QED BY <2>2, <2>3, <2>4, <2>5 DEF OnlyOpenHandles
<1> QED BY <1>1, Invariance, PTL

\* What a handle wants is what epoll was told, or the change is queued; nothing is left of
\* a descriptor that is free (epoll.c:59, epoll.c:165).
THEOREM EpollKnowsWhatIsWanted == ElSpec => []InterestIsKnown
<1>1. LoopInv => InterestIsKnown
  <2> SUFFICES ASSUME LoopInv PROVE InterestIsKnown
    OBVIOUS
  <2>1. loop \in LoopType /\ loop \in GoodLoops /\ Good(loop) /\ QueuesAre(loop)
    BY DEF LoopInv, GoodLoops, Good
  <2>2. ASSUME NEW h \in Handles, loop.st[h] = "open"
        PROVE  /\ h \in loop.watcher_queue \/ loop.interest[loop.fd[h]] = loop.pevents[h]
               /\ loop.events[h] # {} => loop.interest[loop.fd[h]] # NULL
    <3>1. OpenIs(loop, h) /\ loop.events[h] \in Events
      BY <2>1, <2>2 DEF Good, LoopType
    <3> QED BY <3>1, Basics DEF OpenIs
  <2>3. \A f \in Free(loop) : loop.interest[f] = NULL
    BY <2>1, MinIsFree
  <2>4. \A e \in Range(loop.batch) : loop.interest[e.fd] # NULL
    BY <2>1 DEF QueuesAre, Range
  <2> QED BY <2>2, <2>3, <2>4 DEF InterestIsKnown
<1> QED BY <1>1, Invariance, PTL

\* An event that epoll_wait returned finds an open watcher, also after the callbacks of
\* others: the branch of uv__io_poll for a descriptor without one (epoll.c:330) is not
\* taken by this server.
THEOREM EventsFindTheirWatcher ==
  ElSpec => [](\A e \in Range(loop.batch) : loop.watchers[e.fd] # NULL /\ loop.st[loop.watchers[e.fd]] = "open")
<1>1. LoopInv => \A e \in Range(loop.batch) : loop.watchers[e.fd] # NULL /\ loop.st[loop.watchers[e.fd]] = "open"
  <2> SUFFICES ASSUME LoopInv, NEW i \in DOMAIN loop.batch
               PROVE  /\ loop.watchers[loop.batch[i].fd] # NULL
                      /\ loop.st[loop.watchers[loop.batch[i].fd]] = "open"
    BY DEF Range
  <2>1. loop \in LoopType /\ Good(loop) /\ QueuesAre(loop)
    BY DEF LoopInv, GoodLoops, Good
  <2>2. loop.batch[i] \in Happened
    BY <2>1 DEF LoopType
  <2>3. TableIs(loop, loop.batch[i].fd) /\ loop.interest[loop.batch[i].fd] # NULL
    BY <2>1, <2>2 DEF Good, Happened, QueuesAre
  <2> QED BY <2>3 DEF TableIs
<1> QED BY <1>1, Invariance, PTL

\* When the loop may sleep, nothing is due but what epoll can announce.
IdleInv ==
  timeout = -1 /\ (phase = "wait" \/ (phase = "events" /\ ~nevents)) =>
    loop.pending_queue = <<>> /\ loop.pq = <<>> /\ loop.closing = {} /\ loop.watcher_queue = {}

LEMMA IdleStep == LoopInv /\ IdleInv /\ [Turn \/ Client]_elVars => IdleInv'
<1> SUFFICES ASSUME LoopInv, IdleInv, [Turn \/ Client]_elVars PROVE IdleInv'
  OBVIOUS
<1>1. CASE RunPending
  BY <1>1 DEF RunPending, IdleInv
<1>2. CASE Poll
  <2>1. loop \in LoopType
    BY DEF LoopInv, GoodLoops
  <2>2. /\ loop'.pending_queue = loop.pending_queue /\ loop'.pq = loop.pq /\ loop'.closing = loop.closing
        /\ loop'.watcher_queue = {}
    BY <1>2, <2>1 DEF Poll, Settled, Registered, LoopType
  <2>3. timeout' = -1 => loop.pending_queue = <<>> /\ loop.closing = {}
    BY <1>2 DEF Poll, uv__backend_timeout
  <2> QED BY <1>2, <2>2, <2>3 DEF Poll, IdleInv
<1>3. CASE Wait
  <2>1. loop \in LoopType
    BY DEF LoopInv, GoodLoops
  <2>2. phase = "wait" /\ (phase' = "events" => timeout' = timeout) /\ phase' # "wait" /\ nevents' = nevents
    BY <1>3 DEF Wait
  <2>3. /\ loop'.pending_queue = loop.pending_queue /\ loop'.pq = loop.pq /\ loop'.closing = loop.closing
        /\ loop'.watcher_queue = loop.watcher_queue
    BY <1>3, <2>1 DEF Wait, LoopType
  <2> QED BY <2>2, <2>3 DEF IdleInv
<1>4. CASE Dispatch
  <2> DEFINE e == Head(loop.batch)
             l == [loop EXCEPT !.batch = Tail(@)]
             h == l.watchers[e.fd]
             ev == e.ev \cap l.pevents[h]
  <2>1. /\ phase = "events" /\ phase' = "events" /\ timeout' = timeout
        /\ nevents' = (nevents \/ (h # NULL /\ ev # {}))
        /\ h = NULL \/ ev = {} => loop' = Settled([l EXCEPT !.interest[e.fd] = NULL]) \/ loop' = Settled(l)
    BY <1>4 DEF Dispatch
  <2>2. CASE h # NULL /\ ev # {}
    <3>1. nevents'
      BY <2>1, <2>2
    <3> QED BY <2>1, <3>1 DEF IdleInv
  <2>3. CASE h = NULL \/ ev = {}
    <3>1. loop \in LoopType
      BY DEF LoopInv, GoodLoops
    <3> DEFINE f == e.fd
    <3> HIDE DEF h, ev, f
    <3>2. loop' = Settled([l EXCEPT !.interest[f] = NULL]) \/ loop' = Settled(l)
      BY <2>1, <2>3 DEF f
    <3>3. /\ loop'.pending_queue = loop.pending_queue /\ loop'.pq = loop.pq /\ loop'.closing = loop.closing
          /\ loop'.watcher_queue = loop.watcher_queue
      BY <3>1, <3>2 DEF Settled, LoopType
    <3>4. ~nevents' => ~nevents
      BY <2>1
    <3> QED BY <2>1, <3>3, <3>4 DEF IdleInv
  <2> QED BY <2>2, <2>3
<1>5. CASE EndOfEvents
  BY <1>5 DEF EndOfEvents, IdleInv
<1>6. CASE Closing
  BY <1>6 DEF Closing, IdleInv
<1>7. CASE Client
  <2>1. loop \in LoopType
    BY DEF LoopInv, GoodLoops
  <2>2. PICK f \in Fds, e \in {POLLIN, POLLOUT} :
          loop' = Settled([loop EXCEPT !.ready[f] = loop.ready[f] \cup {e}])
    BY <1>7 DEF Client
  <2>3. /\ loop'.pending_queue = loop.pending_queue /\ loop'.pq = loop.pq /\ loop'.closing = loop.closing
        /\ loop'.watcher_queue = loop.watcher_queue
    BY <2>1, <2>2 DEF Settled, LoopType
  <2> QED BY <1>7, <2>3 DEF Client, IdleInv
<1>8. CASE UNCHANGED elVars
  BY <1>8 DEF elVars, IdleInv
<1> QED BY <1>1, <1>2, <1>3, <1>4, <1>5, <1>6, <1>7, <1>8 DEF Turn

LEMMA IdleInvariance == ElSpec => []IdleInv
<1>1. ElInit => IdleInv
  BY DEF ElInit, IdleInv
<1> QED BY <1>1, IdleStep, Invariance, PTL DEF ElSpec

\* When uv__io_poll waits for ever, nothing is left to do: no callback is pending, no handle
\* waits to be freed, epoll knows what every open handle wants, and one that is ready for it
\* wakes the loop, also when it polls once more after events without a callback (core.c:361,
\* epoll.c:202).
THEOREM NothingIsDueInSleep ==
  ElSpec => [](phase = "wait" /\ timeout = -1 =>
                 /\ loop.pending_queue = <<>> /\ loop.pq = <<>> /\ loop.closing = {}
                 /\ \A h \in Handles : loop.st[h] = "open" =>
                      /\ loop.interest[loop.fd[h]] = loop.pevents[h]
                      /\ loop.pevents[h] \cap loop.ready[loop.fd[h]] # {} => loop.order # <<>>)
<1>1. LoopInv /\ IdleInv => (phase = "wait" /\ timeout = -1 =>
                 /\ loop.pending_queue = <<>> /\ loop.pq = <<>> /\ loop.closing = {}
                 /\ \A h \in Handles : loop.st[h] = "open" =>
                      /\ loop.interest[loop.fd[h]] = loop.pevents[h]
                      /\ loop.pevents[h] \cap loop.ready[loop.fd[h]] # {} => loop.order # <<>>)
  <2> SUFFICES ASSUME LoopInv, IdleInv, phase = "wait", timeout = -1
               PROVE  /\ loop.pending_queue = <<>> /\ loop.pq = <<>> /\ loop.closing = {}
                      /\ \A h \in Handles : loop.st[h] = "open" =>
                           /\ loop.interest[loop.fd[h]] = loop.pevents[h]
                           /\ loop.pevents[h] \cap loop.ready[loop.fd[h]] # {} => loop.order # <<>>
    OBVIOUS
  <2>1. loop.pending_queue = <<>> /\ loop.pq = <<>> /\ loop.closing = {} /\ loop.watcher_queue = {}
    BY DEF IdleInv
  <2>2. loop \in LoopType /\ Good(loop) /\ ReadyIs(loop)
    BY DEF LoopInv, GoodLoops
  <2>3. ASSUME NEW h \in Handles, loop.st[h] = "open"
        PROVE  /\ loop.interest[loop.fd[h]] = loop.pevents[h]
               /\ loop.pevents[h] \cap loop.ready[loop.fd[h]] # {} => loop.order # <<>>
    <3>1. OpenIs(loop, h) /\ loop.pevents[h] \in Events
      BY <2>2, <2>3 DEF Good, LoopType
    <3>2. /\ loop.fd[h] \in Fds /\ loop.interest[loop.fd[h]] = loop.pevents[h]
          /\ loop.interest[loop.fd[h]] # NULL
      BY <2>1, <3>1, Basics DEF OpenIs
    <3>3. ASSUME loop.pevents[h] \cap loop.ready[loop.fd[h]] # {} PROVE loop.order # <<>>
      <4>1. loop.fd[h] \in Range(loop.order)
        BY <2>2, <3>2, <3>3 DEF ReadyIs, IsReady
      <4>2. loop.order = <<>> => Range(loop.order) = {}
        BY DEF Range
      <4> QED BY <4>1, <4>2
    <3> QED BY <3>2, <3>3
  <2> QED BY <2>1, <2>3
<1> QED BY <1>1, Invariance, IdleInvariance, PTL
=============================================================================
