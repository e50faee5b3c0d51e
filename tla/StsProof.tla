------------------------------ MODULE StsProof ------------------------------
(***************************************************************************)
(* Theorems about StsQueue for any threads, values, addresses and number   *)
(* of pushes, whatever the mutex holds at the start.                       *)
(*                                                                         *)
(* The inductive invariant StsInv says, as long as the mutex excludes:     *)
(* who is inside the critical section holds the mutex (Exclusion); what a  *)
(* thread knows at each place in push and pop (Places); and that the       *)
(* elements in the hands of threads are distinct from each other and from  *)
(* those in the list (Apart).  With a mutex that is not one, nobody gets   *)
(* inside before the heap is given up.                                     *)
(*                                                                         *)
(* With it, each step maps to one of FifoQueue or to none (StepRefines).   *)
(***************************************************************************)
EXTENDS StsQueue, SequenceTheorems, TLAPS

CS == {"is_empty", "set_head", "set_next", "set_tail", "read_head", "rewire", "take", "unlock"}

Exclusion == \A t \in Threads : pc[t] \in CS => mutex = t

Places ==
  \A t \in Threads :
    /\ pc[t] \in {"is_empty", "set_head", "set_next", "set_tail"} => op[t] = "push"
    /\ pc[t] \in {"read_head", "rewire", "take"} => op[t] # "push"
    /\ Pushing(t) => /\ elem[t] \in Nodes /\ mem[elem[t]] = "live" /\ next[elem[t]] = NULL
                     /\ value[elem[t]] \in Vals
    /\ pc[t] = "set_head" => chain = <<>>
    /\ pc[t] = "set_next" => chain # <<>> /\ loc[t] = chain[Len(chain)]
    /\ pc[t] = "set_tail" => chain # <<>> /\ elem[t] = chain[Len(chain)]
    /\ pc[t] = "rewire" => chain # <<>> /\ loc[t] = chain[1]
    /\ Popping(t) => loc[t] \in Nodes /\ mem[loc[t]] = "live"

Apart ==
  /\ \A t \in Threads, i \in 1..Len(chain) : /\ Pushing(t) => chain[i] # elem[t]
                                             /\ Popping(t) => chain[i] # loc[t]
  /\ \A t, u \in Threads : /\ Pushing(t) /\ Pushing(u) /\ t # u => elem[t] # elem[u]
                           /\ Pushing(t) /\ Popping(u) => elem[t] # loc[u]

Good == heap = "ok" /\ Exclusion /\ Places /\ Apart /\ ListIsSound /\ NothingLeaks

StsInv ==
  /\ StsTypeOK
  /\ Excludes => Good
  /\ (~Excludes /\ heap = "ok") => \A t \in Threads : pc[t] \notin CS

-----------------------------------------------------------------------------
\* What Append and Tail do to a sequence of addresses.
LEMMA Appended ==
  ASSUME NEW s \in Seq(Nodes), NEW e \in Nodes
  PROVE  /\ Append(s, e) \in Seq(Nodes) /\ Append(s, e) # <<>>
         /\ Len(s) \in Nat /\ Len(Append(s, e)) = Len(s) + 1
         /\ \A i \in 1..Len(s) : Append(s, e)[i] = s[i] /\ s[i] \in Nodes
         /\ Append(s, e)[Len(s) + 1] = e
OBVIOUS

LEMMA Tailed ==
  ASSUME NEW s \in Seq(Nodes), s # <<>>
  PROVE  /\ Tail(s) \in Seq(Nodes)
         /\ Len(s) \in Nat \ {0} /\ Len(Tail(s)) = Len(s) - 1
         /\ \A i \in 1..Len(Tail(s)) : Tail(s)[i] = s[i + 1]
         /\ \A i \in 1..Len(s) : s[i] \in Nodes
         /\ Tail(s) = <<>> <=> Len(s) = 1
<1>1. Len(s) \in Nat \ {0} /\ \A i \in 1..Len(s) : s[i] \in Nodes
  BY EmptySeq, ElementOfSeq
<1>2. /\ Tail(s) \in Seq(Nodes) /\ Len(Tail(s)) = Len(s) - 1
      /\ \A i \in 1..Len(Tail(s)) : Tail(s)[i] = s[i + 1]
  BY HeadTailProperties
<1>3. Tail(s) = <<>> <=> Len(Tail(s)) = 0
  BY <1>2, EmptySeq
<1> QED BY <1>1, <1>2, <1>3

\* No thread is a state of the mutex.
LEMMA ThreadsAreNoStates ==
  ASSUME NEW t \in Threads
  PROVE  t # "unlocked" /\ t # "locked" /\ t # "invalid"
BY StsAssumption

\* Inside the critical section the mutex excludes, and no other thread is inside.
LEMMA InsideIsAlone ==
  ASSUME StsInv, heap = "ok", NEW t \in Threads, pc[t] \in CS
  PROVE  /\ Excludes /\ Good /\ mutex = t
         /\ \A u \in Threads : u # t => pc[u] \notin CS
BY DEF StsInv, Good, Exclusion

LEMMA InvAtInit == StsInit => StsInv
<1> SUFFICES ASSUME StsInit PROVE StsInv
  OBVIOUS
<1>1. StsTypeOK
  BY StsAssumption DEF StsInit, StsTypeOK
<1>2. Good
  BY DEF StsInit, Good, Exclusion, Places, Apart, Pushing, Popping, CS, ListIsSound, HeadIsFirst,
         NextIsNext, ListIsLive, TailIsLast, NothingLeaks
<1>3. \A t \in Threads : pc[t] \notin CS
  BY DEF StsInit, CS
<1> QED BY <1>1, <1>2, <1>3 DEF StsInv

-----------------------------------------------------------------------------
\* Outside the critical section.
LEMMA PushKeeps ==
  ASSUME StsInv, heap = "ok", NEW t \in Threads, NEW v \in Vals, Push(t, v)
  PROVE  StsInv'
<1> PICK n \in Nodes :
      /\ mem[n] = "free"
      /\ mem' = [mem EXCEPT ![n] = "live"]
      /\ value' = [value EXCEPT ![n] = v]
      /\ next' = [next EXCEPT ![n] = NULL]
      /\ elem' = [elem EXCEPT ![t] = n]
  BY DEF Push
<1>1. StsTypeOK'
  BY StsAssumption DEF StsInv, StsTypeOK, Push, GoTo
<1>2. ASSUME Excludes PROVE Good'
  <2> USE <1>2 DEF StsInv, Good
  <2>0. /\ StsTypeOK /\ pc[t] = "idle"
        /\ chain' = chain /\ head' = head /\ tail' = tail /\ mutex' = mutex /\ loc' = loc
        /\ pc' = [pc EXCEPT ![t] = "lock"] /\ op' = [op EXCEPT ![t] = "push"]
        /\ heap' = heap
        /\ pc \in [Threads -> {"idle", "lock", "is_empty", "set_head", "set_next", "set_tail",
                         "read_head", "rewire", "take", "unlock"}]
    BY DEF Push, GoTo, StsTypeOK
  <2>1. Exclusion'
    BY <2>0 DEF Exclusion, CS
  <2>2. \A i \in 1..Len(chain) : chain[i] \in Nodes /\ chain[i] # n
    BY DEF ListIsSound, ListIsLive, StsTypeOK
  <2>3. Places'
    BY <2>0, <2>2 DEF Places, Pushing, Popping, StsTypeOK
  <2>4. Apart'
    BY <2>0, <2>2 DEF Places, Apart, Pushing, Popping, StsTypeOK
  <2>5. ListIsSound'
    BY <2>0, <2>2 DEF ListIsSound, HeadIsFirst, NextIsNext, ListIsLive, TailIsLast, Excludes,
        StsTypeOK
  <2>6. NothingLeaks'
    BY <2>0, <2>2 DEF NothingLeaks, Excludes, Pushing, Popping, StsTypeOK
  <2> QED BY <2>0, <2>1, <2>3, <2>4, <2>5, <2>6
<1>3. ASSUME ~Excludes PROVE \A u \in Threads : pc'[u] \notin CS
  BY <1>3 DEF StsInv, StsTypeOK, Push, GoTo, CS
<1> QED BY <1>1, <1>2, <1>3 DEF StsInv, Excludes, Push

LEMMA PopKeeps ==
  ASSUME StsInv, heap = "ok", NEW t \in Threads, NEW f \in {"pop", "destroy"}, Pop(t, f)
  PROVE  StsInv'
<1>0. /\ StsTypeOK
      /\ pc[t] = "idle" /\ UNCHANGED <<shared, mutex, loc, elem, ret, pushes, heap, chain>>
      /\ pc' = [pc EXCEPT ![t] = "lock"] /\ op' = [op EXCEPT ![t] = f]
  BY DEF Pop, GoTo, StsInv
<1>1. StsTypeOK'
  BY <1>0 DEF StsTypeOK, shared
<1>2. ASSUME Excludes PROVE Good'
  <2>1. Good
    BY <1>2 DEF StsInv
  <2>2. Exclusion'
    BY <1>0, <2>1 DEF StsTypeOK, Good, Exclusion, CS
  <2>3. Places'
    BY <1>0, <2>1 DEF StsTypeOK, Good, Places, Pushing, Popping, shared
  <2>4. Apart'
    BY <1>0, <2>1 DEF StsTypeOK, Good, Apart, Pushing, Popping, shared
  <2>5. ListIsSound'
    BY <1>0, <1>2, <2>1 DEF StsTypeOK, Good, ListIsSound, HeadIsFirst, NextIsNext, ListIsLive,
       TailIsLast, shared
  <2>6. NothingLeaks'
    BY <1>0, <1>2, <2>1 DEF StsTypeOK, Good, NothingLeaks, Pushing, Popping, shared
  <2> QED BY <1>0, <2>1, <2>2, <2>3, <2>4, <2>5, <2>6 DEF Good
<1>3. ASSUME ~Excludes PROVE \A u \in Threads : pc'[u] \notin CS
  BY <1>0, <1>3 DEF StsInv, StsTypeOK, CS
<1> QED BY <1>0, <1>1, <1>2, <1>3 DEF StsInv, Excludes

\* Entering it.
LEMMA AcquireKeeps ==
  ASSUME StsInv, heap = "ok", NEW t \in Threads, Acquire(t)
  PROVE  StsInv'
<1>0. /\ StsTypeOK
      /\ pc[t] = "lock" /\ UNCHANGED <<shared, op, loc, elem, ret, pushes, chain>>
      /\ pc' = [pc EXCEPT ![t] = IF op[t] = "push" THEN "is_empty" ELSE "read_head"]
  BY DEF Acquire, GoTo, StsInv
<1>1. StsTypeOK'
  BY <1>0, StsAssumption DEF StsTypeOK, shared, Acquire, Lock
<1>2. CASE Excludes
  <2>1. Good /\ mutex = "unlocked" /\ mutex' = t /\ heap' = "ok"
    BY <1>2 DEF StsInv, Acquire, Lock, Excludes
  <2>2. \A u \in Threads : pc[u] \notin CS
    BY <2>1, ThreadsAreNoStates DEF Good, Exclusion
  <2>3. Exclusion'
    BY <1>0, <2>1, <2>2 DEF StsTypeOK, Exclusion
  <2>4. Places'
    BY <1>0, <2>1, <2>2 DEF StsTypeOK, Good, Places, Pushing, Popping, shared, CS
  <2>5. Apart'
    BY <1>0, <2>1, <2>2 DEF StsTypeOK, Good, Apart, Pushing, Popping, shared, CS
  <2>6. ListIsSound'
    BY <1>0, <1>2, <2>1, <2>2 DEF StsTypeOK, Good, ListIsSound, HeadIsFirst, NextIsNext, ListIsLive,
       TailIsLast, shared, CS
  <2>7. NothingLeaks'
    BY <1>0, <1>2, <2>1, <2>2 DEF StsTypeOK, Good, NothingLeaks, Pushing, Popping, shared, CS
  <2>8. Excludes'
    BY <2>1, ThreadsAreNoStates DEF Excludes
  <2> QED BY <1>1, <2>1, <2>3, <2>4, <2>5, <2>6, <2>7, <2>8 DEF StsInv, Good
<1>3. CASE ~Excludes
  BY <1>1, <1>3 DEF StsInv, Excludes, Acquire
<1> QED BY <1>2, <1>3

-----------------------------------------------------------------------------
\* Inside: the steps of push.
LEMMA IsEmptyKeeps ==
  ASSUME StsInv, heap = "ok", NEW t \in Threads, IsEmpty(t)
  PROVE  StsInv'
<1>0. /\ StsTypeOK /\ Excludes /\ Good /\ mutex = t /\ pc[t] = "is_empty"
      /\ \A u \in Threads : u # t => pc[u] \notin CS
  BY InsideIsAlone DEF IsEmpty, CS, StsInv
<1>1. /\ pc' = [pc EXCEPT ![t] = IF ListIsEmpty THEN "set_head" ELSE "set_next"]
      /\ UNCHANGED <<head, tail, mem, value, next, mutex, op, elem, ret, pushes, heap, chain>>
      /\ loc' = [loc EXCEPT ![t] = tail]
  BY DEF IsEmpty, GoTo, shared
<1>2. StsTypeOK'
  BY <1>0, <1>1 DEF StsTypeOK
<1>a. ListIsEmpty <=> chain = <<>>
  BY <1>0, StsAssumption, ElementOfSeq, EmptySeq DEF Good, ListIsSound, HeadIsFirst, ListIsEmpty,
      StsTypeOK
<1>b. chain # <<>> => tail = chain[Len(chain)]
  BY <1>0 DEF Good, ListIsSound, TailIsLast, CS
<1>3. Exclusion'
  BY <1>0, <1>1, <1>a, <1>b
     DEF StsTypeOK, Good, CS, Exclusion
<1>4. Places'
  BY <1>0, <1>1, <1>a, <1>b
     DEF StsTypeOK, Good, CS, Places, Pushing, Popping
<1>5. Apart'
  BY <1>0, <1>1, <1>a, <1>b
     DEF StsTypeOK, Good, CS, Places, Apart, Pushing, Popping
<1>6. ListIsSound'
  BY <1>0, <1>1, <1>a, <1>b
     DEF StsTypeOK, Good, CS, Places, ListIsSound, HeadIsFirst, NextIsNext, ListIsLive,
         TailIsLast, Excludes, Pushing, Popping
<1>7. NothingLeaks'
  BY <1>0, <1>1, <1>a, <1>b
     DEF StsTypeOK, Good, CS, Places, NothingLeaks, Excludes, Pushing, Popping
<1> QED BY <1>0, <1>1, <1>2, <1>3, <1>4, <1>5, <1>6, <1>7 DEF StsInv, Good, Excludes

LEMMA SetHeadKeeps ==
  ASSUME StsInv, heap = "ok", NEW t \in Threads, SetHead(t)
  PROVE  StsInv'
<1>0. /\ StsTypeOK /\ Excludes /\ Good /\ mutex = t /\ pc[t] = "set_head"
      /\ \A u \in Threads : u # t => pc[u] \notin CS
  BY InsideIsAlone DEF SetHead, CS, StsInv
<1>1. /\ pc' = [pc EXCEPT ![t] = "set_tail"]
      /\ UNCHANGED <<tail, mem, value, next, mutex, op, loc, elem, ret, pushes, heap>>
      /\ head' = elem[t] /\ chain' = Append(chain, elem[t])
  BY DEF SetHead, GoTo
<1>a. /\ chain = <<>> /\ elem[t] \in Nodes /\ chain' \in Seq(Nodes)
      /\ chain' # <<>> /\ Len(chain') = 1 /\ chain'[1] = elem[t]
  BY <1>0, <1>1, Appended, EmptySeq DEF Good, Places, Pushing, StsTypeOK
<1>2. StsTypeOK'
  BY <1>0, <1>1, <1>a DEF StsTypeOK
<1>3. Exclusion'
  BY <1>0, <1>1, <1>a, StsAssumption
     DEF StsTypeOK, Good, CS, Exclusion
<1>4. Places'
  BY <1>0, <1>1, <1>a, StsAssumption
     DEF StsTypeOK, Good, CS, Places, Pushing, Popping
<1>5. Apart'
  BY <1>0, <1>1, <1>a, StsAssumption
     DEF StsTypeOK, Good, CS, Places, Apart, Pushing, Popping
<1>6. ListIsSound'
  BY <1>0, <1>1, <1>a, StsAssumption
     DEF StsTypeOK, Good, CS, Places, ListIsSound, HeadIsFirst, NextIsNext, ListIsLive,
         TailIsLast, Excludes, Pushing, Popping
<1>7. NothingLeaks'
  BY <1>0, <1>1, <1>a, StsAssumption
     DEF StsTypeOK, Good, CS, Places, NothingLeaks, Excludes, Pushing, Popping
<1> QED BY <1>0, <1>1, <1>2, <1>3, <1>4, <1>5, <1>6, <1>7 DEF StsInv, Good, Excludes

LEMMA SetNextKeeps ==
  ASSUME StsInv, heap = "ok", NEW t \in Threads, SetNext(t)
  PROVE  StsInv'
<1>0. /\ StsTypeOK /\ Excludes /\ Good /\ mutex = t /\ pc[t] = "set_next"
      /\ \A u \in Threads : u # t => pc[u] \notin CS
  BY InsideIsAlone DEF SetNext, CS, StsInv
<1>1. /\ pc' = [pc EXCEPT ![t] = "set_tail"]
      /\ UNCHANGED <<head, tail, mem, value, mutex, op, loc, elem, ret, pushes>>
  BY DEF SetNext, GoTo
<1>a. /\ chain # <<>> /\ loc[t] = chain[Len(chain)] /\ loc[t] \in Nodes /\ mem[loc[t]] = "live"
      /\ elem[t] \in Nodes /\ Len(chain) \in Nat \ {0}
  BY <1>0, EmptySeq, ElementOfSeq
     DEF Good, Places, Pushing, ListIsSound, ListIsLive, StsTypeOK
<1>b. next' = [next EXCEPT ![loc[t]] = elem[t]] /\ chain' = Append(chain, elem[t]) /\ heap' = heap
  BY <1>a, StsAssumption DEF SetNext
<1>c. /\ chain' \in Seq(Nodes) /\ chain' # <<>>
      /\ Len(chain') = Len(chain) + 1
      /\ \A i \in 1..Len(chain) : chain'[i] = chain[i] /\ chain[i] \in Nodes
      /\ chain'[Len(chain) + 1] = elem[t]
  BY <1>0, <1>a, <1>b, Appended DEF StsTypeOK
<1>d. \A u \in Threads : Pushing(u) => elem[u] # loc[t] /\ (u # t => elem[u] # elem[t])
  BY <1>0, <1>a DEF Good, Apart, Pushing
<1>2. StsTypeOK'
  BY <1>0, <1>1, <1>a, <1>b, <1>c DEF StsTypeOK
<1>3. Exclusion'
  BY <1>0, <1>1, <1>a, <1>b, <1>c, StsAssumption
     DEF StsTypeOK, Good, CS, Exclusion
<1>4. Places'
  BY <1>0, <1>1, <1>a, <1>b, <1>c, <1>d, StsAssumption
     DEF StsTypeOK, Good, CS, Places, Pushing, Popping
<1>5. Apart'
  BY <1>0, <1>1, <1>a, <1>b, <1>c, StsAssumption
     DEF StsTypeOK, Good, CS, Places, Apart, Pushing, Popping
<1>6. ListIsSound'
  <2>1. HeadIsFirst /\ NextIsNext /\ ListIsLive
    BY <1>0 DEF Good, ListIsSound
  <2>2. \A i \in 1..Len(chain) : chain[i] # elem[t]
    BY <1>0 DEF Good, Apart, Pushing
  <2>3. mem[elem[t]] = "live" /\ next[elem[t]] = NULL
    BY <1>0 DEF Good, Places, Pushing
  <2>4. HeadIsFirst'
    BY <2>1, <1>1, <1>a, <1>c DEF HeadIsFirst
  <2>5. NextIsNext'
    BY <2>1, <2>2, <2>3, <1>0, <1>a, <1>b, <1>c DEF NextIsNext, ListIsLive, StsTypeOK
  <2>6. ListIsLive'
    BY <2>1, <2>2, <2>3, <1>1, <1>a, <1>c DEF ListIsLive
  <2>7. TailIsLast'
    BY <1>0, <1>1 DEF TailIsLast, StsTypeOK
  <2> QED BY <2>4, <2>5, <2>6, <2>7 DEF ListIsSound
<1>7. NothingLeaks'
  BY <1>0, <1>1, <1>a, <1>b, <1>c, StsAssumption
     DEF StsTypeOK, Good, CS, Places, NothingLeaks, Excludes, Pushing, Popping
<1> QED BY <1>0, <1>1, <1>b, <1>2, <1>3, <1>4, <1>5, <1>6, <1>7 DEF StsInv, Good, Excludes

LEMMA SetTailKeeps ==
  ASSUME StsInv, heap = "ok", NEW t \in Threads, SetTail(t)
  PROVE  StsInv'
<1>0. /\ StsTypeOK /\ Excludes /\ Good /\ mutex = t /\ pc[t] = "set_tail"
      /\ \A u \in Threads : u # t => pc[u] \notin CS
  BY InsideIsAlone DEF SetTail, CS, StsInv
<1>1. /\ pc' = [pc EXCEPT ![t] = "unlock"]
      /\ UNCHANGED <<head, mem, value, next, mutex, op, loc, elem, ret, pushes, heap, chain>>
      /\ tail' = elem[t]
  BY DEF SetTail, GoTo, NewTail
<1>2. StsTypeOK'
  BY <1>0, <1>1 DEF StsTypeOK
<1>3. Exclusion'
  BY <1>0, <1>1
     DEF StsTypeOK, Good, CS, Exclusion
<1>4. Places'
  BY <1>0, <1>1
     DEF StsTypeOK, Good, CS, Places, Pushing, Popping
<1>5. Apart'
  BY <1>0, <1>1
     DEF StsTypeOK, Good, CS, Places, Apart, Pushing, Popping
<1>6. ListIsSound'
  BY <1>0, <1>1
     DEF StsTypeOK, Good, CS, Places, ListIsSound, HeadIsFirst, NextIsNext, ListIsLive,
         TailIsLast, Excludes, Pushing, Popping
<1>7. NothingLeaks'
  BY <1>0, <1>1
     DEF StsTypeOK, Good, CS, Places, NothingLeaks, Excludes, Pushing, Popping
<1> QED BY <1>0, <1>1, <1>2, <1>3, <1>4, <1>5, <1>6, <1>7 DEF StsInv, Good, Excludes

-----------------------------------------------------------------------------
\* Inside: the steps of pop.
LEMMA ReadHeadKeeps ==
  ASSUME StsInv, heap = "ok", NEW t \in Threads, ReadHead(t)
  PROVE  StsInv'
<1>0. /\ StsTypeOK /\ Excludes /\ Good /\ mutex = t /\ pc[t] = "read_head"
      /\ \A u \in Threads : u # t => pc[u] \notin CS
  BY InsideIsAlone DEF ReadHead, CS, StsInv
<1>1. /\ pc' = [pc EXCEPT ![t] = IF head = NULL THEN "unlock" ELSE "rewire"]
      /\ UNCHANGED <<head, tail, mem, value, next, mutex, op, elem, pushes, heap, chain>>
      /\ loc' = [loc EXCEPT ![t] = head]
      /\ ret' = IF head = NULL THEN [ret EXCEPT ![t] = NULL] ELSE ret
  BY DEF ReadHead, GoTo, shared
<1>a. (head = NULL <=> chain = <<>>) /\ (chain # <<>> => head = chain[1])
  BY <1>0, StsAssumption, ElementOfSeq, EmptySeq DEF Good, ListIsSound, HeadIsFirst, StsTypeOK
<1>2. StsTypeOK'
  BY <1>0, <1>1 DEF StsTypeOK
<1>3. Exclusion'
  BY <1>0, <1>1
     DEF StsTypeOK, Good, CS, Exclusion
<1>4. Places'
  BY <1>0, <1>1, <1>a
     DEF StsTypeOK, Good, CS, Places, Pushing, Popping
<1>5. Apart'
  BY <1>0, <1>1
     DEF StsTypeOK, Good, CS, Places, Apart, Pushing, Popping
<1>6. ListIsSound'
  BY <1>0, <1>1
     DEF StsTypeOK, Good, CS, Places, ListIsSound, HeadIsFirst, NextIsNext, ListIsLive,
         TailIsLast, Excludes, Pushing, Popping
<1>7. NothingLeaks'
  BY <1>0, <1>1
     DEF StsTypeOK, Good, CS, Places, NothingLeaks, Excludes, Pushing, Popping
<1> QED BY <1>0, <1>1, <1>2, <1>3, <1>4, <1>5, <1>6, <1>7 DEF StsInv, Good, Excludes

LEMMA RewireKeeps ==
  ASSUME StsInv, heap = "ok", NEW t \in Threads, Rewire(t)
  PROVE  StsInv'
<1>0. /\ StsTypeOK /\ Excludes /\ Good /\ mutex = t /\ pc[t] = "rewire"
      /\ \A u \in Threads : u # t => pc[u] \notin CS
  BY InsideIsAlone DEF Rewire, CS, StsInv
<1>1. /\ pc' = [pc EXCEPT ![t] = "take"]
      /\ UNCHANGED <<tail, mem, value, next, mutex, op, loc, elem, ret, pushes>>
  BY DEF Rewire, GoTo
<1>a. /\ chain # <<>> /\ loc[t] = chain[1] /\ loc[t] \in Nodes /\ mem[loc[t]] = "live"
  BY <1>0, EmptySeq, ElementOfSeq DEF Good, Places, ListIsSound, ListIsLive, StsTypeOK
<1>b. head' = next[loc[t]] /\ chain' = Tail(chain) /\ heap' = heap
  BY <1>a DEF Rewire
<1>c. /\ chain' \in Seq(Nodes)
      /\ Len(chain) \in Nat \ {0} /\ Len(chain') = Len(chain) - 1
      /\ \A i \in 1..Len(chain') : chain'[i] = chain[i + 1]
      /\ \A i \in 1..Len(chain) : chain[i] \in Nodes
      /\ chain' = <<>> <=> Len(chain) = 1
  BY <1>0, <1>a, <1>b, Tailed DEF StsTypeOK
<1>d. /\ \A i \in 1..Len(chain') : i + 1 \in 1..Len(chain) /\ chain'[i] # loc[t]
      /\ \A u \in Threads : Pushing(u) => elem[u] # loc[t]
  BY <1>0, <1>a, <1>c DEF Good, ListIsSound, ListIsLive, Apart
<1>2. StsTypeOK'
  BY <1>0, <1>1, <1>a, <1>b, <1>c DEF StsTypeOK
<1>3. Exclusion'
  BY <1>0, <1>1, <1>a, <1>b, <1>c
     DEF StsTypeOK, Good, CS, Exclusion
<1>4. Places'
  BY <1>0, <1>1, <1>a, <1>b, <1>c
     DEF StsTypeOK, Good, CS, Places, Pushing, Popping
<1>5. Apart'
  BY <1>0, <1>1, <1>a, <1>b, <1>c, <1>d
     DEF StsTypeOK, Good, CS, Places, Apart, Pushing, Popping
<1>6. ListIsSound'
  <2>1. HeadIsFirst /\ NextIsNext /\ ListIsLive /\ TailIsLast
    BY <1>0 DEF Good, ListIsSound
  <2>2. HeadIsFirst'
    <3>1. next[chain[1]] = IF Len(chain) = 1 THEN NULL ELSE chain[2]
      BY <2>1, <1>c DEF NextIsNext
    <3>2. Len(chain) # 1 => chain'[1] = chain[2]
      <4>1. Len(chain) # 1 => 1 \in 1..Len(chain') /\ 1 + 1 = 2
        BY <1>c
      <4> QED BY <4>1, <1>c
    <3> QED BY <3>1, <3>2, <1>a, <1>b, <1>c DEF HeadIsFirst
  <2>3. NextIsNext'
    <3> SUFFICES ASSUME NEW i \in 1..Len(chain')
                 PROVE  next'[chain'[i]] = (IF i = Len(chain') THEN NULL ELSE chain'[i + 1])
      BY DEF NextIsNext
    <3>1. i + 1 \in 1..Len(chain) /\ chain'[i] = chain[i + 1]
      BY <1>c, <1>d
    <3>2. next[chain[i + 1]] = (IF i + 1 = Len(chain) THEN NULL ELSE chain[i + 1 + 1])
      BY <3>1, <2>1 DEF NextIsNext
    <3>3. i # Len(chain') => chain'[i + 1] = chain[i + 1 + 1]
      <4>1. i # Len(chain') => i + 1 \in 1..Len(chain')
        BY <1>c
      <4> QED BY <4>1, <1>c
    <3> QED BY <3>1, <3>2, <3>3, <1>1, <1>c
  <2>4. ListIsLive'
    BY <2>1, <1>1, <1>c, <1>d DEF ListIsLive
  <2>5. \A u \in Threads : pc[u] # "set_tail"
    BY <1>0 DEF CS
  <2>6. TailIsLast'
    BY <2>1, <2>5, <1>1, <1>c DEF TailIsLast
  <2> QED BY <2>2, <2>3, <2>4, <2>6 DEF ListIsSound
<1>7. NothingLeaks'
  <2> SUFFICES ASSUME NEW n \in Nodes, mem'[n] = "live"
               PROVE  \/ \E i \in 1..Len(chain') : chain'[i] = n
                      \/ \E u \in Threads : (Pushing(u)' /\ elem'[u] = n) \/ (Popping(u)' /\ loc'[u] = n)
    BY DEF NothingLeaks
  <2>1. CASE \E i \in 1..Len(chain) : chain[i] = n
    <3> PICK i \in 1..Len(chain) : chain[i] = n
      BY <2>1
    <3>1. CASE i = 1
      BY <3>1, <1>0, <1>1, <1>a DEF Popping, StsTypeOK
    <3>2. CASE i # 1
      <4>1. i - 1 \in 1..Len(chain') /\ chain'[i - 1] = n
        BY <3>2, <1>c
      <4> QED BY <4>1
    <3> QED BY <3>1, <3>2
  <2>2. CASE \E u \in Threads : (Pushing(u) /\ elem[u] = n) \/ (Popping(u) /\ loc[u] = n)
    BY <2>2, <1>0, <1>1 DEF Pushing, Popping, CS, StsTypeOK
  <2> QED BY <2>1, <2>2, <1>0, <1>1 DEF Good, NothingLeaks
<1> QED BY <1>0, <1>1, <1>b, <1>2, <1>3, <1>4, <1>5, <1>6, <1>7 DEF StsInv, Good, Excludes

LEMMA TakeKeeps ==
  ASSUME StsInv, heap = "ok", NEW t \in Threads, Take(t)
  PROVE  StsInv'
<1>0. /\ StsTypeOK /\ Excludes /\ Good /\ mutex = t /\ pc[t] = "take"
      /\ \A u \in Threads : u # t => pc[u] \notin CS
  BY InsideIsAlone DEF Take, CS, StsInv
<1>1. /\ pc' = [pc EXCEPT ![t] = "unlock"]
      /\ UNCHANGED <<head, tail, mutex, op, loc, elem, pushes, chain>>
  BY DEF Take, GoTo
<1>a. loc[t] \in Nodes /\ mem[loc[t]] = "live"
  BY <1>0 DEF Good, Places, Popping
<1>b. /\ ret' = [ret EXCEPT ![t] = value[loc[t]]] /\ heap' = heap
      /\ mem' = [mem EXCEPT ![loc[t]] = "free"]
      /\ value' = [value EXCEPT ![loc[t]] = NULL] /\ next' = [next EXCEPT ![loc[t]] = NULL]
  BY <1>a DEF Take, Freed
<1>c. \A i \in 1..Len(chain) : chain[i] \in Nodes /\ chain[i] # loc[t]
  BY <1>0 DEF Good, Apart, Popping, StsTypeOK
<1>d. \A u \in Threads : Pushing(u) => elem[u] # loc[t]
  BY <1>0 DEF Good, Apart, Popping
<1>2. StsTypeOK'
  BY <1>0, <1>1, <1>a, <1>b DEF StsTypeOK
<1>3. Exclusion'
  BY <1>0, <1>1, <1>a, <1>b, <1>c
     DEF StsTypeOK, Good, CS, Exclusion
<1>4. Places'
  BY <1>0, <1>1, <1>a, <1>b, <1>c, <1>d
     DEF StsTypeOK, Good, CS, Places, Pushing, Popping
<1>5. Apart'
  BY <1>0, <1>1, <1>a, <1>b, <1>c
     DEF StsTypeOK, Good, CS, Places, Apart, Pushing, Popping
<1>6. ListIsSound'
  BY <1>0, <1>1, <1>a, <1>b, <1>c
     DEF StsTypeOK, Good, CS, Places, ListIsSound, HeadIsFirst, NextIsNext, ListIsLive,
         TailIsLast, Excludes, Pushing, Popping
<1>7. NothingLeaks'
  BY <1>0, <1>1, <1>a, <1>b, <1>c
     DEF StsTypeOK, Good, CS, Places, NothingLeaks, Excludes, Pushing, Popping
<1> QED BY <1>0, <1>1, <1>b, <1>2, <1>3, <1>4, <1>5, <1>6, <1>7 DEF StsInv, Good, Excludes

\* Leaving.
LEMMA ReleaseKeeps ==
  ASSUME StsInv, heap = "ok", NEW t \in Threads, Release(t)
  PROVE  StsInv'
<1>0. /\ StsTypeOK /\ Excludes /\ Good /\ mutex = t /\ pc[t] = "unlock"
      /\ \A u \in Threads : u # t => pc[u] \notin CS
  BY InsideIsAlone DEF Release, CS, StsInv
<1>1. /\ pc' = [pc EXCEPT ![t] = IF op[t] = "destroy" /\ ret[t] # NULL THEN "lock" ELSE "idle"]
      /\ UNCHANGED <<head, tail, mem, value, next, op, ret, pushes, heap, chain>>
      /\ mutex' = "unlocked"
      /\ loc' = [loc EXCEPT ![t] = NULL] /\ elem' = [elem EXCEPT ![t] = NULL]
  BY <1>0 DEF Release, GoTo, Unlock, shared
<1>2. StsTypeOK'
  BY <1>0, <1>1 DEF StsTypeOK
<1>3. Exclusion'
  BY <1>0, <1>1
     DEF StsTypeOK, Good, CS, Exclusion
<1>4. Places'
  BY <1>0, <1>1
     DEF StsTypeOK, Good, CS, Places, Pushing, Popping
<1>5. Apart'
  BY <1>0, <1>1
     DEF StsTypeOK, Good, CS, Places, Apart, Pushing, Popping
<1>6. ListIsSound'
  BY <1>0, <1>1
     DEF StsTypeOK, Good, CS, Places, ListIsSound, HeadIsFirst, NextIsNext, ListIsLive,
         TailIsLast, Excludes, Pushing, Popping
<1>7. NothingLeaks'
  BY <1>0, <1>1
     DEF StsTypeOK, Good, CS, Places, NothingLeaks, Excludes, Pushing, Popping
<1> QED BY <1>0, <1>1, <1>2, <1>3, <1>4, <1>5, <1>6, <1>7 DEF StsInv, Good, Excludes

-----------------------------------------------------------------------------
LEMMA StepKeeps == StsInv /\ [StsNext]_stsVars => StsInv'
<1> SUFFICES ASSUME StsInv, [StsNext]_stsVars PROVE StsInv'
  OBVIOUS
<1>1. ASSUME heap = "ok", NEW t \in Threads, StsStep(t) PROVE StsInv'
  <2>1. CASE \E v \in Vals : Push(t, v)
    BY <1>1, <2>1, PushKeeps
  <2>2. CASE \E f \in {"pop", "destroy"} : Pop(t, f)
    BY <1>1, <2>2, PopKeeps
  <2>3. CASE Inside(t)
    BY <1>1, <2>3, AcquireKeeps, IsEmptyKeeps, SetHeadKeeps, SetNextKeeps, SetTailKeeps,
       ReadHeadKeeps, RewireKeeps, TakeKeeps, ReleaseKeeps DEF Inside
  <2> QED BY <1>1, <2>1, <2>2, <2>3 DEF StsStep
<1>2. CASE UNCHANGED stsVars
  BY <1>2 DEF StsInv, StsTypeOK, Good, Exclusion, Places, Apart, ListIsSound, HeadIsFirst,
      NextIsNext,
     ListIsLive, TailIsLast, NothingLeaks, Excludes, Pushing, Popping, stsVars, shared
<1> QED BY <1>1, <1>2 DEF StsNext

LEMMA Invariance == StsSpec => []StsInv
BY InvAtInit, StepKeeps, PTL DEF StsSpec

\* The variables of create, push, pop and destroy stay in their types: no
\* address, thread or value comes from nowhere.
THEOREM QueueTypesHold == StsSpec => []StsTypeOK
<1>1. StsInv => StsTypeOK
  BY DEF StsInv
<1> QED BY <1>1, Invariance, PTL

\* However many threads push, pop and destroy, and whatever addresses malloc
\* gives back, no freed element is followed: tail dangles and is not used.
THEOREM QueueIsSafe == StsSpec => []NoUseAfterFree
<1>1. StsInv => NoUseAfterFree
  BY DEF StsInv, Good, NoUseAfterFree
<1> QED BY <1>1, Invariance, PTL

\* From head, next leads through the live elements in the order of their
\* pushes, and tail is the last one outside of push.
THEOREM QueueIsAList == StsSpec => []ListIsSound
<1>1. StsInv => ListIsSound
  BY DEF StsInv, Good, ListIsSound
<1> QED BY <1>1, Invariance, PTL

\* What push mallocs is in the list or in the hands of one thread until it is
\* freed.
THEOREM QueueDoesNotLeak == StsSpec => []NothingLeaks
<1>1. StsInv => NothingLeaks
  BY DEF StsInv, Good, NothingLeaks
<1> QED BY <1>1, Invariance, PTL

-----------------------------------------------------------------------------
\* The refinement of the FIFO queue.

LEMMA Mapped ==
  ASSUME NEW S, NEW f \in [Nodes -> S], NEW s \in Seq(Nodes)
  PROVE  LET m == [i \in 1..Len(s) |-> f[s[i]]]
         IN  /\ m \in Seq(S) /\ Len(m) = Len(s)
             /\ \A i \in 1..Len(s) : m[i] = f[s[i]]
<1> DEFINE m == [i \in 1..Len(s) |-> f[s[i]]]
<1>1. Len(s) \in Nat /\ \A i \in 1..Len(s) : s[i] \in Nodes
  BY LenProperties, ElementOfSeq
<1>2. m \in [1..Len(s) -> S]
  BY <1>1
<1>3. m \in Seq(S)
  BY <1>1, <1>2, SeqDef
<1>4. DOMAIN m = 1..Len(m) /\ Len(m) \in Nat
  BY <1>3, LenProperties
<1>5. Len(m) = Len(s)
  BY <1>1, <1>4
<1> QED BY <1>3, <1>5

LEMMA ItemsAre ==
  ASSUME StsTypeOK, Excludes
  PROVE  /\ FifoItems \in Seq(Vals \cup {NULL}) /\ Len(FifoItems) = Len(chain)
         /\ \A i \in 1..Len(chain) : FifoItems[i] = value[chain[i]]
BY Mapped DEF StsTypeOK, FifoItems

\* A step that changes neither the list nor the values in it, nor what a thread
\* has got.
LEMMA Stutters ==
  ASSUME StsTypeOK, Excludes, Excludes', chain' = chain,
         \A i \in 1..Len(chain) : value'[chain[i]] = value[chain[i]],
         \A u \in Threads : Returned(u)' = Returned(u)
  PROVE  UNCHANGED <<FifoItems, FifoOut>>
BY DEF FifoItems, FifoOut

\* A step that puts an element at the end.
LEMMA Appends ==
  ASSUME StsTypeOK, StsTypeOK', Excludes, Excludes', NEW n \in Nodes, value' = value,
         chain' = Append(chain, n)
  PROVE  FifoItems' = Append(FifoItems, value[n])
<1> DEFINE A == Append(FifoItems, value[n])
<1>1. /\ FifoItems \in Seq(Vals \cup {NULL}) /\ Len(FifoItems) = Len(chain)
      /\ \A i \in 1..Len(chain) : FifoItems[i] = value[chain[i]]
  BY ItemsAre
<1>2. /\ FifoItems' \in Seq(Vals \cup {NULL}) /\ Len(FifoItems') = Len(chain')
      /\ \A i \in 1..Len(chain') : FifoItems'[i] = value'[chain'[i]]
  <2>1. FifoItems' = [i \in 1..Len(chain') |-> value'[chain'[i]]]
    BY DEF FifoItems
  <2> QED BY <2>1, Mapped DEF StsTypeOK
<1>3. value[n] \in Vals \cup {NULL}
  BY DEF StsTypeOK
<1>4. /\ A \in Seq(Vals \cup {NULL}) /\ Len(A) = Len(chain) + 1 /\ Len(chain) \in Nat
      /\ \A i \in 1..Len(chain) : A[i] = FifoItems[i]
      /\ A[Len(chain) + 1] = value[n]
  BY <1>1, <1>3, LenProperties DEF StsTypeOK
<1>5. /\ Len(chain') = Len(chain) + 1
      /\ \A i \in 1..Len(chain) : chain'[i] = chain[i]
      /\ chain'[Len(chain) + 1] = n
  BY Appended DEF StsTypeOK
<1>6. \A i \in 1..Len(FifoItems') : FifoItems'[i] = A[i]
  BY <1>1, <1>2, <1>4, <1>5
<1> QED BY <1>2, <1>4, <1>5, <1>6, SeqEqual

\* A step that takes the first element out.
LEMMA Removes ==
  ASSUME StsTypeOK, StsTypeOK', Excludes, Excludes', value' = value, chain # <<>>,
         chain' = Tail(chain)
  PROVE  FifoItems # <<>> /\ Head(FifoItems) = value[chain[1]] /\ FifoItems' = Tail(FifoItems)
<1>1. /\ FifoItems \in Seq(Vals \cup {NULL}) /\ Len(FifoItems) = Len(chain)
      /\ \A i \in 1..Len(chain) : FifoItems[i] = value[chain[i]]
  BY ItemsAre
<1>2. /\ FifoItems' \in Seq(Vals \cup {NULL}) /\ Len(FifoItems') = Len(chain')
      /\ \A i \in 1..Len(chain') : FifoItems'[i] = value'[chain'[i]]
  <2>1. FifoItems' = [i \in 1..Len(chain') |-> value'[chain'[i]]]
    BY DEF FifoItems
  <2> QED BY <2>1, Mapped DEF StsTypeOK
<1>3. /\ Len(chain) \in Nat \ {0} /\ Len(chain') = Len(chain) - 1
      /\ \A i \in 1..Len(chain') : chain'[i] = chain[i + 1]
  BY Tailed DEF StsTypeOK
<1>4. FifoItems # <<>>
  BY <1>1, <1>3, EmptySeq
<1>5. Head(FifoItems) = FifoItems[1]
  BY <1>1, <1>4
<1>6. /\ Tail(FifoItems) \in Seq(Vals \cup {NULL}) /\ Len(Tail(FifoItems)) = Len(chain')
      /\ \A i \in 1..Len(chain') : Tail(FifoItems)[i] = FifoItems[i + 1]
  BY <1>1, <1>3, <1>4, HeadTailProperties
<1>7. \A i \in 1..Len(FifoItems') : FifoItems'[i] = Tail(FifoItems)[i]
  <2> SUFFICES ASSUME NEW i \in 1..Len(chain')
               PROVE  FifoItems'[i] = Tail(FifoItems)[i]
    BY <1>2
  <2>1. i + 1 \in 1..Len(chain)
    BY <1>3
  <2> QED BY <2>1, <1>1, <1>2, <1>3, <1>6
<1>8. FifoItems' = Tail(FifoItems)
  BY <1>2, <1>6, <1>7, SeqEqual
<1> QED BY <1>1, <1>3, <1>4, <1>5, <1>8

\* Every step of the queue is one of the FIFO queue or changes nothing there:
\* set_head and set_next push, rewire pops, read_head finds it empty.
LEMMA StepRefines == StsInv /\ StsInv' /\ [StsNext]_stsVars => [Fifo!Next]_(Fifo!fifoVars)
<1> SUFFICES ASSUME StsInv, StsInv', StsNext
             PROVE  Fifo!Next \/ UNCHANGED <<FifoItems, FifoOut>>
  <2>1. UNCHANGED stsVars => UNCHANGED <<FifoItems, FifoOut>>
    BY DEF stsVars, shared, FifoItems, FifoOut, Excludes, Returned
  <2> QED BY <2>1 DEF Fifo!fifoVars
<1>0. StsTypeOK /\ StsTypeOK' /\ heap = "ok"
  BY DEF StsInv, StsNext
<1>1. ASSUME ~Excludes PROVE UNCHANGED <<FifoItems, FifoOut>>
  <2> PICK t \in Threads : StsStep(t)
    BY DEF StsNext
  <2>1. pc[t] \notin CS
    BY <1>0, <1>1 DEF StsInv
  <2>2. UNCHANGED mutex
    <3>1. CASE \E v \in Vals : Push(t, v)
      BY <3>1 DEF Push
    <3>2. CASE \E f \in {"pop", "destroy"} : Pop(t, f)
      BY <3>2 DEF Pop
    <3>3. CASE Inside(t)
      BY <3>3, <2>1, <1>1 DEF Inside, Acquire, IsEmpty, SetHead, SetNext, SetTail, ReadHead, Rewire,
         Take, Release, CS, Excludes
    <3> QED BY <3>1, <3>2, <3>3 DEF StsStep
  <2> QED BY <1>1, <2>2 DEF FifoItems, FifoOut, Excludes
<1>2. ASSUME Excludes, NEW t \in Threads, NEW v \in Vals, Push(t, v)
      PROVE  UNCHANGED <<FifoItems, FifoOut>>
  <2> PICK n \in Nodes : mem[n] = "free" /\ value' = [value EXCEPT ![n] = v]
    BY <1>2 DEF Push
  <2>1. Excludes' /\ chain' = chain /\ loc' = loc /\ ret' = ret /\ pc' = [pc EXCEPT ![t] = "lock"]
        /\ pc[t] = "idle"
    BY <1>2 DEF Push, GoTo, Excludes
  <2>2. \A i \in 1..Len(chain) : chain[i] \in Nodes /\ chain[i] # n
    BY <1>0, <1>2 DEF StsInv, Good, ListIsSound, ListIsLive, StsTypeOK
  <2>3. \A u \in Threads : pc[u] = "take" => loc[u] \in Nodes /\ loc[u] # n
    BY <1>2 DEF StsInv, Good, Places, Popping
  <2>4. \A u \in Threads : Returned(u)' = Returned(u)
    BY <1>0, <2>1, <2>3 DEF Returned, StsTypeOK
  <2>5. \A i \in 1..Len(chain) : value'[chain[i]] = value[chain[i]]
    BY <1>0, <2>2 DEF StsTypeOK
  <2> QED BY <1>0, <1>2, <2>1, <2>4, <2>5, Stutters
<1>3. ASSUME Excludes, Excludes', chain' = chain, value' = value, ret' = ret, NEW t \in Threads,
             loc' = loc \/ (pc[t] # "take" /\ \E x : loc' = [loc EXCEPT ![t] = x]),
             NEW l, pc' = [pc EXCEPT ![t] = l], l # "take", pc[t] # "take"
      PROVE  UNCHANGED <<FifoItems, FifoOut>>
  <2>1. \A u \in Threads : Returned(u)' = Returned(u)
    BY <1>0, <1>3 DEF Returned, StsTypeOK
  <2> QED BY <1>0, <1>3, <2>1, Stutters
<1>4. ASSUME Excludes, NEW t \in Threads, \E f \in {"pop", "destroy"} : Pop(t, f)
      PROVE  UNCHANGED <<FifoItems, FifoOut>>
  BY <1>4, <1>3 DEF Pop, GoTo, shared, Excludes
<1>5. ASSUME Excludes, NEW t \in Threads, Acquire(t)
      PROVE  UNCHANGED <<FifoItems, FifoOut>>
  <2>1. Excludes'
    BY <1>5, ThreadsAreNoStates DEF Acquire, Lock, Excludes
  <2> QED BY <1>5, <2>1, <1>3 DEF Acquire, GoTo, shared
<1>6. ASSUME NEW t \in Threads, pc[t] \in CS
      PROVE  /\ Excludes /\ Good /\ mutex = t
             /\ \A u \in Threads : u # t => pc[u] \notin CS
  BY <1>0, <1>6, InsideIsAlone
<1>7. ASSUME NEW t \in Threads, IsEmpty(t) \/ SetTail(t)
      PROVE  UNCHANGED <<FifoItems, FifoOut>>
  <2>1. Excludes /\ Excludes'
    BY <1>6, <1>7 DEF IsEmpty, SetTail, CS, Excludes
  <2> QED BY <1>7, <2>1, <1>3 DEF IsEmpty, SetTail, GoTo, shared
<1>8. ASSUME NEW t \in Threads, Release(t)
      PROVE  UNCHANGED <<FifoItems, FifoOut>>
  <2>1. Excludes /\ Excludes'
    BY <1>6, <1>8 DEF Release, Unlock, CS, Excludes
  <2> QED BY <1>8, <2>1, <1>3 DEF Release, GoTo, shared
<1>9. ASSUME NEW t \in Threads, SetHead(t) \/ SetNext(t)
      PROVE  \E v \in Vals : Fifo!Push(v)
  <2>1. Excludes /\ Good /\ Excludes' /\ value' = value /\ loc' = loc /\ ret' = ret
        /\ pc' = [pc EXCEPT ![t] = "set_tail"] /\ pc[t] \in {"set_head", "set_next"}
        /\ heap' = "ok"
    <3>1. pc[t] \in {"set_head", "set_next"} /\ mutex' = mutex /\ value' = value /\ loc' = loc /\ ret' = ret
          /\ pc' = [pc EXCEPT ![t] = "set_tail"]
      BY <1>9 DEF SetHead, SetNext, GoTo
    <3>2. Excludes /\ Good /\ Excludes'
      BY <3>1, <1>6 DEF CS, Excludes
    <3>3. heap' = "ok"
      BY <3>2 DEF StsInv, Good
    <3> QED BY <3>1, <3>2, <3>3
  <2>2. elem[t] \in Nodes /\ value[elem[t]] \in Vals
    BY <2>1 DEF Good, Places, Pushing
  <2>3. chain' = Append(chain, elem[t])
    BY <1>9, <2>1 DEF SetHead, SetNext
  <2>4. FifoItems' = Append(FifoItems, value[elem[t]])
    BY <1>0, <2>1, <2>2, <2>3, Appends
  <2>5. \A u \in Threads : Returned(u)' = Returned(u)
    BY <1>0, <2>1 DEF Returned, StsTypeOK
  <2>6. FifoOut' = FifoOut
    BY <2>1, <2>5 DEF FifoOut
  <2> QED BY <2>2, <2>4, <2>6 DEF Fifo!Push
<1>10. ASSUME NEW t \in Threads, ReadHead(t)
       PROVE  Fifo!PopNothing(t) \/ UNCHANGED <<FifoItems, FifoOut>>
  <2>1. Excludes /\ Good /\ Excludes' /\ chain' = chain /\ value' = value /\ pc[t] = "read_head"
        /\ pc' = [pc EXCEPT ![t] = IF head = NULL THEN "unlock" ELSE "rewire"]
    BY <1>10, <1>6 DEF ReadHead, GoTo, shared, CS, Excludes
  <2>2. CASE head = NULL
    <3>1. ret' = [ret EXCEPT ![t] = NULL] /\ loc' = [loc EXCEPT ![t] = head]
      BY <1>10, <2>2 DEF ReadHead
    <3>2. chain = <<>>
      BY <1>0, <2>1, <2>2, StsAssumption, ElementOfSeq, EmptySeq DEF Good, ListIsSound,
          HeadIsFirst, StsTypeOK
    <3>3. FifoItems = <<>> /\ FifoItems' = FifoItems
      <4>1. FifoItems \in Seq(Vals \cup {NULL}) /\ Len(FifoItems) = 0
        BY <1>0, <2>1, <3>2, ItemsAre, EmptySeq
      <4>2. FifoItems = <<>>
        BY <4>1, EmptySeq
      <4>3. FifoItems' = FifoItems
        BY <2>1 DEF FifoItems
      <4> QED BY <4>2, <4>3
    <3>4. \A u \in Threads : Returned(u)' = IF u = t THEN NULL ELSE Returned(u)
      BY <1>0, <2>1, <2>2, <3>1 DEF Returned, StsTypeOK
    <3>5. FifoOut' = [FifoOut EXCEPT ![t] = NULL]
      BY <2>1, <3>4 DEF FifoOut
    <3> QED BY <3>3, <3>5 DEF Fifo!PopNothing
  <2>3. CASE head # NULL
    <3>1. ret' = ret /\ loc' = [loc EXCEPT ![t] = head] /\ pc' = [pc EXCEPT ![t] = "rewire"]
      BY <1>10, <2>3 DEF ReadHead, GoTo
    <3> QED BY <2>1, <3>1, <1>3
  <2> QED BY <2>2, <2>3
<1>11. ASSUME NEW t \in Threads, Rewire(t)
       PROVE  Fifo!Pop(t)
  <2>1. Excludes /\ Good /\ Excludes' /\ value' = value /\ loc' = loc /\ ret' = ret
        /\ pc' = [pc EXCEPT ![t] = "take"] /\ pc[t] = "rewire"
    BY <1>11, <1>6 DEF Rewire, GoTo, CS, Excludes
  <2>2. chain # <<>> /\ loc[t] = chain[1] /\ heap' = "ok"
    BY <2>1 DEF Good, Places, StsInv
  <2>3. chain' = Tail(chain)
    BY <1>11, <2>2 DEF Rewire
  <2>4. FifoItems # <<>> /\ Head(FifoItems) = value[chain[1]] /\ FifoItems' = Tail(FifoItems)
    BY <1>0, <2>1, <2>2, <2>3, Removes
  <2>5. \A u \in Threads : Returned(u)' = IF u = t THEN value[chain[1]] ELSE Returned(u)
    BY <1>0, <2>1, <2>2 DEF Returned, StsTypeOK
  <2>6. FifoOut' = [FifoOut EXCEPT ![t] = value[chain[1]]]
    BY <2>1, <2>5 DEF FifoOut
  <2> QED BY <2>4, <2>6 DEF Fifo!Pop
<1>12. ASSUME NEW t \in Threads, Take(t)
       PROVE  UNCHANGED <<FifoItems, FifoOut>>
  <2>1. Excludes /\ Good /\ Excludes' /\ chain' = chain /\ loc' = loc
        /\ pc' = [pc EXCEPT ![t] = "unlock"] /\ pc[t] = "take"
        /\ \A u \in Threads : u # t => pc[u] # "take"
    BY <1>12, <1>6 DEF Take, GoTo, CS, Excludes
  <2>2. loc[t] \in Nodes /\ mem[loc[t]] = "live"
    BY <2>1 DEF Good, Places, Popping
  <2>3. ret' = [ret EXCEPT ![t] = value[loc[t]]] /\ value' = [value EXCEPT ![loc[t]] = NULL]
    BY <1>12, <2>2 DEF Take
  <2>4. \A i \in 1..Len(chain) : value'[chain[i]] = value[chain[i]]
    <3>1. \A i \in 1..Len(chain) : chain[i] \in Nodes /\ chain[i] # loc[t]
      BY <1>0, <2>1 DEF Good, Apart, Popping, StsTypeOK
    <3> QED BY <1>0, <2>3, <3>1 DEF StsTypeOK
  <2>5. \A u \in Threads : Returned(u)' = Returned(u)
    BY <1>0, <2>1, <2>2, <2>3 DEF Returned, StsTypeOK
  <2> QED BY <1>0, <2>1, <2>4, <2>5, Stutters
<1> QED
  <2> PICK t \in Threads : StsStep(t)
    BY DEF StsNext
  <2>1. CASE ~Excludes
    BY <1>1, <2>1
  <2>2. CASE Excludes /\ (\E v \in Vals : Push(t, v))
    BY <1>2, <2>2
  <2>3. CASE Excludes /\ (\E f \in {"pop", "destroy"} : Pop(t, f))
    BY <1>4, <2>3
  <2>4. CASE Excludes /\ Inside(t)
    BY <2>4, <1>5, <1>7, <1>8, <1>9, <1>10, <1>11, <1>12 DEF Inside, Fifo!Next
  <2> QED BY <2>1, <2>2, <2>3, <2>4 DEF StsStep

\* sts_queue.h calls it a thread safe queue: with a mutex that excludes, the
\* calls of any threads are those of a FIFO queue, in some order, one at a time.
THEOREM QueueIsFifo == StsSpec => ImplementsFifo
<1>1. StsInit => Fifo!Init
  <2> SUFFICES ASSUME StsInit PROVE FifoItems = <<>> /\ FifoOut = [t \in Threads |-> NULL]
    BY DEF Fifo!Init
  <2>1. StsTypeOK /\ chain = <<>>
    BY InvAtInit DEF StsInv, StsInit
  <2>2. CASE Excludes
    BY <2>1, <2>2, ItemsAre, EmptySeq DEF FifoOut, Returned, StsInit
  <2>3. CASE ~Excludes
    BY <2>3 DEF FifoItems, FifoOut
  <2> QED BY <2>2, <2>3
<1> QED BY <1>1, Invariance, StepRefines, PTL DEF StsSpec, ImplementsFifo, Fifo!Spec

=============================================================================
