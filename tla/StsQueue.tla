------------------------------ MODULE StsQueue ------------------------------
(***************************************************************************)
(* sts_queue.c: a linked list under a mutex, used by several threads.      *)
(*                                                                         *)
(* A step is one access to shared memory, or a few that this code always   *)
(* makes together: push fills its element where no other thread sees it,   *)
(* reads tail with head (IsEmpty), and pop reads next and writes head      *)
(* (Rewire), and reads the value and frees the element (Take).             *)
(*                                                                         *)
(* Elements are malloced and freed, and an address may come back at once;  *)
(* tail keeps the address of the last element after that has been popped   *)
(* and freed.  A thread that follows a pointer to freed memory ends the    *)
(* model (heap = "corrupt").                                               *)
(*                                                                         *)
(* create mallocs the mutex and never initialises it.  What                *)
(* pthread_mutex_lock makes of the bytes is a choice: an unlocked mutex    *)
(* (the bytes are zero), a locked one, where every caller waits, or an     *)
(* invalid one, after which nothing is known: the model ends there, too.   *)
(***************************************************************************)
EXTENDS Integers, Sequences

CONSTANTS Pushers,        \* the threads that push
          Poppers,        \* the threads that pop; a thread may do both
          Spinners,       \* those that pop in an endless loop (task_manager)
          Destroyers,     \* the threads that call destroy
          Vals, NULL,
          Nodes,          \* bound: the addresses malloc can return
          MaxPushes,      \* bound on the calls of push
          MutexContents   \* what the mutex may be: "unlocked", "locked", "invalid"

Threads == Pushers \cup Poppers \cup Destroyers

ASSUME StsAssumption ==
  /\ NULL \notin Vals \cup Nodes
  /\ MaxPushes \in Nat
  /\ Spinners \subseteq Poppers
  /\ MutexContents \subseteq {"unlocked", "locked", "invalid"}
  /\ Threads \cap {"unlocked", "locked", "invalid"} = {}

VARIABLES head, tail,   \* the fields of StsHeader
          mutex,        \* the thread that holds it, or its state
          mem,          \* per address: "free" or "live"
          value, next,  \* the fields of the StsElement at each address
          pc,           \* where each thread is in push or pop, "idle" outside
          op,           \* the function it is in: "push", "pop" or "destroy"
          loc,          \* its local pointer: element, head or oldTail
          elem,         \* the element it is pushing
          ret,          \* the value of its last pop
          pushes,       \* calls of push so far
          heap,         \* "ok", or "corrupt" after an access to freed memory
          chain         \* auxiliary: the addresses in the list, oldest first

shared == <<head, tail, mem, value, next>>
stsVars == <<shared, mutex, pc, op, loc, elem, ret, pushes, heap, chain>>

GoTo(t, l) == pc' = [pc EXCEPT ![t] = l]

-----------------------------------------------------------------------------
\* The mutex.

\* Mutant: a thread does not wait for another one.
Lock_NoWait(t) == mutex' = t

\* pthread_mutex_lock: wait until it is free.
Lock(t) == mutex = "unlocked" /\ mutex' = t

\* Mutant: push returns with the mutex.
Unlock_NotAfterPush(t) == mutex' = IF mutex = t /\ op[t] # "push" THEN "unlocked" ELSE mutex

Unlock(t) == mutex' = IF mutex = t THEN "unlocked" ELSE mutex

-----------------------------------------------------------------------------
\* push.  The element is made before the mutex is taken.
Push(t, v) ==
  /\ pc[t] = "idle" /\ t \in Pushers /\ pushes < MaxPushes
  /\ \E n \in Nodes :
       /\ mem[n] = "free"
       /\ mem' = [mem EXCEPT ![n] = "live"]
       /\ value' = [value EXCEPT ![n] = v]
       /\ next' = [next EXCEPT ![n] = NULL]
       /\ elem' = [elem EXCEPT ![t] = n]
  /\ pushes' = pushes + 1
  /\ op' = [op EXCEPT ![t] = "push"]
  /\ GoTo(t, "lock")
  /\ UNCHANGED <<head, tail, mutex, loc, ret, heap, chain>>

\* pop, and destroy, which pops until there is nothing.
Pop(t, f) ==
  /\ pc[t] = "idle"
  /\ (f = "pop" /\ t \in Poppers) \/ (f = "destroy" /\ t \in Destroyers)
  /\ op' = [op EXCEPT ![t] = f]
  /\ GoTo(t, "lock")
  /\ UNCHANGED <<shared, mutex, loc, elem, ret, pushes, heap, chain>>

Acquire(t) ==
  /\ pc[t] = "lock"
  /\ IF mutex = "invalid" THEN heap' = "corrupt" /\ UNCHANGED mutex
                          ELSE Lock(t) /\ UNCHANGED heap
  /\ GoTo(t, IF op[t] = "push" THEN "is_empty" ELSE "read_head")
  /\ UNCHANGED <<shared, op, loc, elem, ret, pushes, chain>>

\* Mutant: the list is taken for empty when tail is NULL.
ListIsEmpty_ByTail == tail = NULL

\* header->head == NULL
ListIsEmpty == head = NULL

\* push tests for an empty list, and reads tail otherwise.
IsEmpty(t) ==
  /\ pc[t] = "is_empty"
  /\ GoTo(t, IF ListIsEmpty THEN "set_head" ELSE "set_next")
  /\ loc' = [loc EXCEPT ![t] = tail]
  /\ UNCHANGED <<shared, mutex, op, elem, ret, pushes, heap, chain>>

SetHead(t) ==
  /\ pc[t] = "set_head"
  /\ head' = elem[t]
  /\ chain' = Append(chain, elem[t])
  /\ GoTo(t, "set_tail")
  /\ UNCHANGED <<tail, mem, value, next, mutex, op, loc, elem, ret, pushes, heap>>

\* oldTail->next = element
SetNext(t) ==
  /\ pc[t] = "set_next"
  /\ IF loc[t] # NULL /\ mem[loc[t]] = "live"
     THEN /\ next' = [next EXCEPT ![loc[t]] = elem[t]]
          /\ chain' = Append(chain, elem[t])
          /\ UNCHANGED heap
     ELSE heap' = "corrupt" /\ UNCHANGED <<next, chain>>
  /\ GoTo(t, "set_tail")
  /\ UNCHANGED <<head, tail, mem, value, mutex, op, loc, elem, ret, pushes>>

\* Mutant: tail stays at the first element.
NewTail_First(t) == IF tail = NULL THEN elem[t] ELSE tail

\* Mutant: the pushed value in the place of the element that holds it.
NewTail_Value(t) == value[elem[t]]

NewTail(t) == elem[t]

SetTail(t) ==
  /\ pc[t] = "set_tail"
  /\ tail' = NewTail(t)
  /\ GoTo(t, "unlock")
  /\ UNCHANGED <<head, mem, value, next, mutex, op, loc, elem, ret, pushes, heap, chain>>

-----------------------------------------------------------------------------
\* pop reads head; NULL is returned from an empty list.
ReadHead(t) ==
  /\ pc[t] = "read_head"
  /\ loc' = [loc EXCEPT ![t] = head]
  /\ ret' = IF head = NULL THEN [ret EXCEPT ![t] = NULL] ELSE ret
  /\ GoTo(t, IF head = NULL THEN "unlock" ELSE "rewire")
  /\ UNCHANGED <<shared, mutex, op, elem, pushes, heap, chain>>

\* header->head = head->next
Rewire(t) ==
  /\ pc[t] = "rewire"
  /\ IF mem[loc[t]] = "live"
     THEN /\ head' = next[loc[t]]
          /\ chain' = IF chain = <<>> THEN chain ELSE Tail(chain)
          /\ UNCHANGED heap
     ELSE heap' = "corrupt" /\ UNCHANGED <<head, chain>>
  /\ GoTo(t, "take")
  /\ UNCHANGED <<tail, mem, value, next, mutex, op, loc, elem, ret, pushes>>

\* Mutant: only the list forgets the element.
Freed_Never(n) == mem

\* free(head)
Freed(n) == [mem EXCEPT ![n] = "free"]

\* The value is read and the element freed; what a freed element holds is never
\* looked at again.
Take(t) ==
  /\ pc[t] = "take"
  /\ IF mem[loc[t]] = "live"
     THEN /\ ret' = [ret EXCEPT ![t] = value[loc[t]]]
          /\ mem' = Freed(loc[t])
          /\ value' = [value EXCEPT ![loc[t]] = NULL]
          /\ next' = [next EXCEPT ![loc[t]] = NULL]
          /\ UNCHANGED heap
     ELSE heap' = "corrupt" /\ UNCHANGED <<ret, mem, value, next>>
  /\ GoTo(t, "unlock")
  /\ UNCHANGED <<head, tail, mutex, op, loc, elem, pushes, chain>>

\* The mutex is given back and the locals are gone; destroy goes on while it gets
\* something.
Release(t) ==
  /\ pc[t] = "unlock"
  /\ Unlock(t)
  /\ GoTo(t, IF op[t] = "destroy" /\ ret[t] # NULL THEN "lock" ELSE "idle")
  /\ loc' = [loc EXCEPT ![t] = NULL]
  /\ elem' = [elem EXCEPT ![t] = NULL]
  /\ UNCHANGED <<shared, op, ret, pushes, heap, chain>>

-----------------------------------------------------------------------------
\* create, before the threads start.
StsInit ==
  /\ head = NULL /\ tail = NULL
  /\ mutex \in MutexContents
  /\ mem = [n \in Nodes |-> "free"]
  /\ value = [n \in Nodes |-> NULL]
  /\ next = [n \in Nodes |-> NULL]
  /\ pc = [t \in Threads |-> "idle"]
  /\ op = [t \in Threads |-> "pop"]
  /\ loc = [t \in Threads |-> NULL]
  /\ elem = [t \in Threads |-> NULL]
  /\ ret = [t \in Threads |-> NULL]
  /\ pushes = 0
  /\ heap = "ok"
  /\ chain = <<>>

\* The steps inside a call.
Inside(t) ==
  \/ Acquire(t) \/ IsEmpty(t) \/ SetHead(t) \/ SetNext(t) \/ SetTail(t)
  \/ ReadHead(t) \/ Rewire(t) \/ Take(t) \/ Release(t)

StsStep(t) ==
  \/ \E v \in Vals : Push(t, v)
  \/ \E f \in {"pop", "destroy"} : Pop(t, f)
  \/ Inside(t)

StsNext == heap = "ok" /\ \E t \in Threads : StsStep(t)

StsSpec == StsInit /\ [][StsNext]_stsVars

\* A thread inside a call goes on when it can, and task_manager calls pop again
\* and again.  Nothing is assumed about who gets the mutex next.
FairStsSpec ==
  /\ StsSpec
  /\ \A t \in Threads : WF_stsVars(heap = "ok" /\ Inside(t))
  /\ \A t \in Spinners : WF_stsVars(heap = "ok" /\ Pop(t, "pop"))

-----------------------------------------------------------------------------
StsTypeOK ==
  /\ head \in Nodes \cup {NULL} /\ tail \in Nodes \cup {NULL}
  /\ mutex \in Threads \cup {"unlocked", "locked", "invalid"}
  /\ mem \in [Nodes -> {"free", "live"}]
  /\ value \in [Nodes -> Vals \cup {NULL}]
  /\ next \in [Nodes -> Nodes \cup {NULL}]
  /\ pc \in [Threads -> {"idle", "lock", "is_empty", "set_head", "set_next", "set_tail",
                         "read_head", "rewire", "take", "unlock"}]
  /\ op \in [Threads -> {"push", "pop", "destroy"}]
  /\ loc \in [Threads -> Nodes \cup {NULL}]
  /\ elem \in [Threads -> Nodes \cup {NULL}]
  /\ ret \in [Threads -> Vals \cup {NULL}]
  /\ pushes \in 0..MaxPushes
  /\ heap \in {"ok", "corrupt"}
  /\ chain \in Seq(Nodes)

\* The mutex bytes are not an invalid mutex.
Excludes == mutex # "invalid"

\* The queue is safe for threads: no pointer to a freed element is followed, tail
\* included, which dangles after the last element was popped.
NoUseAfterFree == Excludes => heap = "ok"

HeadIsFirst == head = (IF chain = <<>> THEN NULL ELSE chain[1])

NextIsNext ==
  \A i \in 1..Len(chain) : next[chain[i]] = (IF i = Len(chain) THEN NULL ELSE chain[i + 1])

ListIsLive ==
  \A i \in 1..Len(chain) : /\ mem[chain[i]] = "live"
                           /\ \A j \in 1..Len(chain) : chain[i] = chain[j] => i = j

TailIsLast ==
  (chain # <<>> /\ \A t \in Threads : pc[t] # "set_tail") => tail = chain[Len(chain)]

\* Following next from head gives the elements in the order they were pushed and
\* ends, and none of them is freed; tail is the last one unless a push is between
\* its two writes.
ListIsSound == Excludes => HeadIsFirst /\ NextIsNext /\ ListIsLive /\ TailIsLast

\* The element is not in the list yet, or not any more.
Pushing(t) == (pc[t] = "lock" /\ op[t] = "push") \/ pc[t] \in {"is_empty", "set_head", "set_next"}
Popping(t) == pc[t] = "take"

\* An element is in the list, or in the hands of the one thread that pushes or
\* pops it, or it has been freed: nothing leaks.
NothingLeaks ==
  Excludes =>
    \A n \in Nodes : mem[n] = "live" =>
      \/ \E i \in 1..Len(chain) : chain[i] = n
      \/ \E t \in Threads : (Pushing(t) /\ elem[t] = n) \/ (Popping(t) /\ loc[t] = n)

\* A pop has its value from the moment it has moved head.
Returned(t) == IF pc[t] = "take" THEN value[loc[t]] ELSE ret[t]

\* What the queue holds and what each thread got; with an invalid mutex, nothing.
FifoItems == IF Excludes THEN [i \in 1..Len(chain) |-> value[chain[i]]] ELSE <<>>
FifoOut == [t \in Threads |-> IF Excludes THEN Returned(t) ELSE NULL]

Fifo == INSTANCE FifoQueue WITH items <- FifoItems, out <- FifoOut

\* sts_queue.h: "Simple thread safe queue".  With a mutex that excludes, pushes
\* and pops of any threads, and destroy, are those of a FIFO queue.
ImplementsFifo == Fifo!Spec

\* A thread that pops in a loop gets everything that is pushed, in whatever order
\* the mutex is given to those who wait, as long as others push only MaxPushes times:
\* an element in the list is freed in the end.
PushedIsPopped ==
  \A n \in Nodes : (Excludes /\ \E i \in 1..Len(chain) : chain[i] = n) ~> mem[n] = "free"
=============================================================================
