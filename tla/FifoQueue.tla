----------------------------- MODULE FifoQueue -----------------------------
(***************************************************************************)
(* What a thread-safe queue promises: pushes and pops of all threads take  *)
(* effect one at a time, a pop returns the oldest item, and NULL only when *)
(* there is none.                                                          *)
(***************************************************************************)
EXTENDS Sequences

CONSTANTS Threads, Vals, NULL

VARIABLES items,  \* the values in the queue, oldest first
          out     \* what the last pop of each thread returned

fifoVars == <<items, out>>

Init == items = <<>> /\ out = [t \in Threads |-> NULL]

Push(v) == items' = Append(items, v) /\ UNCHANGED out

Pop(t) ==
  /\ items # <<>>
  /\ items' = Tail(items)
  /\ out' = [out EXCEPT ![t] = Head(items)]

PopNothing(t) ==
  /\ items = <<>>
  /\ out' = [out EXCEPT ![t] = NULL]
  /\ UNCHANGED items

Next == (\E v \in Vals : Push(v)) \/ (\E t \in Threads : Pop(t) \/ PopNothing(t))

Spec == Init /\ [][Next]_fifoVars
=============================================================================
