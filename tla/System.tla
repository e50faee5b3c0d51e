------------------------------- MODULE System -------------------------------
(***************************************************************************)
(* Clients of client.js, their connections and the server.                 *)
(*                                                                         *)
(* A connection is two streams of bytes.  What Router reads of the one is  *)
(* answered on the other; a data event of the client takes a part of the   *)
(* replies, and each listener looks at it as one reply.  Neither side      *)
(* waits for the rest of a message or looks for a second one.              *)
(***************************************************************************)
EXTENDS Router

VARIABLES down,     \* the bytes on the way to each client
          promises  \* the calls of each client whose promises are not resolved

systemVars == <<routerVars, down, promises>>

Bars(s) == {i \in 1..Len(s) : s[i] = BAR}

\* split("|"): the first two fields of a non-empty chunk, a missing one as NULL.
Field0(s) == IF Bars(s) = {} THEN s ELSE SubSeq(s, 1, First(Bars(s)) - 1)
Field1(s) ==
  IF Bars(s) = {} THEN NULL ELSE Field0(Rest(s, First(Bars(s))))

\* The promise of the call is resolved by this data event.
Resolves(r, data) == Field0(data) = <<Encode(r)[1]>> /\ Field1(data) = r.key

-----------------------------------------------------------------------------
\* setData and removeData: write, and wait for the reply without holding back the
\* next call.
Call(c) ==
  \E r \in Requests :
    /\ Send(c, r)
    /\ promises' = [promises EXCEPT ![c] = @ \cup {r}]
    /\ UNCHANGED down

\* on_read_cb, and uv_write of the reply to the client that was read from.
Answer(c) ==
  /\ Read(c)
  /\ down' = IF reply' = NULL THEN down ELSE [down EXCEPT ![c] = @ \o reply']
  /\ UNCHANGED promises

\* The 'data' event of the socket, which myEmitter passes to every listener.
Data(c) ==
  \E n \in 1..Len(down[c]) :
    /\ down' = [down EXCEPT ![c] = Rest(@, n)]
    /\ promises' = [promises EXCEPT ![c] = {r \in @ : ~Resolves(r, Beginning(down[c], n))}]
    /\ UNCHANGED routerVars

\* The server starts; clients connect.
Serve == Start /\ UNCHANGED <<down, promises>>

SystemInit == RouterInit /\ down = NoBytes /\ promises = [c \in Clients |-> {}]

SystemNext == Serve \/ \E c \in Clients : Call(c) \/ Answer(c) \/ Data(c)

SystemSpec == SystemInit /\ [][SystemNext]_systemVars

-----------------------------------------------------------------------------
\* client.js: the promise of setData is resolved by the reply "1|key|...".  When
\* all that was sent has been read, on both sides, no call is still waiting.
EveryCallIsAnswered ==
  (proc = "on" /\ up = NoBytes /\ down = NoBytes) => \A c \in Clients : promises[c] = {}
=============================================================================
