------------------------------ MODULE MCRouter ------------------------------
(***************************************************************************)
(* Router for TLC: keys that begin alike, the longest of which fills its   *)
(* block, values of one byte, requests with and without their closing bar, *)
(* read whole, in parts and together, by two connections.                  *)
(***************************************************************************)
EXTENDS Router

CONSTANTS c1, c2

\* Connections are told apart by equality only.
Exchange == Permutations({c1, c2})

MCKeys == {<<"a">>, <<"a", "b">>}
MCVals == {<<"x">>}
MCBytes == {NUL, BAR, "0", "1", "2", "3", "a", "b", "x", "J"}
MCJunk == {<<"J">>}

Req(c, k, v, e) == [cmd |-> c, key |-> k, val |-> v, end |-> e]

MCRequests ==
  {Req(CMD_SET, <<"a">>, <<"x">>, <<BAR>>), Req(CMD_SET, <<"a", "b">>, <<"x">>, <<>>),
   Req(CMD_SET, <<"a", "b">>, <<"x">>, <<BAR>>), Req(CMD_GET, <<"a">>, <<>>, <<BAR>>),
   Req(CMD_GET, <<>>, <<>>, <<BAR>>), Req(CMD_DELETE, <<"a">>, <<>>, <<BAR>>),
   Req(CMD_DELETE, <<"a", "b">>, <<>>, <<>>)}

\* The requests of README.md, and a delete as client.js sends it.
MCClientRequests ==
  {Req(CMD_SET, <<"a">>, <<"x">>, <<BAR>>), Req(CMD_SET, <<"a", "b">>, <<"x">>, <<BAR>>),
   Req(CMD_DELETE, <<"a">>, <<>>, <<>>)}
=============================================================================
