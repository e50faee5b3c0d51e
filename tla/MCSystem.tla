------------------------------ MODULE MCSystem ------------------------------
(***************************************************************************)
(* System for TLC: client.js sets a key.                                   *)
(***************************************************************************)
EXTENDS System

CONSTANT c1

MCKeys == {<<"a">>}
MCVals == {<<"x">>}
MCBytes == {NUL, BAR, "0", "1", "2", "3", "a", "x", "J"}
MCJunk == {<<"J">>}

MCCalls == {[cmd |-> CMD_SET, key |-> <<"a">>, val |-> <<"x">>, end |-> <<>>]}
=============================================================================
