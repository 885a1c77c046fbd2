----------------------------- MODULE MCMcpServer -----------------------------
(* McpServer on a small instance: two calls use one id. *)
EXTENDS McpServer

CONSTANTS c1, c2, c3, i1, i2

Calls == {c1, c2, c3}
Ids == {i1, i2}
MCIdOf == [c \in Calls |-> IF c = c3 THEN i2 ELSE i1]
=============================================================================
