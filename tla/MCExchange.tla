----------------------------- MODULE MCExchange -----------------------------
(* One or two connections that share the numbers of an engine. *)
EXTENDS Exchange

CONSTANTS c1, c2

OneConn == {c1}
TwoConns == {c1, c2}
==============================================================================
