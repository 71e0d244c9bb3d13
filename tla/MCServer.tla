------------------------------ MODULE MCServer ------------------------------
(* Server for TLC: a listener of each kind, the last with a host name, and two *)
(* clients of which one is slow.                                              *)
EXTENDS Server

CONSTANTS a, b

MCConn == {a, b}
MCSlow == {b}
MCByName == {"mixed"}
MCConfig == <<"web", "edge", "mixed">>
MCKind == [web |-> "http", edge |-> "proxyproto", mixed |-> "passthrough"]
=============================================================================
